---------------------------- MODULE JobHandlers ----------------------------
(***************************************************************************)
(* The job handlers (internal/jobs): what Handle may return for a payload. *)
(* Of a payload only what decides the result is kept.  Rendering, resizing *)
(* and the contents of the files that are written are left out.            *)
(***************************************************************************)
EXTENDS Naturals

CONSTANT OutsideFails   \* whether file system and image sites may fail

ASSUME HandlerAssumption == OutsideFails \in BOOLEAN

Payload ==
    [parses : BOOLEAN,      \* it decodes into the handler's struct
     given : BOOLEAN,       \* recipient, image source or template is there
     failUntil : Nat,       \* _demo_fail_until_attempt of an invoice
     outside : BOOLEAN]     \* a file is to be written, or an image fetched

\* The part of a handler that depends on a file system or on a web site.
Outside(p) == IF p.outside /\ OutsideFails THEN {"nil", "error"} ELSE {"nil"}

ValidateEmailPayload(p) == p.parses /\ p.given

Hello == {"nil"}

\* A sleep takes 30 seconds unless it asks for more than none, and never more
\* than 300; the error it returns when the process ends comes too late to matter.
Sleep(p) == IF p.parses THEN {"nil"} ELSE {"error"}

Report(p) == IF p.parses THEN Outside(p) ELSE {"error"}

Image(p) == IF p.parses /\ p.given THEN Outside(p) ELSE {"error"}

\* Mutant: the attempts are counted from one, as a comment in handler.go has it.
InvoiceFromOne(p, attempt) ==
    IF p.parses /\ attempt + 1 >= p.failUntil /\ p.given THEN Outside(p) ELSE {"error"}

\* The demo switch is looked at before the template; attempts count from zero.
Invoice(p, attempt) ==
    IF p.parses /\ attempt >= p.failUntil /\ p.given THEN Outside(p) ELSE {"error"}

\* What Handle of the type's handler may return on the given attempt.
Results(type, p, attempt) ==
    CASE type = "hello" -> Hello
      [] type = "sleep" -> Sleep(p)
      [] type = "report" -> Report(p)
      [] type = "image" -> Image(p)
      [] type = "invoice" -> Invoice(p, attempt)
=============================================================================
