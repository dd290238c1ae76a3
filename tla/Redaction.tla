----------------------------- MODULE Redaction -----------------------------
(***************************************************************************)
(* Secrets are taken out of what an extension prints before it is kept:    *)
(* redactText and redactValue (session.ts), redact (node-process-runner)   *)
(* and secretRedactor with redactDecodedRunMessage (plugin-host.ts).  A    *)
(* text is a sequence of characters, and the marker one more character.    *)
(***************************************************************************)
EXTENDS Texts

CONSTANT Marker

(* The secrets, the longest first; an empty one is left out.               *)
LongestFirst(secrets) ==
  SetToSortSeq(secrets \ {<<>>}, LAMBDA a, b : Len(a) > Len(b))

RedactText(text, secrets) ==
  FoldLeft(LAMBDA kept, secret : ReplaceAllOf(kept, secret, <<Marker>>), text,
           LongestFirst(secrets))

(* Every text of a message; numbers, flags, kinds and versions stay.       *)
RedactFields(message, texts, secrets) ==
  [f \in DOMAIN message |->
     IF f \in texts THEN RedactText(message[f], secrets) ELSE message[f]]

TextsOf(message) ==
  IF message.kind = "completed" THEN {"output", "metric", "state", "metadata"}
  ELSE IF message.kind = "failed" THEN {"error", "state"}
  ELSE IF message.kind = "progress" THEN {"message"}
  ELSE IF message.kind \in {"checkpoint", "cancelled"} THEN {"state"} ELSE {}

RedactMessage(message, secrets) == RedactFields(message, TextsOf(message), secrets)

-----------------------------------------------------------------------------
(* What redaction is for: no secret is left in a text, and nothing of a    *)
(* secret that contains another one.                                       *)
IsClean(text, secrets) == \A s \in secrets \ {<<>>} : ~Occurs(s, text)

HidesAll(secrets) == \A s \in secrets \ {<<>>} : RedactText(s, secrets) = <<Marker>>
=============================================================================
