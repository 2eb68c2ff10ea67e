-------------------------- MODULE AIResponseParser --------------------------
(***************************************************************************)
(* How an answer of a language model becomes a diagnosis (agent/internal/  *)
(* core/service/ai_response_parser.go).  A text is a sequence of the       *)
(* characters the scan tells apart: braces ("open" and "close"), quote,    *)
(* backslash and one letter.  A field of the JSON object is absent, of no  *)
(* accepted value ("other", of the wrong type included) or the value it    *)
(* was given.                                                              *)
(***************************************************************************)
EXTENDS Integers, SequencesExt

Character == {"open", "close", "quote", "backslash", "x"}

-----------------------------------------------------------------------------
(* ExtractJSONBlock.                                                       *)

\* One character of the scan: depth of braces, inside a string, next escaped.
Scan(state, char) ==
  IF state.escape THEN [state EXCEPT !.escape = FALSE]
  ELSE IF char = "backslash" /\ state.string THEN [state EXCEPT !.escape = TRUE]
  ELSE IF char = "quote" THEN [state EXCEPT !.string = ~@]
  ELSE IF state.string THEN state
  ELSE IF char = "open" THEN [state EXCEPT !.depth = @ + 1]
  ELSE IF char = "close" THEN [state EXCEPT !.depth = @ - 1]
  ELSE state

Before == [depth |-> 0, string |-> FALSE, escape |-> FALSE]

\* The scan's state after each character of the text.
Scanned(text) ==
  LET after[i \in 0 .. Len(text)] ==
        IF i = 0 THEN Before ELSE Scan(after[i - 1], text[i])
  IN after

\* From the first brace to the one that closes it; empty when there is none.
ExtractJSONBlock(text) ==
  LET opens == {i \in DOMAIN text : text[i] = "open"} IN
  IF opens = {} THEN << >>
  ELSE LET rest == SubSeq(text, Min(opens), Len(text))
           closes == {i \in DOMAIN rest : rest[i] = "close" /\ Scanned(rest)[i] = Before}
       IN IF closes = {} THEN << >> ELSE SubSeq(rest, 1, Min(closes))

-----------------------------------------------------------------------------
(* Parse: the fields of the block, each with its fallback.                 *)

ValidSeverities == {"critical", "warning", "info"}
ValidActions == {"restart", "stop", "isolate", "none"}
ValidConfidences == {"high", "medium", "low"}

\* deriveSignalSeverity, of a status that shows a crash (a positive code or a kill).
DeriveSignalSeverity(crashed) == IF crashed THEN "critical" ELSE "warning"

FallbackPartial ==
  [level |-> "AI~", severity |-> "warning", action |-> "none", confidence |-> "low"]

\* A slip of Parse: an action that was replaced leaves the confidence as it is.
ParseTrusting(wellFormed, fields, crashed) ==
  IF ~wellFormed \/ fields.rootCause \in {"absent", "other"} THEN FallbackPartial
  ELSE [level |-> "AI",
        severity |-> IF fields.severity \in ValidSeverities THEN fields.severity
                     ELSE DeriveSignalSeverity(crashed),
        action |-> IF fields.action \in ValidActions THEN fields.action ELSE "none",
        confidence |-> IF fields.severity \in ValidSeverities
                          /\ fields.confidence \in ValidConfidences
                       THEN fields.confidence ELSE "low"]

\* `fields` is what a well-formed block holds; text without one is partial too.
Parse(wellFormed, fields, crashed) ==
  LET severityGiven == fields.severity \in ValidSeverities
      actionGiven == fields.action \in ValidActions
      trusted == severityGiven /\ actionGiven /\ fields.confidence \in ValidConfidences
  IN IF ~wellFormed \/ fields.rootCause \in {"absent", "other"} THEN FallbackPartial
     ELSE [level |-> "AI",
           severity |-> IF severityGiven THEN fields.severity
                        ELSE DeriveSignalSeverity(crashed),
           action |-> IF actionGiven THEN fields.action ELSE "none",
           confidence |-> IF trusted THEN fields.confidence ELSE "low"]

-----------------------------------------------------------------------------
(* Properties.                                                             *)

\* JSON objects, from the grammar: letters, strings with escapes, one nested object.
Word == UNION {[1 .. n -> {"x", "open", "close"}] : n \in 0 .. 2}
Escape == {<< >>, <<"backslash", "quote">>, <<"backslash", "backslash">>}
Quoted == {<<"quote">> \o w \o e \o <<"quote">> : w \in Word, e \in Escape}
Flat == {<< >>, <<"x">>} \union Quoted
Nested == {<<"open">> \o f \o <<"close">> : f \in Flat}
Block == {<<"open">> \o f \o n \o <<"close">> : f \in Flat, n \in Nested \union {<< >>}}
Prose == UNION {[1 .. n -> Character \ {"open"}] : n \in 0 .. 2}
Tail2 == UNION {[1 .. n -> Character] : n \in 0 .. 2}

Fields ==
  [rootCause : {"absent", "other", "text"},
   severity : ValidSeverities \union {"absent", "other"},
   action : ValidActions \union {"absent", "other"},
   confidence : ValidConfidences \union {"absent", "other"}]

\* Whatever prose surrounds it, and whatever braces and quotes its strings hold, the
\* block taken from a text is the first object of the grammar.  Nothing outside the
\* lists gets through, and an answer with any field replaced is never trusted: only a
\* complete one keeps its confidence, and so is worth the second, deeper call.
ParserExact ==
  /\ \A b \in Block :
       /\ \A p \in Prose : ExtractJSONBlock(p \o b) = b
       /\ \A t \in Tail2 : ExtractJSONBlock(b \o t) = b
  /\ \A w \in BOOLEAN, f \in Fields, crashed \in BOOLEAN :
       LET r == Parse(w, f, crashed) IN
       /\ r.severity \in ValidSeverities /\ r.action \in ValidActions
       /\ r.confidence # "low" =>
            r = [level |-> "AI", severity |-> f.severity, action |-> f.action,
                 confidence |-> f.confidence]
       /\ r.level = "AI" <=> w /\ f.rootCause = "text"
=============================================================================
