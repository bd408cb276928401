----------------------------- MODULE MCDocuments -----------------------------
(***************************************************************************)
(* Bson for TLC: the values that are written, the parts that are looked at *)
(* and one initial state of those that are not.                            *)
(***************************************************************************)
EXTENDS Bson

CONSTANTS
  Foci,     \* the parts this configuration looks at
  UseRegex  \* the program stores regular expressions in documents it edits

MCValues ==
  IF UseRegex THEN {FixedValue(I32, 7), RegexValue(<<9>>, <<>>)}
  ELSE {FixedValue(I32, 7), StrValue(<<9, 9>>), FixedValue(DateTime, 7),
        ArrayValue(<<FixedValue(I32, 7)>>)}

MCScalars ==
  {FixedValue(I32, 7), FixedValue(Null, 0), StrValue(<<>>), BinaryValue(0, <<8>>)}

\* One as built, with an array in it, one whose value was overwritten by a shorter one,
\* and one with JavaScript and a regular expression as the specification has them.
MCEmbedded ==
  {<<11, Array, 1, 0, 6, I32, 1, 0, 7, 0, 0>>, <<6, I32, 1, 0, 7, 0, 5>>,
   <<14, JavaScript, 1, 0, 2, 9, 0, Regex, 2, 0, 9, 0, 0, 0>>}

-----------------------------------------------------------------------------
\* Only the focus has a choice of initial states.
MCInit ==
  /\ focus \in Foci
  /\ IF focus = "ids" THEN TRUE ELSE counter = 0
  /\ IF focus = "buffer" THEN TRUE ELSE buf = Buffer!Built(<<>>)
  /\ Init

MCSpec == MCInit /\ [][Next]_vars
=============================================================================
