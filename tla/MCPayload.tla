------------------------------- MODULE MCPayload -------------------------------
(***************************************************************************)
(* Payload with values of every kind and two fingerprints for all lists,   *)
(* so that most chains hold lists of different words and lengths; one      *)
(* reference has the same words as a list of two strings.                  *)
(***************************************************************************)
EXTENDS Payload

MCText == {"", "a", "b", "c", "d"}

Of(kind, records) == [kind |-> kind, list |-> records]
Opt(text) == [kind |-> "optional", text |-> text]

MCValue ==
  {Of("strings", << >>), Of("strings", Nil),
   Of("strings", <<<<"a">>>>), Of("strings", <<<<"b">>>>), Of("strings", <<<<"">>>>),
   Of("strings", <<<<"c">>, <<"d">>>>), Of("strings", <<<<"a">>, <<"b">>>>), Of("strings", <<<<"b">>, <<"a">>>>),
   Of("policy", << >>), Of("policy", Nil), Of("policy", <<<<"b">>>>),
   Of("references", <<<<"a", "b">>>>),
   Of("references", <<<<"b", "">>, <<"a", "a">>>>),
   Of("severities", Nil), Of("severities", <<<<"a", "b", "a">>>>),
   Opt("missing"), Opt(""), Opt("b"),
   [kind |-> "flag", flag |-> "missing"], [kind |-> "flag", flag |-> "false"],
   [kind |-> "flag", flag |-> "true"],
   [kind |-> "text", text |-> "a"], [kind |-> "status", status |-> "compliant"],
   [kind |-> "status", status |-> "not_evaluated"]}

MCFingerprint(ids) == (ids[1] + Len(ids)) % 2
=============================================================================
