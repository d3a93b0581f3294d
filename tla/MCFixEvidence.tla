---------------------------- MODULE MCFixEvidence ----------------------------
(***************************************************************************)
(* FixEvidence with packages of Debian and Ubuntu, with and without a name *)
(* in the system, and with entries of either, of another channel, of       *)
(* another release and without a name.                                     *)
(***************************************************************************)
EXTENDS FixEvidence

Ecosystem(system, release, channels) ==
  [system |-> system, release |-> release, channels |-> channels]
Named(e, name, osName) == [ecosystem |-> e, name |-> name, osName |-> osName]
About(e, name, rated, urgent) ==
  [ecosystem |-> e, name |-> name, severities |-> rated, urgencies |-> urgent]

Debian == Ecosystem("Debian", 12, {})
Ubuntu == Ecosystem("Ubuntu", 22, {"LTS"})

MCPackage == {Named(Debian, "lib", Unnamed), Named(Ubuntu, "lib", "src")}

MCEntry ==
  {About(Debian, "lib", {1}, {"low"}), About(Debian, Unnamed, {2}, {}),
   About(Ecosystem("Debian", 12, {"LTS"}), "lib", {2}, {"high"}),
   About(Ecosystem("Ubuntu", 22, {"Pro", "LTS"}), "src", {1, 2}, {}),
   About(Ecosystem("Ubuntu", 24, {"LTS"}), "lib", {3}, {"low"})}
=============================================================================
