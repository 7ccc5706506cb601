----------------------------- MODULE MCPresence -----------------------------
(***************************************************************************)
(* Presence on the configurations that differ: a right password, a wrong   *)
(* one, right ones of two realms; a friend that we watch or not.           *)
(***************************************************************************)
EXTENDS Presence

Configuration(known, right, protects, subscribe, pol) ==
  [passwords |-> [known |-> known, right |-> right, protects |-> protects],
   subscribe |-> subscribe, pol |-> pol]

MCConfigurations ==
  { Configuration({"www"}, {"www"}, {"www"}, TRUE, "wait"),
    Configuration({"proxy"}, {}, {"proxy"}, TRUE, "accept"),
    Configuration({"proxy", "www"}, {"proxy", "www"}, {"proxy", "www"}, FALSE, "deny") }
=============================================================================
