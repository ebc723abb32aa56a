------------------------------ MODULE MCDeploy ------------------------------
(***************************************************************************)
(* Two runs against one account, two keys, two builds, two configurations  *)
(* that new accepts and one whose reads are open and gated at once.        *)
(***************************************************************************)
EXTENDS Deploy

CONSTANTS w1, w2,  \* the builds
          k1, k2,  \* the keys
          a1       \* the account that holds every role

Args(open) ==
  [owner |-> a1, open_read_enabled |-> open, admins |-> <<a1>>, products |-> <<>>,
   price_reporters |-> <<a1>>, authorized_callers |-> <<a1>>]

MCInitArgs == {Args(open) : open \in BOOLEAN}

MCConfigs ==
  {[args |-> Args(FALSE), description |-> text] : text \in {"first", "second"}}
    \cup {[args |-> Args(TRUE), description |-> "refused"]}

MCCommandLines ==
  {<<"deploy", "--client", "c">>, <<"deploy", "--client">>, <<"--client", "--client", "c">>}
=============================================================================
