----------------------------- MODULE UnitTests -----------------------------
(***************************************************************************)
(* The repository's own tests run against the model: the tests modules of  *)
(* src/lib.rs and src/types.rs, and what the two integration tests ask of  *)
(* the contract.  A test is a sequence of steps: calls that have to        *)
(* succeed, calls that have to panic, and assertions about the events of   *)
(* the last call, the getters and the reads.  Each test starts in the      *)
(* initial state and goes through the actions of MultiFeed, so a model     *)
(* that is stricter or laxer than the code fails one of them.              *)
(*                                                                         *)
(* Feed ids are written as the strings that fetch is given.  Left out: the *)
(* wording of the panics and of the events, and the tests of               *)
(* parse_feed_id, whose eight digits do not fit TLC's integers.            *)
(***************************************************************************)
EXTENDS MultiFeed

VARIABLES
  test,  \* the test that is run: its module and its name
  pc     \* its next step

testVars == <<vars, test, pc>>

-----------------------------------------------------------------------------
(* The vocabulary of the tests                                             *)

alice == "alice.near"
bob   == "bob.near"
ownr  == "owner.near"
other == "outsider.near"

NOW == 1000000

Grant(account)            == [account |-> account, status |-> TRUE]
Revoke(account)           == [account |-> account, status |-> FALSE]
Report(id, price, agg_ts) == [feed_id |-> id, price |-> price, agg_ts |-> agg_ts]

\* What a reader gets for a feed f has stored at NOW, and for no feed.
Some(price, agg_ts) == {[price |-> price, agg_ts |-> agg_ts, onchain_ts |-> NOW]}
None                == {}

Does(caller, method, arg)  == [kind |-> "does", caller |-> caller, method |-> method, arg |-> arg]
Fails(caller, method, arg) == [kind |-> "fails", caller |-> caller, method |-> method, arg |-> arg]
Logs(events)               == [kind |-> "logs", events |-> events]
Is(getter, arg, value)     == [kind |-> "is", getter |-> getter, arg |-> arg, value |-> value]
Reads(caller, ids, result) == [kind |-> "reads", caller |-> caller, ids |-> ids, result |-> result]
CannotRead(caller, ids)    == [kind |-> "refused", caller |-> caller, ids |-> ids]

Args(open, admins, products_, reporters, callers) ==
  [owner |-> ownr, open_read_enabled |-> open, admins |-> admins, products |-> products_,
   price_reporters |-> reporters, authorized_callers |-> callers]

Created(args)          == Does(ownr, "new", args)
init_contract          == Created(Args(FALSE, <<>>, <<>>, <<>>, <<>>))
init_gated_with_roles  == Created(Args(FALSE, <<alice>>, <<>>, <<alice>>, <<alice>>))
with_product           == Created(Args(FALSE, <<>>, <<alice>>, <<>>, <<>>))
with_admin             == Created(Args(FALSE, <<alice>>, <<>>, <<>>, <<>>))
with_reporter          == Created(Args(TRUE, <<>>, <<>>, <<alice>>, <<>>))
gated_with_product     == Created(Args(FALSE, <<alice>>, <<alice>>, <<alice>>, <<alice>>))
init_open_with_roles   == Created(Args(TRUE, <<alice>>, <<>>, <<alice>>, <<>>))

seed == Does(alice, "f", <<Report("0x00000001", 100, NOW - 1), Report("0x00000002", 200, NOW - 1)>>)

-----------------------------------------------------------------------------
(* The modules of tests                                                    *)

NewTests ==
  [gated_mode_init |->
     <<Created(Args(FALSE, <<alice>>, <<bob>>, <<alice>>, <<alice, bob>>)),
       Logs(<<OwnershipTransferred(NoAccount, ownr),
              FlagStatusChanged("open_read_status_changed", FALSE),
              RoleStatusChanged("admin_status_changed", alice, TRUE),
              RoleStatusChanged("product_status_changed", bob, TRUE),
              RoleStatusChanged("price_reporter_status_changed", alice, TRUE),
              RoleStatusChanged("authorized_caller_status_changed", alice, TRUE),
              RoleStatusChanged("authorized_caller_status_changed", bob, TRUE)>>),
       Is("get_owner", <<>>, ownr), Is("is_paused", <<>>, FALSE), Is("is_open_read", <<>>, FALSE),
       Is("is_admin", alice, TRUE), Is("is_product", bob, TRUE), Is("is_price_reporter", alice, TRUE),
       Is("is_authorized_caller", alice, TRUE), Is("is_authorized_caller", bob, TRUE),
       Is("get_authorized_callers", <<>>, {alice, bob})>>,
   open_read_mode_init |->
     <<Created(Args(TRUE, <<>>, <<>>, <<>>, <<>>)),
       Logs(<<OwnershipTransferred(NoAccount, ownr),
              FlagStatusChanged("open_read_status_changed", TRUE)>>),
       Is("is_open_read", <<>>, TRUE), Is("is_paused", <<>>, FALSE), Is("get_owner", <<>>, ownr),
       Is("get_authorized_callers", <<>>, {})>>,
   open_read_with_callers      |-> <<Fails(ownr, "new", Args(TRUE, <<>>, <<>>, <<>>, <<alice>>))>>,
   duplicate_admin             |-> <<Fails(ownr, "new", Args(FALSE, <<alice, alice>>, <<>>, <<>>, <<>>))>>,
   duplicate_product           |-> <<Fails(ownr, "new", Args(FALSE, <<>>, <<bob, bob>>, <<>>, <<>>))>>,
   duplicate_price_reporter    |-> <<Fails(ownr, "new", Args(FALSE, <<>>, <<>>, <<alice, alice>>, <<>>))>>,
   duplicate_authorized_caller |-> <<Fails(ownr, "new", Args(FALSE, <<>>, <<>>, <<>>, <<bob, bob>>))>>]

TransferOwnershipTests ==
  [transfer |-> <<init_contract, Does(ownr, "transfer_ownership", alice),
                  Logs(<<OwnershipTransferred(ownr, alice)>>), Is("get_owner", <<>>, alice)>>,
   non_owner_cannot_transfer |-> <<init_contract, Fails(alice, "transfer_ownership", alice)>>,
   same_owner |-> <<init_contract, Fails(ownr, "transfer_ownership", ownr)>>,
   old_owner_loses_power_after_transfer |->
     <<init_contract, Does(ownr, "transfer_ownership", alice), Fails(ownr, "set_admins", <<Grant(bob)>>)>>,
   new_owner_gains_power_after_transfer |->
     <<init_contract, Does(ownr, "transfer_ownership", alice), Does(alice, "set_admins", <<Grant(bob)>>),
       Is("is_admin", bob, TRUE)>>]

\* The tests the three roles of the owner have in common, for the account
\* each of them adds and removes.
OwnerRoleTests(method, getter, event, account) ==
  LET Event(who, status) == RoleStatusChanged(event, who, status)
      added   == <<init_contract, Does(ownr, method, <<Grant(account)>>)>>
      bothIn  == <<init_contract, Does(ownr, method, <<Grant(alice), Grant(bob)>>)>>
  IN  [add    |-> added \o <<Logs(<<Event(account, TRUE)>>), Is(getter, account, TRUE)>>,
       remove |-> added \o <<Does(ownr, method, <<Revoke(account)>>), Logs(<<Event(account, FALSE)>>),
                             Is(getter, account, FALSE)>>,
       batch_add |-> bothIn \o <<Logs(<<Event(alice, TRUE), Event(bob, TRUE)>>),
                                 Is(getter, alice, TRUE), Is(getter, bob, TRUE)>>,
       batch_remove |-> bothIn \o <<Does(ownr, method, <<Revoke(alice), Revoke(bob)>>),
                                    Logs(<<Event(alice, FALSE), Event(bob, FALSE)>>),
                                    Is(getter, alice, FALSE), Is(getter, bob, FALSE)>>,
       non_owner     |-> <<init_contract, Fails(alice, method, <<Grant(bob)>>)>>,
       empty_updates |-> <<init_contract, Fails(ownr, method, <<>>)>>,
       duplicate_add |-> added \o <<Fails(ownr, method, <<Grant(account)>>)>>,
       remove_not_in_role |-> <<init_contract, Fails(ownr, method, <<Revoke(alice)>>)>>]

SetAdminsTests   == OwnerRoleTests("set_admins", "is_admin", "admin_status_changed", alice)
SetProductsTests == OwnerRoleTests("set_products", "is_product", "product_status_changed", bob)
SetPriceReportersTests ==
  OwnerRoleTests("set_price_reporters", "is_price_reporter", "price_reporter_status_changed", alice)

SetAuthorizedCallersTests ==
  LET Event(who, status) == RoleStatusChanged("authorized_caller_status_changed", who, status)
      Sets(updates) == Does(alice, "set_authorized_callers", updates)
      Callers(set)  == Is("get_authorized_callers", <<>>, set)
  IN  [add    |-> <<with_product, Sets(<<Grant(bob)>>), Logs(<<Event(bob, TRUE)>>),
                    Is("is_authorized_caller", bob, TRUE), Callers({bob})>>,
       remove |-> <<with_product, Sets(<<Grant(bob)>>), Sets(<<Revoke(bob)>>),
                    Logs(<<Event(bob, FALSE)>>), Is("is_authorized_caller", bob, FALSE), Callers({})>>,
       non_product   |-> <<with_product, Fails(ownr, "set_authorized_callers", <<Grant(bob)>>)>>,
       empty_updates |-> <<with_product, Fails(alice, "set_authorized_callers", <<>>)>>,
       duplicate_add_skipped |->
         <<with_product, Sets(<<Grant(bob)>>), Sets(<<Grant(bob)>>), Logs(<<>>), Callers({bob})>>,
       remove_not_in_role_skipped |-> <<with_product, Sets(<<Revoke(bob)>>), Logs(<<>>), Callers({})>>,
       batch_add |-> <<with_product, Sets(<<Grant(alice), Grant(bob)>>),
                       Logs(<<Event(alice, TRUE), Event(bob, TRUE)>>), Callers({alice, bob})>>,
       batch_remove |-> <<with_product, Sets(<<Grant(alice), Grant(bob)>>),
                          Sets(<<Revoke(alice), Revoke(bob)>>),
                          Logs(<<Event(alice, FALSE), Event(bob, FALSE)>>), Callers({})>>,
       removed_product_cannot_set_authorized_callers |->
         <<with_product, Does(ownr, "set_products", <<Revoke(alice)>>),
           Fails(alice, "set_authorized_callers", <<Grant(bob)>>)>>]

SetPausedTests ==
  LET Sets(paused)  == Does(alice, "set_paused", paused)
      Event(status) == FlagStatusChanged("paused_status_changed", status)
  IN  [pause   |-> <<with_admin, Sets(TRUE), Logs(<<Event(TRUE)>>), Is("is_paused", <<>>, TRUE)>>,
       unpause |-> <<with_admin, Sets(TRUE), Sets(FALSE), Logs(<<Event(FALSE)>>),
                     Is("is_paused", <<>>, FALSE)>>,
       non_admin_cannot_pause |-> <<with_admin, Fails(bob, "set_paused", TRUE)>>,
       already_paused   |-> <<with_admin, Sets(TRUE), Fails(alice, "set_paused", TRUE)>>,
       already_unpaused |-> <<with_admin, Fails(alice, "set_paused", FALSE)>>]

SetOpenReadStatusTests ==
  LET Sets(status)  == Does(ownr, "set_open_read_status", status)
      Event(status) == FlagStatusChanged("open_read_status_changed", status)
  IN  [enable  |-> <<init_contract, Sets(TRUE), Logs(<<Event(TRUE)>>), Is("is_open_read", <<>>, TRUE)>>,
       disable |-> <<init_contract, Sets(TRUE), Sets(FALSE), Logs(<<Event(FALSE)>>),
                     Is("is_open_read", <<>>, FALSE)>>,
       non_owner_cannot_set |-> <<init_contract, Fails(alice, "set_open_read_status", TRUE)>>,
       already_enabled  |-> <<init_contract, Sets(TRUE), Fails(ownr, "set_open_read_status", TRUE)>>,
       already_disabled |-> <<init_contract, Fails(ownr, "set_open_read_status", FALSE)>>]

FTests ==
  LET Feeds(updates)    == Does(alice, "f", updates)
      Refuses(updates)  == Fails(alice, "f", updates)
      Fetches(id, feed) == Reads(alice, <<id>>, <<feed>>)
      one == "0x00000001"  five == "0x00000005"  seven == "0x00000007"
      latest    == NOW + MAX_FUTURE_DRIFT_THRESHOLD - 1
      max_price == PRICE_MODULUS - 1
  IN  [single_feed |->
         <<with_reporter, Feeds(<<Report("0x0000002a", 1234, NOW - 1)>>),
           Logs(<<FEvent(<<Report("0x0000002a", 1234, NOW - 1)>>)>>),
           Fetches("0x0000002a", Some(1234, NOW - 1))>>,
       batch_feeds |->
         <<with_reporter, Feeds(<<Report(one, 100, NOW - 10), Report("0x00000002", 200, NOW - 5),
                                  Report("0x00000003", 300, NOW - 1)>>),
           Logs(<<[event |-> "f", i |-> <<one, "0x00000002", "0x00000003">>,
                   p |-> <<100, 200, 300>>, t |-> <<NOW - 10, NOW - 5, NOW - 1>>]>>),
           Reads(alice, <<one, "0x00000002", "0x00000003">>,
                 <<Some(100, NOW - 10), Some(200, NOW - 5), Some(300, NOW - 1)>>)>>,
       update_existing_feed_with_newer_ts |->
         <<with_reporter, Feeds(<<Report(seven, 111, NOW - 100)>>), Feeds(<<Report(seven, 222, NOW - 50)>>),
           Fetches(seven, Some(222, NOW - 50))>>,
       agg_ts_equal_to_future_bound_boundary |->
         <<with_reporter, Feeds(<<Report(one, 1, latest)>>), Fetches(one, Some(1, latest))>>,
       non_reporter_cannot_call |-> <<with_reporter, Fails(bob, "f", <<Report(one, 1, NOW - 1)>>)>>,
       empty_updates |-> <<with_reporter, Refuses(<<>>)>>,
       agg_ts_too_far_in_future |-> <<with_reporter, Refuses(<<Report(one, 1, latest + 1)>>)>>,
       agg_ts_not_newer_than_zero |-> <<with_reporter, Refuses(<<Report(one, 1, 0)>>)>>,
       agg_ts_not_newer_than_stored |->
         <<with_reporter, Feeds(<<Report(one, 1, NOW - 10)>>), Refuses(<<Report(one, 2, NOW - 10)>>)>>,
       agg_ts_older_than_stored |->
         <<with_reporter, Feeds(<<Report(one, 1, NOW - 10)>>), Refuses(<<Report(one, 2, NOW - 20)>>)>>,
       max_price_and_feed_id |->
         <<with_reporter, Feeds(<<Report("0xffffffff", max_price, NOW - 1)>>),
           Fetches("0xffffffff", Some(max_price, NOW - 1))>>,
       onchain_ts_is_block_time_not_agg_ts |->
         <<with_reporter, Feeds(<<Report(one, 1, latest)>>),
           Fetches(one, {[price |-> 1, agg_ts |-> latest, onchain_ts |-> NOW]})>>,
       duplicate_feed_id_in_batch_monotonic_ok |->
         <<with_reporter, Feeds(<<Report(five, 100, NOW - 10), Report(five, 200, NOW - 9)>>),
           Fetches(five, Some(200, NOW - 9))>>,
       duplicate_feed_id_in_batch_must_be_monotonic |->
         <<with_reporter, Refuses(<<Report(five, 100, NOW - 5), Report(five, 200, NOW - 5)>>)>>,
       removed_reporter_cannot_feed |->
         <<with_reporter, Does(ownr, "set_price_reporters", <<Revoke(alice)>>),
           Refuses(<<Report(one, 1, NOW - 1)>>)>>]

\* What seed has stored.
Seeded1 == Some(100, NOW - 1)
Seeded2 == Some(200, NOW - 1)

FetchTests ==
  LET one == "0x00000001"  two == "0x00000002"  nine == "0x00000009"
      Allows(updates) == Does(alice, "set_authorized_callers", updates)
      Pauses == Does(alice, "set_paused", TRUE)
  IN  [authorized_caller_can_read_both |->
         <<init_gated_with_roles, seed, Reads(alice, <<one>>, <<Seeded1>>), Reads(alice, <<two>>, <<Seeded2>>),
           Reads(alice, <<one, two>>, <<Seeded1, Seeded2>>)>>,
       newly_authorized_caller_can_read_both |->
         <<gated_with_product, seed, Allows(<<Grant(bob)>>), Reads(bob, <<one>>, <<Seeded1>>),
           Reads(bob, <<two, one>>, <<Seeded2, Seeded1>>)>>,
       non_authorized_caller_cannot_fetch |-> <<init_gated_with_roles, seed, CannotRead(bob, <<one>>)>>,
       access_checked_before_lookup_on_missing_feed |->
         <<init_gated_with_roles, CannotRead(bob, <<nine>>)>>,
       revoked_caller_cannot_fetch |->
         <<gated_with_product, seed, Allows(<<Grant(bob)>>), Allows(<<Revoke(bob)>>), CannotRead(bob, <<one>>)>>,
       paused_blocks_authorized_caller_fetch |->
         <<init_gated_with_roles, seed, Pauses, CannotRead(alice, <<one>>)>>,
       fetch_missing_feed_returns_none |-> <<init_gated_with_roles, seed, Reads(alice, <<nine>>, <<None>>)>>,
       fetch_rejects_malformed_id |-> <<init_gated_with_roles, seed, CannotRead(alice, <<"bad">>)>>]

FetchBatchTests ==
  [preserves_order_and_missing |->
     <<init_gated_with_roles, seed,
       Reads(alice, <<"0x00000003", "0x00000001", "0x00000002", "0x00000009">>,
             <<None, Seeded1, Seeded2, None>>)>>,
   empty_input |-> <<init_gated_with_roles, seed, Reads(alice, <<>>, <<>>)>>,
   rejects_malformed_id |-> <<init_gated_with_roles, seed, CannotRead(alice, <<"0x00000001", "bad">>)>>]

OpenReadTests ==
  LET one == "0x00000001"  nine == "0x00000009"
      Opens(status) == Does(ownr, "set_open_read_status", status)
  IN  [any_caller_can_read_both |->
         <<init_open_with_roles, seed, Reads(bob, <<one>>, <<Seeded1>>),
           Reads(bob, <<one, "0x00000002">>, <<Seeded1, Seeded2>>)>>,
       any_caller_missing_feed_returns_none |-> <<init_open_with_roles, seed, Reads(bob, <<nine>>, <<None>>)>>,
       paused_blocks_even_in_open_read |->
         <<init_open_with_roles, seed, Does(alice, "set_paused", TRUE), CannotRead(bob, <<one>>)>>,
       enabling_open_read_grants_access |->
         <<init_gated_with_roles, seed, Opens(TRUE), Reads(bob, <<one>>, <<Seeded1>>)>>,
       disabling_open_read_revokes_access |->
         <<init_open_with_roles, seed, Opens(FALSE), CannotRead(bob, <<one>>)>>]

\* The contract's integration test, and the one of the consumer as far as the
\* oracle goes; other is the outsider of the first, the consumer of the second.
IntegrationTests ==
  LET one == "0x00000001"  two == "0x00000002"  three == "0x00000003"  nine == "0x00000009"
      deploy(products_) == Created(Args(TRUE, <<bob>>, products_, <<alice>>, <<>>))
      Pauses(paused)    == Does(bob, "set_paused", paused)
      readBack          == Reads(other, <<one, two, nine>>, <<Seeded1, Seeded2, None>>)
  IN  [basics_on |->
         <<deploy(<<>>), seed, Reads(other, <<one>>, <<Seeded1>>), readBack,
           Fails(other, "f", <<Report(three, 300, NOW)>>),
           Pauses(TRUE), CannotRead(other, <<one>>), Fails(other, "set_paused", FALSE), Pauses(FALSE),
           Does(ownr, "set_price_reporters", <<Grant(other)>>),
           Does(other, "f", <<Report(three, 300, NOW)>>), Reads(other, <<three>>, <<Some(300, NOW)>>),
           Fails(other, "f", <<Report(three, 999, NOW)>>)>>,
       consumer |->
         <<deploy(<<ownr>>), seed, Reads(other, <<one>>, <<Seeded1>>), readBack,
           Does(ownr, "set_open_read_status", FALSE), CannotRead(other, <<one>>),
           Does(ownr, "set_authorized_callers", <<Grant(other)>>), Reads(other, <<one>>, <<Seeded1>>),
           Pauses(TRUE), CannotRead(other, <<one>>),
           Does(ownr, "set_open_read_status", TRUE), CannotRead(other, <<one>>),
           Pauses(FALSE), Reads(other, <<one>>, <<Seeded1>>)>>]

Modules ==
  [new |-> NewTests, transfer_ownership |-> TransferOwnershipTests, set_admins |-> SetAdminsTests,
   set_products |-> SetProductsTests, set_price_reporters |-> SetPriceReportersTests,
   set_authorized_callers |-> SetAuthorizedCallersTests, set_paused |-> SetPausedTests,
   set_open_read_status |-> SetOpenReadStatusTests, f |-> FTests, fetch |-> FetchTests,
   fetch_batch |-> FetchBatchTests, open_read |-> OpenReadTests, integration |-> IntegrationTests]

Tests == UNION {{m} \X DOMAIN Modules[m] : m \in DOMAIN Modules}
Steps == Modules[test[1]][test[2]]

-----------------------------------------------------------------------------
(* Running a test                                                          *)

Running == pc <= Len(Steps)

\* set_privileged_caller attaches one yoctoNEAR, set_context none.
Perform(call) ==
  LET method == call.method  caller == call.caller  arg == call.arg
  IN  \/ method = "new"                    /\ New(arg, 0)
      \/ method = "f"                      /\ F(caller, 0, arg)
      \/ method = "transfer_ownership"     /\ TransferOwnership(caller, 1, arg)
      \/ method = "set_admins"             /\ SetAdmins(caller, 1, arg)
      \/ method = "set_products"           /\ SetProducts(caller, 1, arg)
      \/ method = "set_price_reporters"    /\ SetPriceReporters(caller, 1, arg)
      \/ method = "set_authorized_callers" /\ SetAuthorizedCallers(caller, 1, arg)
      \/ method = "set_paused"             /\ SetPaused(caller, 1, arg)
      \/ method = "set_open_read_status"   /\ SetOpenReadStatus(caller, 1, arg)

\* The getters of the contract.
Getter(name, arg) ==
  CASE name = "get_owner"              -> owner
    [] name = "is_admin"               -> arg \in admin
    [] name = "is_product"             -> arg \in products
    [] name = "is_price_reporter"      -> arg \in price_reporters
    [] name = "is_authorized_caller"   -> arg \in authorized_callers
    [] name = "is_paused"              -> IsPaused(flags)
    [] name = "is_open_read"           -> IsOpenRead(flags)
    [] name = "get_authorized_callers" -> authorized_callers

CanFetch(caller, ids) == CanRead(caller) /\ "bad" \notin ToSet(ids)

Agrees(step) ==
  CASE step.kind = "does"    -> ENABLED Perform(step)
    [] step.kind = "fails"   -> ~ENABLED Perform(step)
    [] step.kind = "logs"    -> emitted = step.events
    [] step.kind = "is"      -> Getter(step.getter, step.arg) = step.value
    [] step.kind = "reads"   -> CanFetch(step.caller, step.ids) /\ FetchBatch(step.ids) = step.result
    [] step.kind = "refused" -> ~CanFetch(step.caller, step.ids)

\* set_context puts the call of f at NOW.
InContext == Steps[pc].kind \in {"does", "fails"} /\ Steps[pc].method = "f" => now = NOW

SetContext ==
  /\ Running /\ ~InContext
  /\ Tick
  /\ now' = NOW
  /\ UNCHANGED <<test, pc>>

Call ==
  /\ Running /\ InContext
  /\ Steps[pc].kind = "does"
  /\ Perform(Steps[pc])
  /\ pc' = pc + 1
  /\ UNCHANGED test

Check ==
  /\ Running /\ InContext
  /\ Steps[pc].kind # "does"
  /\ Agrees(Steps[pc])
  /\ pc' = pc + 1
  /\ UNCHANGED <<vars, test>>

TestInit == Init /\ test \in Tests /\ pc = 1

TestNext == SetContext \/ Call \/ Check

TestSpec == TestInit /\ [][TestNext]_testVars

-----------------------------------------------------------------------------
(* Tests of functions                                                      *)

\* Flags::new, the three tests and the two flips, for every pair of bits:
\* paused, openRead, the byte, is_open_read_when_unpaused, the flipped bytes.
FlagsTable ==
  {<<FALSE, FALSE, 0, FALSE, 2, 1>>, <<FALSE, TRUE, 1, TRUE, 3, 0>>,
   <<TRUE, FALSE, 2, FALSE, 0, 3>>, <<TRUE, TRUE, 3, FALSE, 1, 2>>}

FlagsAgree ==
  \A row \in FlagsTable :
    LET f == NewFlags(row[1], row[2])
    IN  /\ f = row[3]
        /\ IsPaused(f) = row[1] /\ IsOpenRead(f) = row[2] /\ IsOpenReadWhenUnpaused(f) = row[4]
        /\ FlipPaused(f) = row[5] /\ FlipOpenRead(f) = row[6]

\* update_role_member and init_lookup_set_role on a new set: the updates, and
\* the members they leave, or {} for a panic.
RoleMemberTable ==
  {<<<<Grant(alice)>>, {alice}>>, <<<<Grant(alice), Grant(alice)>>, {}>>,
   <<<<Revoke(alice)>>, {}>>, <<<<Grant(alice), Revoke(alice), Grant(bob)>>, {bob}>>,
   <<<<Grant(alice), Grant(bob)>>, {alice, bob}>>}

RoleMembersAgree ==
  \A row \in RoleMemberTable :
    IF row[2] = {} THEN ~EveryUpdateChanges({}, row[1])
    ELSE EveryUpdateChanges({}, row[1]) /\ MembersAfter({}, row[1]) = row[2]

-----------------------------------------------------------------------------
(* The property                                                            *)

\* Every test passes on the model: calls succeed and panic, events, getters and
\* reads come out as the tests modules of lib.rs (from line 478) and types.rs
\* (from line 131) and the integration tests say, along sequences of calls that
\* cross methods, such as a role removed before it is used.
TestsPass ==
  /\ Running /\ InContext => Agrees(Steps[pc])
  /\ FlagsAgree
  /\ RoleMembersAgree
=============================================================================
