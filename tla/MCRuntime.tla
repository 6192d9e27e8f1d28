----------------------------- MODULE MCRuntime ------------------------------
EXTENDS Runtime

\* The proposals: what their preimages decode to.
MCCall ==
  [pay |-> [kind |-> "force_transfer", source |-> 2, dest |-> 4, value |-> 9],
   unqueue |-> [kind |-> "cancel_queued", index |-> 1],
   cancel |-> [kind |-> "cancel_referendum", index |-> 1],
   clear |-> [kind |-> "clear_public_proposals"],
   junk |-> [kind |-> "invalid"]]

MCFree == [x \in Account |-> CASE x = TreasuryAccount -> 6 [] x \in {1, 2, 3} -> 12
                           [] x = 8 -> 10 [] OTHER -> 0]

\* The calls that multisigs make, and the accounts that are derived.
MCTransfers == [h1 |-> [dest |-> 3, value |-> 4]]
MCMultiAccount == [id \in {<<{1, 2, 3}, 3>>, <<{1, 2}, 2>>, <<{1, 2}, 1>>} |-> 4]
MCSubAccount == [k \in {<<1, 0>>} |-> 7]

Staker(stash, controller, value, targets) ==
  [stash |-> stash, controller |-> controller, value |-> value, targets |-> targets]
Keys(who, keys) == [who |-> who, keys |-> keys]

\* Unless a setup says otherwise, account 8 validates alone and no session ends.
Base ==
  [free |-> MCFree, elected |-> {}, council |-> {}, committee |-> {}, referenda |-> <<>>,
   society |-> {}, founder |-> {}, max_members |-> 0, sudo |-> 3,
   approve_members |-> 2, calls |-> {}, max_calls |-> 5, blocks |-> 5, busy |-> 1 .. 99,
   stakers |-> <<Staker(8, 8, 8, <<>>)>>, keys |-> <<Keys(8, <<81, 82>>)>>,
   count |-> 2, minimum |-> 1, depth |-> 4, epoch |-> 100, lags |-> <<>>, gaps |-> <<>>, authors |-> <<>>,
   worker |-> FALSE, stalls |-> FALSE]

Aye(c) == [aye |-> TRUE, conviction |-> c]
Nay(c) == [aye |-> FALSE, conviction |-> c]
Ref(end, hash, delay) == [end |-> end, hash |-> hash, threshold |-> "SimpleMajority", delay |-> delay]

\* Calls with one, two and three arguments after the name.
Who(c, w) == [call |-> c, who |-> w]
HashCall(c, w, h) == [call |-> c, who |-> w, hash |-> h]
Sudo(c) == [call |-> "sudo", who |-> 3, inner |-> c]

\* Public proposals are made, seconded, cleared and tabled.
Proposals ==
  [Base EXCEPT !.max_calls = 4, !.blocks = 4,
     !.calls = {[call |-> "propose", who |-> 1, hash |-> "pay", value |-> 2],
                [call |-> "propose", who |-> 2, hash |-> "clear", value |-> 4],
                [call |-> "second", who |-> 1, prop |-> 0],
                [call |-> "second", who |-> 2, prop |-> 1],
                Sudo([call |-> "clear_public_proposals"]),
                [call |-> "transfer", who |-> 2, dest |-> 4, value |-> 8],
                HashCall("note_preimage", 1, "pay"), HashCall("reap_preimage", 2, "pay")}]

\* One referendum, with votes and delegations.
Voting ==
  [Base EXCEPT !.max_calls = 5, !.blocks = 8, !.referenda = <<Ref(3, "pay", 2)>>,
     !.calls = {[call |-> "vote", who |-> 1, index |-> 0, vote |-> Aye(1)],
                [call |-> "vote", who |-> 2, index |-> 0, vote |-> Nay(0)],
                [call |-> "vote", who |-> 3, index |-> 0, vote |-> Aye(1)],
                [call |-> "vote", who |-> 2, index |-> 0, vote |-> Aye(2)],
                [call |-> "delegate", who |-> 3, to |-> 1, conviction |-> 1],
                Who("undelegate", 3),
                [call |-> "unlock", target |-> 1], [call |-> "unlock", target |-> 3],
                HashCall("note_preimage", 2, "pay"),
                [call |-> "transfer", who |-> 1, dest |-> 4, value |-> 12]}]

\* A proxy votes, and is locked with its principal out of an account that it
\* would like to empty.
Proxies ==
  [Base EXCEPT !.max_calls = 6, !.blocks = 4, !.referenda = <<Ref(3, "junk", 0)>>,
     !.calls = {[call |-> "open_proxy", who |-> 3, target |-> 1],
                [call |-> "open_proxy", who |-> 3, target |-> 2],
                [call |-> "activate_proxy", who |-> 1, proxy |-> 3],
                [call |-> "deactivate_proxy", who |-> 1, proxy |-> 3],
                [call |-> "proxy_vote", who |-> 3, index |-> 0, vote |-> Aye(1)],
                Who("close_proxy", 3), HashCall("note_preimage", 2, "junk"),
                [call |-> "transfer", who |-> 3, dest |-> 4, value |-> 12]}]

\* Referenda that end and are enacted together and act on each other.
Enactment ==
  [Base EXCEPT !.max_calls = 5, !.blocks = 6, !.busy = {1, 2, 6},
     !.referenda = <<Ref(2, "unqueue", 1), Ref(2, "pay", 3), Ref(3, "cancel", 0), Ref(3, "clear", 1)>>,
     !.calls = {[call |-> "vote", who |-> 1, index |-> i, vote |-> Aye(1)] : i \in 0 .. 3}
       \cup {HashCall("note_preimage", 2, h) : h \in {"unqueue", "cancel"}}
       \cup {HashCall("note_imminent_preimage", 3, "pay"), HashCall("reap_preimage", 3, "cancel"),
             Sudo([call |-> "cancel_queued", index |-> 1]), Sudo([call |-> "cancel_referendum", index |-> 0]),
             [call |-> "propose", who |-> 3, hash |-> "junk", value |-> 2]}]

Approve == [call |-> "approve_proposal", id |-> 0]
Reject == [call |-> "reject_proposal", id |-> 0]
By(who, motion, n) == [call |-> "council_propose", who |-> who, motion |-> motion, threshold |-> n]
On(who, motion, yes) == [call |-> "council_vote", who |-> who, motion |-> motion, approve |-> yes]
Closing(motion) == [call |-> "council_close", motion |-> motion]

\* The council decides on spending, while its members change.
Spending ==
  [Base EXCEPT !.max_calls = 5, !.blocks = 5, !.elected = {1, 2},
     !.calls = {[call |-> "propose_spend", who |-> 3, value |-> 3, beneficiary |-> 4],
                [call |-> "propose_spend", who |-> 3, value |-> 1, beneficiary |-> 4],
                By(1, Approve, 2), By(2, Reject, 2), On(2, Approve, TRUE), On(2, Approve, FALSE),
                On(1, Reject, TRUE), Closing(Approve), Closing(Reject), By(1, Approve, 1),
                Who("renounce_candidacy", 1)}]

\* Tips, by members that come and go.
Tips ==
  [Base EXCEPT !.max_calls = 5, !.blocks = 4, !.elected = {1, 2},
     !.calls = {[call |-> "report_awesome", who |-> 3, reason |-> "r", target |-> 4],
                [call |-> "report_awesome", who |-> 3, reason |-> "s", target |-> 3],
                [call |-> "retract_tip", who |-> 3, key |-> <<"r", 4>>],
                [call |-> "tip_new", who |-> 1, reason |-> "r", target |-> 4, value |-> 4],
                Who("renounce_candidacy", 2)}
       \cup {[call |-> "tip", who |-> m, key |-> <<"r", 4>>, value |-> 5 * m] : m \in {1, 2}}
       \cup {[call |-> "tip", who |-> 1, key |-> <<"s", 3>>, value |-> 3]}
       \cup {[call |-> "close_tip", key |-> k] : k \in {<<"r", 4>>, <<"s", 3>>}}]

Votes(who, for, value) == [call |-> "elect_vote", who |-> who, votes |-> for, value |-> value]

\* Elections, terms and replacements.
Elections ==
  [Base EXCEPT !.max_calls = 6, !.blocks = 6, !.elected = {1},
     !.calls = {Who("submit_candidacy", x) : x \in {2, 3}}
       \cup {Who("renounce_candidacy", x) : x \in {1, 3}}
       \cup {Votes(1, <<1, 2>>, 5), Votes(2, <<2, 3>>, 8), Votes(3, <<3>>, 9),
             Who("remove_voter", 2), Sudo([call |-> "elect_remove_member", target |-> 1]),
             Sudo([call |-> "elect_remove_member", target |-> 2]),
             [call |-> "report_defunct_voter", who |-> 3, target |-> 2],
             [call |-> "report_defunct_voter", who |-> 3, target |-> 1]}]

External(kind) == [call |-> kind, hash |-> "pay"]
FastTrack == [call |-> "fast_track", voting_period |-> 0, delay |-> 1]

\* External proposals of the council, the committee and its veto.
Externals ==
  [Base EXCEPT !.max_calls = 5, !.blocks = 5, !.elected = {1, 2}, !.committee = {3},
     !.calls = {By(1, External("external_propose"), 1), By(2, External("external_propose_majority"), 2),
                By(2, External("external_propose_default"), 2),
                On(1, External("external_propose_majority"), TRUE),
                On(1, External("external_propose_default"), TRUE),
                [call |-> "committee_propose", who |-> 3, motion |-> FastTrack, threshold |-> 1],
                Who("veto_external", 3), By(1, [call |-> "emergency_cancel", index |-> 0], 2),
                On(2, [call |-> "emergency_cancel", index |-> 0], TRUE)}]

Member(kind, m) == [call |-> kind, member |-> m]
Swap == [call |-> "swap_member", member |-> 2, new |-> 4]
Reset == [call |-> "reset_members", members |-> {2, 3}]
InCommittee(kind, who) == [call |-> kind, who |-> who, motion |-> FastTrack, threshold |-> 2, approve |-> TRUE]

\* The membership of the committee changes under its motions.
Committees ==
  [Base EXCEPT !.max_calls = 5, !.blocks = 4, !.elected = {1}, !.committee = {2, 3},
     !.calls = {By(1, m, 1) : m \in {Member("add_member", 1), Member("remove_member", 2),
                                     Member("set_prime", 2), Member("set_prime", 3), Swap, Reset,
                                     [call |-> "clear_prime"]}}
       \cup {[call |-> "change_key", who |-> 2, new |-> 4], InCommittee("committee_propose", 2),
             InCommittee("committee_vote", 3), InCommittee("committee_close", 1),
             [InCommittee("committee_vote", 3) EXCEPT !.approve = FALSE]}]

\* The genesis of the node, where both collectives have members that nobody
\* elected; the elections and the membership replace them, under their motions.
GenesisBodies ==
  [Base EXCEPT !.max_calls = 5, !.blocks = 4, !.council = {1, 2},
     !.calls = {By(1, Approve, 2), On(2, Approve, FALSE), Closing(Approve),
                Who("submit_candidacy", 3), Votes(3, <<3>>, 5),
                By(2, Member("add_member", 3), 2), On(1, Member("add_member", 3), TRUE),
                InCommittee("committee_propose", 2), InCommittee("committee_close", 1)}]

\* Root replaces the members of the collectives.
Replacing ==
  [Base EXCEPT !.max_calls = 5, !.blocks = 4, !.elected = {1, 2}, !.committee = {2, 3},
     !.calls = {Sudo([call |-> "council_set_members", members |-> {2, 3}, prime |-> {1}]),
                Sudo([call |-> "committee_set_members", members |-> {1, 2}, prime |-> {2}]),
                By(2, Approve, 3), On(3, Approve, TRUE), On(1, Approve, FALSE), Closing(Approve),
                Who("renounce_candidacy", 2), By(1, Member("remove_member", 2), 1),
                InCommittee("committee_propose", 1), InCommittee("committee_vote", 3)}]

Payments ==
  [Base EXCEPT !.max_calls = 4, !.blocks = 2,
     !.calls = {[call |-> c, who |-> 1, dest |-> 4, value |-> v] :
                  c \in {"transfer", "transfer_keep_alive"}, v \in {1, 11, 12}}
       \cup {Sudo([call |-> "set_balance", target |-> 1, free |-> f, reserved |-> 0]) : f \in {1, 5}}
       \cup {Who("submit_candidacy", 2), Votes(2, <<2>>, 9),
             [call |-> "transfer", who |-> 2, dest |-> 3, value |-> 3]}]

Index(c, w, i) == [call |-> c, who |-> w, index |-> i]
Schedule(l, p, n) == [locked |-> l, per_block |-> p, starting_block |-> n]

\* Indices change hands and funds vest in accounts that are also locked by votes.
Holdings ==
  [Base EXCEPT !.max_calls = 5, !.blocks = 4,
     !.calls = {Index("claim_index", 1, 0), Index("claim_index", 1, 1), Index("free_index", 2, 0),
                [call |-> "transfer_index", who |-> 1, index |-> 0, new |-> 2],
                Sudo([call |-> "force_transfer_index", index |-> 0, new |-> 4]),
                [call |-> "vested_transfer", who |-> 2, target |-> 4, schedule |-> Schedule(6, 2, 1)],
                [call |-> "vested_transfer", who |-> 2, target |-> 1, schedule |-> Schedule(3, 3, 2)],
                [call |-> "vest", target |-> 4], [call |-> "vest", target |-> 1],
                [call |-> "transfer", who |-> 4, dest |-> 3, value |-> 6],
                [call |-> "transfer", who |-> 1, dest |-> 3, value |-> 12],
                Votes(1, <<2>>, 5), Who("submit_candidacy", 2)}]

\* Account 1 is recovered by 2, with the help of 3; and root interferes.
Rescue ==
  [Base EXCEPT !.max_calls = 7, !.blocks = 3,
     !.calls = {[call |-> "create_recovery", who |-> 1, friends |-> {2, 3}, threshold |-> 1, delay |-> 1],
                [call |-> "initiate_recovery", who |-> 2, account |-> 1],
                [call |-> "vouch_recovery", who |-> 3, account |-> 1, rescuer |-> 2],
                [call |-> "claim_recovery", who |-> 2, account |-> 1],
                [call |-> "as_recovered", who |-> 2, account |-> 1,
                 inner |-> [call |-> "close_recovery", who |-> 0, rescuer |-> 2]],
                [call |-> "as_recovered", who |-> 2, account |-> 1, inner |-> Who("remove_recovery", 0)],
                [call |-> "cancel_recovered", who |-> 2, account |-> 1],
                Sudo([call |-> "set_recovered", account |-> 1, rescuer |-> 2]),
                [call |-> "open_proxy", who |-> 2, target |-> 3],
                [call |-> "transfer", who |-> 2, dest |-> 4, value |-> 12],
                [call |-> "sudo_as", who |-> 3, account |-> 2, inner |-> Who("close_proxy", 0)]}]

Multi(c, who, n, all) == [call |-> c, who |-> who, threshold |-> n, others |-> all \ {who}, hash |-> "h1"]

\* A composite account of 1 and 2, and a pseudonym of 1.
Composite ==
  [Base EXCEPT !.max_calls = 4, !.blocks = 2, !.free[4] = 8, !.free[7] = 5,
     !.calls = {Multi(c, w, 2, {1, 2}) : c \in {"as_multi", "approve_as_multi", "cancel_as_multi"}, w \in {1, 2}}
       \cup {Multi("as_multi", w, 3, {1, 2, 3}) : w \in {1, 2, 3}}
       \cup {Multi("as_multi", 1, 1, {1, 2}), [call |-> "transfer", who |-> 1, dest |-> 3, value |-> 9],
             [call |-> "as_sub", who |-> 1, index |-> 0, inner |-> Index("claim_index", 0, 0)],
             [call |-> "as_sub", who |-> 1, index |-> 0, inner |-> Index("free_index", 0, 0)],
             [call |-> "set_key", who |-> 3, new |-> 1]}]

Judgement(who, kind) ==
  [call |-> "provide_judgement", who |-> who, registrar |-> 1, target |-> 2, judgement |-> kind]

\* Identities, their subs and the judgements of a registrar.
Identities ==
  [Base EXCEPT !.max_calls = 6, !.blocks = 1, !.elected = {1},
     !.calls = {[call |-> "set_identity", who |-> 2, fields |-> f] : f \in {0, 1}}
       \cup {[call |-> "set_subs", who |-> 2, ids |-> ids] : ids \in {{}, {3}, {3, 4}}}
       \cup {Judgement(3, kind) : kind \in {"Reasonable", "Erroneous"}}
       \cup {By(1, [call |-> "add_registrar", account |-> 3], 1),
             By(1, [call |-> "kill_identity", target |-> 2], 1),
             [call |-> "set_fee", who |-> 3, registrar |-> 1, value |-> 2],
             [call |-> "set_fields", who |-> 3, registrar |-> 1, fields |-> {"web"}],
             [call |-> "set_account_id", who |-> 3, registrar |-> 1, new |-> 1],
             [call |-> "request_judgement", who |-> 2, registrar |-> 1, value |-> 2],
             [call |-> "cancel_request", who |-> 2, registrar |-> 1], Who("clear_identity", 2)}]

Bid(who, v) == [call |-> "bid", who |-> who, value |-> v]
On2(voter, who, yes) == [call |-> "society_vote", who |-> voter, target |-> who, approve |-> yes]

\* A society of three takes in bidders.
Intake ==
  [Base EXCEPT !.max_calls = 5, !.blocks = 8, !.society = {1, 2, 3}, !.founder = {1}, !.max_members = 5,
     !.free[SocietyAccount] = 20, !.free[4] = 8, !.free[7] = 8,
     !.calls = {Bid(4, 3), Bid(7, 0), [call |-> "unbid", who |-> 4, pos |-> 1],
                [call |-> "vouch", who |-> 2, target |-> 7, value |-> 4, tip |-> 1],
                [call |-> "unvouch", who |-> 2, pos |-> 1],
                On2(1, 4, TRUE), On2(2, 4, FALSE), On2(2, 7, TRUE),
                Who("payout", 4), Who("payout", 2)}]

\* The founder judges, members defend themselves, and the society ends.
Suspensions ==
  [Base EXCEPT !.max_calls = 4, !.blocks = 6, !.society = {1, 2, 3}, !.founder = {1}, !.max_members = 5,
     !.free[SocietyAccount] = 20, !.free[4] = 8,
     !.calls = {Bid(4, 3), [call |-> "vouch", who |-> 2, target |-> 7, value |-> 2, tip |-> 1],
                [call |-> "defender_vote", who |-> 1, approve |-> TRUE],
                [call |-> "defender_vote", who |-> 3, approve |-> FALSE],
                Who("unfound", 1)}
       \cup {[call |-> "judge_member", who |-> 1, target |-> 2, forgive |-> f] : f \in BOOLEAN}
       \cup {[call |-> "judge_candidate", who |-> 1, target |-> t, judgement |-> j] :
               t \in {4, 7}, j \in {"Approve", "Reject", "Rebid"}}]

\* A society is founded by the council, and founded again.
Founding ==
  [Base EXCEPT !.max_calls = 6, !.blocks = 4, !.elected = {1}, !.free[4] = 8, !.free[SocietyAccount] = 6,
     !.calls = {By(1, [call |-> "found", founder |-> f, max_members |-> 2], 1) : f \in {2, 3}}
       \cup {Who("unfound", 2), Bid(4, 1), Bid(2, 0), Sudo([call |-> "set_max_members", value |-> 3]),
             On2(2, 4, TRUE), On2(2, 2, TRUE)}]

\* Sessions of one block and eras of two: a stash bonds, unbonds and withdraws.
Bonding ==
  [Base EXCEPT !.max_calls = 5, !.blocks = 9, !.epoch = 1, !.busy = {1, 2, 5, 9},
     !.calls = {[call |-> "bond", who |-> 1, controller |-> 2, value |-> 8, payee |-> "Stash"],
                [call |-> "bond_extra", who |-> 1, value |-> 3],
                [call |-> "unbond", who |-> 2, value |-> 4], [call |-> "unbond", who |-> 2, value |-> 9],
                [call |-> "rebond", who |-> 2, value |-> 5], Who("withdraw_unbonded", 2),
                [call |-> "nominate", who |-> 2, targets |-> <<8>>],
                [call |-> "transfer", who |-> 1, dest |-> 4, value |-> 5]}]

\* Rewards of a validator and its nominators.
Rewards ==
  [Base EXCEPT !.max_calls = 5, !.blocks = 6, !.epoch = 1, !.busy = {2, 4, 5, 6},
     !.stakers = <<Staker(8, 8, 8, <<>>), Staker(1, 2, 9, <<8>>), Staker(3, 3, 5, <<8>>)>>,
     !.calls = {[call |-> "validate", who |-> 8, commission |-> 50],
                [call |-> "set_payee", who |-> 2, payee |-> "Controller"],
                [call |-> "set_payee", who |-> 8, payee |-> "Stash"]}
       \cup {[call |-> "payout_validator", who |-> 8, era |-> e] : e \in {0, 1}}
       \cup {[call |-> "payout_nominator", who |-> c, era |-> e, validators |-> <<<<8, 1>>>>] :
               c \in {2, 3}, e \in {0, 1}}]

\* Three validators that must show that they are there.
Offline ==
  [Base EXCEPT !.max_calls = 1, !.blocks = 8, !.epoch = 3, !.count = 3, !.worker = TRUE,
     !.stakers = <<Staker(1, 1, 10, <<>>), Staker(2, 2, 10, <<>>), Staker(8, 8, 10, <<>>)>>,
     !.keys = <<Keys(1, <<11, 12>>), Keys(2, <<21, 22>>), Keys(8, <<81, 82>>)>>,
     !.authors = [n \in 2 .. 4 |-> {0, 1}],
     !.calls = {[call |-> "validate", who |-> 1, commission |-> 0]}]

Equivocates(who, slot, session) ==
  [call |-> "report_equivocation", who |-> 3, offender |-> who, slot |-> slot, session |-> session]
CancelSlash(indices) == [call |-> "cancel_deferred_slash", era |-> 0, indices |-> indices]

\* Four validators and a nominator, slashed for what they did sessions ago.
Slashes ==
  [Base EXCEPT !.max_calls = 4, !.blocks = 26, !.epoch = 4, !.count = 4, !.elected = {3},
     !.busy = {2, 10, 25}, !.free[7] = 10,
     !.stakers = <<Staker(1, 1, 10, <<>>), Staker(2, 2, 10, <<>>), Staker(4, 4, 10, <<>>),
                   Staker(8, 8, 10, <<>>), Staker(7, 7, 9, <<1, 2>>)>>,
     !.free[4] = 12, !.free[1] = 10,
     !.keys = <<Keys(1, <<11, 12>>), Keys(2, <<21, 22>>), Keys(4, <<41, 42>>), Keys(8, <<81, 82>>)>>,
     !.calls = {Equivocates(1, 1, 0), Equivocates(1, 2, 2), Equivocates(1, 2, 0), Equivocates(2, 1, 0),
                By(3, CancelSlash(<<0>>), 1), By(3, CancelSlash(<<1, 1>>), 1),
                [call |-> "unbond", who |-> 1, value |-> 10],
                [call |-> "validate", who |-> 1, commission |-> 0], Who("withdraw_unbonded", 1),
                [call |-> "reap_stash", stash |-> 1]}]

SetKeys(who, keys) == [call |-> "set_keys", who |-> who, keys |-> keys]

\* The keys of validators change, clash and are purged.
Keyring ==
  [Base EXCEPT !.max_calls = 4, !.blocks = 5, !.epoch = 1, !.count = 1,
     !.stakers = <<Staker(8, 8, 8, <<>>), Staker(1, 2, 5, <<>>)>>,
     !.keys = <<Keys(8, <<81, 82>>)>>,
     !.calls = {SetKeys(2, <<11, 12>>), SetKeys(2, <<13, 82>>), SetKeys(8, <<83, 82>>), SetKeys(8, <<84, 12>>),
                Who("purge_keys", 2), Who("purge_keys", 3), Who("purge_keys", 8),
                [call |-> "set_controller", who |-> 1, controller |-> 3]}]

Force(how) == Sudo([call |-> "force_era", forcing |-> how])

\* Root makes and stops eras, and what it needs to know of them.
Forcing ==
  [Base EXCEPT !.max_calls = 3, !.blocks = 7, !.epoch = 1, !.count = 1, !.depth = 1,
     !.stakers = <<Staker(8, 8, 8, <<>>), Staker(1, 2, 5, <<>>)>>,
     !.keys = <<Keys(8, <<81, 82>>), Keys(1, <<11, 12>>)>>,
     !.calls = {Force(how) : how \in {"ForceNone", "ForceNew", "ForceAlways"}}
       \cup {Sudo([call |-> "set_validator_count", count |-> 2]),
             Sudo([call |-> "set_validator_count", count |-> 0]), Sudo([call |-> "set_history_depth", depth |-> 0]),
             Sudo([call |-> "force_unstake", stash |-> 8]), Sudo([call |-> "set_invulnerables", stashes |-> {1}]),
             Who("chill", 2), Who("chill", 8)}]

\* Finality falls behind while the authorities change.
Stall ==
  [Base EXCEPT !.max_calls = 3, !.blocks = 9, !.epoch = 2, !.busy = {2, 3, 5}, !.stalls = TRUE,
     !.lags = [n \in 3 .. 7 |-> {1, 5}],
     !.calls = {SetKeys(8, <<83, 84>>), SetKeys(8, <<85, 82>>), Force("ForceAlways")}]

MCConsensus == {Bonding, Rewards, Offline, Slashes, Keyring, Forcing, Stall}

MCSetups == MCConsensus \cup
  {Proposals, Voting, Proxies, Enactment, Spending, Tips, Elections, Externals, Committees, GenesisBodies, Replacing, Payments,
   Holdings, Rescue, Composite, Identities, Intake, Suspensions, Founding}

MCSociety == {Intake}

MCCurve == <<<<0, 3>>, <<50, 10>>, <<100, 3>>>>

-----------------------------------------------------------------------------
(* compare_rationals compares exactly, although it only divides.                                      *)
ASSUME ComparesExactly ==
  \A a, c \in 0 .. 9, b, d \in 1 .. 7 : compare_rationals(a, b, c, d) <=> a * d < c * b

(* Phragmen elects and assigns soundly, whoever two voters vote for.                                  *)
MCBallots == {<<1>>, <<2, 1>>, <<1, 3>>, <<3, 2>>, <<1, 2, 3>>}
ASSUME ElectionsAreSound ==
  \A v, w \in MCBallots, b, c \in {1, 4} :
    ElectIsSound(2, <<1, 2, 3>>, <<[who |-> 1, votes |-> v, budget |-> b],
                                   [who |-> 2, votes |-> w, budget |-> c]>>)
=============================================================================
