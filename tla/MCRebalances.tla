---------------------------- MODULE MCRebalances ----------------------------
(* The two halves of RAEC's rebalances on small instances: PaperAccount,   *)
(* where orders are placed, and RaecTargets, where they are computed.  A   *)
(* behaviour is one of the two, the other rests.                           *)
EXTENDS PaperAccount, Sequences, TLC

VARIABLES part, strategy, features, t_day, phase, signal, targets, known, last_rebalance,
          confirmed, intents, allocations, sim_rebalance, rebalanced, together

(* All in one fund when the regime is on, in the other when it is off. *)
Funds(c, r) == IF (c = "vti") = (r = "on") THEN 2 ELSE 0

Anchor(ab, u, d, w) == [above |-> ab, up |-> u, down |-> d, wild |-> w]
SomeAnchors == {Anchor(TRUE, TRUE, 0, FALSE), Anchor(TRUE, FALSE, 5, FALSE),
                Anchor(FALSE, FALSE, 15, FALSE)}

Row(s, k, m) == [sym |-> s, kind |-> k, mv |-> m]
SomeRows == {{Row("", "cash", 100)},
             {Row("TQQQ", "ticker", 70), Row("QQQ", "ticker", 29), Row("XLK", "ticker", 1)},
             {Row("", "other", 10)}}

(* Symbols by score, the first few with momentum; volatilities in turn. *)
Scene(order, n, vols, rho) ==
  LET at(s) == CHOOSE i \in DOMAIN order : order[i] = s
  IN [rho |-> rho,
      of |-> [s \in {order[i] : i \in DOMAIN order} |->
                [score |-> 100 - at(s), mom |-> IF at(s) <= n THEN 1 ELSE 0,
                 vol |-> vols[1 + (at(s) % 2)]]]]

SomeScenes ==
  {Scene(o, n, v, r) : o \in {<<"TQQQ", "SOXL", "QQQ", "XLK", "GLD", "IEF", "USMV">>,
                               <<"QQQ", "XLK", "TQQQ", "USMV", "SOXL">>},
                       n \in {0, 1, 2, 4}, v \in {<<4, 40>>, <<16, 24>>}, r \in {0, 100}}

t_vars == <<strategy, features, t_day, phase, signal, targets, known, last_rebalance,
            confirmed, intents, allocations, sim_rebalance, rebalanced, together>>

T == INSTANCE RaecTargets WITH
       Leveraged <- {"TQQQ", "SOXL"}, Plain <- {"QQQ", "XLK"},
       Defensive <- {"USMV", "IEF", "GLD"}, Hedges <- {"PSQ"},
       Strategies <- {"V1", "V2", "V3", "V4", "V5"}, Anchors <- SomeAnchors,
       Scenes <- SomeScenes, Rows <- SomeRows, Gaps <- {1}, MaxDay <- 3, day <- t_day

(* Nothing tells one runner or one candidate from another. *)
Alike == Permutations(Runners) \cup Permutations(Symbols)

TargetsRest ==
  /\ strategy = "V1" /\ features = (CHOOSE f \in SomeScenes : TRUE)
  /\ known = (CHOOSE k \in {[unknown |-> TRUE]} : TRUE)
AccountRests == regime = (CHOOSE r \in Regimes : TRUE) /\ rows = [s \in Symbols |-> "absent"]

RebalancesInit ==
  /\ Init /\ T!Init
  /\ \/ part = "account" /\ TargetsRest
     \/ part = "targets" /\ AccountRests

AccountNext == part = "account" /\ Next /\ UNCHANGED <<part, t_vars>>
TargetsNext == part = "targets" /\ T!Next /\ UNCHANGED <<part, vars>>

RebalancesNext == AccountNext \/ TargetsNext

RebalancesSpec == RebalancesInit /\ [][RebalancesNext]_<<part, vars, t_vars>>

(* The invariants of RaecTargets, stated there. *)
TicketsSound == T!TicketsSound
SimTracks    == T!SimTracks

=============================================================================
