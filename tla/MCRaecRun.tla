----------------------------- MODULE MCRaecRun -----------------------------
(* The manual 401(k) book on small instances: RaecRun, from evaluations to *)
(* tickets, and ManualTickets, from tickets to the owner's replies.  A     *)
(* behaviour is one of the two, the other rests.                           *)
EXTENDS RaecRun, TLC

CONSTANTS
  Posters, Summaries, Intents, TicketDates, MaxReplies, SpillAt, MaxAttempts,
  DeskDays, DeskFaults  \* MaxDay and MaxFaults of ManualTickets

VARIABLES part, t_day, ticket_lines, reply_lines, t_pc, ny_date, pending, buffer, shown,
          reply, attempts, acked, rcv, verdict, lost, t_excused, t_faults

t_vars == <<t_day, ticket_lines, reply_lines, t_pc, ny_date, pending, buffer, shown,
            reply, attempts, acked, rcv, verdict, lost, t_excused, t_faults>>

Desk == INSTANCE ManualTickets WITH
          MaxDay <- DeskDays, MaxFaults <- DeskFaults,
          day <- t_day, pc <- t_pc, excused <- t_excused, faults <- t_faults

ASSUME DeskConstants == Desk!TicketConstants

TwoSubs == <<"v3", "v4">>

(* Nothing tells one regime from another. *)
RegimeSymmetry == Permutations(Regimes)

BookInit ==
  /\ Init /\ Desk!Init
  /\ \/ part = "runs"
     \/ part = "desk" /\ raw = (CHOOSE r \in Regimes : TRUE)

RunsNext == part = "runs" /\ Next /\ UNCHANGED <<part, t_vars>>
DeskNext == part = "desk" /\ Desk!Next /\ UNCHANGED <<part, vars>>

BookNext == RunsNext \/ DeskNext

BookSpec == BookInit /\ [][BookNext]_<<part, vars, t_vars>>

(* The invariants of ManualTickets, stated there. *)
PostsExcused         == Desk!PostsExcused
RepliesRecordedRight == Desk!RepliesRecordedRight

=============================================================================
