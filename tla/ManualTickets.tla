--------------------------- MODULE ManualTickets ---------------------------
(***************************************************************************)
(* The manual Schwab book: processes that post trade tickets to Slack and  *)
(* record them in the ledger file of the ticket's date, a human who        *)
(* replies in the ticket's thread, and the events receiver that records    *)
(* each reply in the ledger file of the reply's date.  Nothing locks a     *)
(* ledger file: every process reads it, works, and appends.                *)
(*                                                                         *)
(* Posters are runs of execution_main, of the CLI and of the strategies;   *)
(* those in Summaries post one message for all their tickets.              *)
(***************************************************************************)
EXTENDS Naturals, FiniteSetsExt

CONSTANTS
  Posters, Summaries,
  Intents,      \* intents of a date, in the order they are posted
  MaxDay,       \* bound: dates explored
  TicketDates,  \* bound: dates that have intents
  MaxReplies,   \* bound: replies the human writes
  SpillAt,      \* lines at which a file buffer writes itself out
  MaxFaults,    \* bound: processes killed, and posts, writes, reads or
                \* responses that fail
  MaxAttempts   \* deliveries of one event before Slack gives up

TicketConstants ==
  /\ Summaries \subseteq Posters /\ IsFiniteSet(Posters) /\ Intents \subseteq Nat
  /\ SpillAt \in Nat \ {0} /\ MaxDay \in Nat \ {0} /\ TicketDates \subseteq 1..MaxDay
  /\ MaxReplies \in Nat /\ MaxFaults \in Nat /\ MaxAttempts \in Nat

VARIABLES
  day,
  (* the ledger files *)
  ticket_lines,  \* tickets with a MANUAL_TICKET_SENT line
  reply_lines,   \* lines in the file of a date about a reply
  (* posters *)
  pc, ny_date, pending, buffer,
  (* Slack and the human *)
  shown,         \* messages in the channel with that ticket
  reply, attempts, acked,
  (* the receiver *)
  rcv, verdict,
  (* history and budgets *)
  lost,          \* posts of a ticket that failed, unnoticed
  excused,       \* why a ticket may be posted again
  faults

files    == <<ticket_lines, reply_lines>>
posters  == <<pc, ny_date, pending, buffer>>
slack    == <<shown, reply, attempts, acked>>
receiver == <<rcv, verdict>>
history  == <<lost, excused>>
vars     == <<day, files, posters, slack, receiver, history, faults>>

-----------------------------------------------------------------------------
(* The id of an intent is a hash over its date and its fields. *)
Tickets  == TicketDates \X Intents
Replies  == 1..MaxReplies
NoReply  == [day |-> 0]
(* What Slack's event says; "known" is for the properties: the ticket's    *)
(* line was in its file when the reply was written.                        *)
Reply    == [ids : SUBSET Tickets, day : 1..MaxDay, parses : BOOLEAN, known : BOOLEAN]
Verdicts == {"none", "matched", "unmatched", "rejected"}
Idle     == [step |-> "idle", id |-> 0, verdict |-> "none"]

(* Mutant: the ledger is not read. *)
Sent_Unread(d) == {}

Of(d, n) == <<d, n>>

Sent(d) == {n \in Intents : Of(d, n) \in ticket_lines}

Fault == faults < MaxFaults /\ faults' = faults + 1

(* The same intent in the hands of another process that has loaded the    *)
(* ledger and not yet written it.                                          *)
Rival(p, t) == \E q \in Posters \ {p} :
  pc[q] # "idle" /\ ny_date[q] = t[1] /\ t[2] \in pending[q] \cup buffer[q]

Init ==
  /\ day = 1
  /\ ticket_lines = {} /\ reply_lines = [r \in (1..MaxDay) \X Replies |-> 0]
  /\ pc = [p \in Posters |-> "idle"] /\ ny_date = [p \in Posters |-> 0]
  /\ pending = [p \in Posters |-> {}] /\ buffer = [p \in Posters |-> {}]
  /\ shown = [t \in Tickets |-> 0]
  /\ reply = [r \in Replies |-> NoReply]
  /\ attempts = [r \in Replies |-> 0] /\ acked = [r \in Replies |-> FALSE]
  /\ rcv = Idle /\ verdict = [r \in Replies |-> "none"]
  /\ lost = [t \in Tickets |-> 0] /\ excused = [t \in Tickets |-> 0]
  /\ faults = 0

-----------------------------------------------------------------------------
(* Posting                                                                 *)

(* _load_sent_intent_ids reads the file once; tickets in it are skipped.   *)
(* With none left, or posting disabled, nothing happens.  A file that      *)
(* cannot be read ends the run before it posts anything.                   *)
LoadSent(p, d, batch) ==
  LET todo == batch \ Sent(d)
  IN /\ pc[p] = "idle" /\ todo # {}
     /\ pc' = [pc EXCEPT ![p] = "post"]
     /\ ny_date' = [ny_date EXCEPT ![p] = d]
     /\ pending' = [pending EXCEPT ![p] = todo]
     /\ excused' = [t \in Tickets |->
          IF t[1] = d /\ t[2] \in todo /\ Rival(p, t) THEN excused[t] + 1
                                                      ELSE excused[t]]
     /\ UNCHANGED <<day, files, buffer, slack, receiver, lost, faults>>

(* Every failure of the post is swallowed in alerts.slack._post. *)
Deliver(ts) ==
  \/ /\ shown' = [t \in Tickets |-> IF t \in ts THEN shown[t] + 1 ELSE shown[t]]
     /\ UNCHANGED <<lost, faults>>
  \/ /\ Fault
     /\ lost' = [t \in Tickets |-> IF t \in ts THEN lost[t] + 1 ELSE lost[t]]
     /\ UNCHANGED shown

(* The tickets the next post of p is about. *)
NextPost(p) == IF p \in Summaries THEN pending[p] ELSE {Min(pending[p])}

Post(p) ==
  /\ pc[p] = "post" /\ pending[p] # {}
  /\ Deliver({Of(ny_date[p], n) : n \in NextPost(p)})
  /\ pc' = [pc EXCEPT ![p] = "record"]
  /\ UNCHANGED <<day, files, ny_date, pending, buffer, reply, attempts, acked,
                 receiver, excused>>

(* handle.write puts the line in a buffer, which is written out when it is *)
(* full.                                                                   *)
Record(p) ==
  LET held == buffer[p] \cup NextPost(p)
      full == Cardinality(held) >= SpillAt
  IN /\ pc[p] = "record"
     /\ ticket_lines' = IF full
          THEN ticket_lines \cup {Of(ny_date[p], n) : n \in held} ELSE ticket_lines
     /\ buffer' = [buffer EXCEPT ![p] = IF full THEN {} ELSE held]
     /\ pending' = [pending EXCEPT ![p] = @ \ NextPost(p)]
     /\ pc' = [pc EXCEPT ![p] = "post"]
     /\ UNCHANGED <<day, reply_lines, ny_date, slack, receiver, history, faults>>

(* Leaving the with block writes the rest, at the end of the run or when   *)
(* an interrupt ends it early.                                             *)
Close(p) ==
  /\ pc[p] = "post"
  /\ ticket_lines' = ticket_lines \cup {Of(ny_date[p], n) : n \in buffer[p]}
  /\ pending' = [pending EXCEPT ![p] = {}]
  /\ buffer' = [buffer EXCEPT ![p] = {}]
  /\ pc' = [pc EXCEPT ![p] = "idle"]
  /\ ny_date' = [ny_date EXCEPT ![p] = 0]
  /\ UNCHANGED <<day, reply_lines, slack, receiver, history>>

EndRun(p)    == pending[p] = {} /\ Close(p) /\ UNCHANGED faults
Interrupt(p) == pending[p] # {} /\ Fault /\ Close(p)

(* The lines in hand are gone: the buffer, and the line of a post made. *)
Unwritten(p) == buffer[p] \cup (IF pc[p] = "record" THEN NextPost(p) ELSE {})

(* The process is killed, or the file cannot be written. *)
Abort(p) ==
  /\ pc[p] # "idle" /\ Fault
  /\ excused' = [t \in Tickets |->
       IF t[1] = ny_date[p] /\ t[2] \in Unwritten(p) THEN excused[t] + 1
                                                     ELSE excused[t]]
  /\ pending' = [pending EXCEPT ![p] = {}]
  /\ buffer' = [buffer EXCEPT ![p] = {}]
  /\ pc' = [pc EXCEPT ![p] = "idle"]
  /\ ny_date' = [ny_date EXCEPT ![p] = 0]
  /\ UNCHANGED <<day, files, slack, receiver, lost>>


-----------------------------------------------------------------------------
(* The human and Slack                                                     *)

(* What a reply names: ids of tickets, statuses, quantities, prices.       *)
Amounts == {{1}, {0}, {1, 2}}
Texts   == [ids : {ids \in SUBSET Tickets : Cardinality(ids) <= 2}, statuses : 0..2,
            qtys : Amounts, prices : Amounts]

(* parse_confirmation: one id, one status, no two amounts, none of zero.   *)
Parses(text) ==
  /\ Cardinality(text.ids) = 1 /\ text.statuses = 1
  /\ Cardinality(text.qtys) <= 1 /\ 0 \notin text.qtys
  /\ Cardinality(text.prices) <= 1 /\ 0 \notin text.prices

(* In the thread of a message that is there; any ticket may be named. *)
WriteReply(text) ==
  /\ \E t \in Tickets : shown[t] > 0
  /\ \E r \in Replies :
       /\ reply[r] = NoReply /\ \A s \in 1..(r - 1) : reply[s] # NoReply
       /\ reply' = [reply EXCEPT ![r] =
            [ids |-> IF Parses(text) THEN text.ids ELSE {}, day |-> day,
             parses |-> Parses(text), known |-> Parses(text) /\ text.ids \subseteq ticket_lines]]
  /\ UNCHANGED <<day, files, posters, shown, attempts, acked, receiver, history,
                 faults>>

(* Slack sends an event until it is answered with 200, a few times. *)
DeliverEvent(r) ==
  /\ rcv = Idle
  /\ reply[r] # NoReply /\ ~acked[r] /\ attempts[r] < MaxAttempts
  /\ attempts' = [attempts EXCEPT ![r] = @ + 1]
  /\ rcv' = [step |-> "dedup", id |-> r, verdict |-> "none"]
  /\ UNCHANGED <<day, files, posters, shown, reply, acked, verdict, history, faults>>

-----------------------------------------------------------------------------
(* handle_slack_event                                                      *)

(* The file is that of the New York date of the reply's timestamp. *)
LedgerDate(r) == reply[r].day

Line(r) == <<LedgerDate(r), r>>

(* Mutant: the file of today is searched for the event. *)
Seen_Today(r) == reply_lines[<<day, r>>] > 0

(* load_existing_event_ids *)
Seen(r) == reply_lines[Line(r)] > 0

Deduplicate ==
  /\ rcv.step = "dedup"
  /\ rcv' = CASE Seen(rcv.id) -> [rcv EXCEPT !.step = "respond"]
              [] ~Seen(rcv.id) /\ reply[rcv.id].parses -> [rcv EXCEPT !.step = "match"]
              [] OTHER -> [rcv EXCEPT !.step = "append", !.verdict = "rejected"]
  /\ UNCHANGED <<day, files, posters, slack, verdict, history, faults>>

(* intent_id_exists looks in the same file, and nowhere else. *)
Matches(r) == \E t \in reply[r].ids : t \in ticket_lines /\ t[1] = LedgerDate(r)

Match ==
  /\ rcv.step = "match"
  /\ rcv' = [rcv EXCEPT !.step = "append",
                        !.verdict = IF Matches(rcv.id) THEN "matched" ELSE "unmatched"]
  /\ UNCHANGED <<day, files, posters, slack, verdict, history, faults>>

Append ==
  /\ rcv.step = "append"
  /\ reply_lines' = [reply_lines EXCEPT ![Line(rcv.id)] = @ + 1]
  /\ verdict' = [verdict EXCEPT ![rcv.id] = rcv.verdict]
  /\ rcv' = [rcv EXCEPT !.step = "respond"]
  /\ UNCHANGED <<day, ticket_lines, posters, slack, history, faults>>

Respond ==
  /\ rcv.step = "respond" /\ rcv' = Idle
  /\ acked' = [acked EXCEPT ![rcv.id] = TRUE]
  /\ UNCHANGED <<day, files, posters, shown, reply, attempts, verdict, history, faults>>

(* The ledger cannot be read or written: 500.  Or 200 does not arrive, or *)
(* the receiver dies.                                                     *)
RequestFails ==
  /\ rcv # Idle /\ Fault /\ rcv' = Idle
  /\ UNCHANGED <<day, files, posters, slack, verdict, history>>

NextDay ==
  /\ day < MaxDay /\ day' = day + 1
  /\ UNCHANGED <<files, posters, slack, receiver, history, faults>>

Next ==
  \/ \E p \in Posters : \/ \E d \in TicketDates, batch \in SUBSET Intents :
                             d <= day /\ LoadSent(p, d, batch)
                        \/ Post(p) \/ Record(p) \/ EndRun(p) \/ Interrupt(p)
                        \/ Abort(p)
  \/ \E text \in Texts : WriteReply(text)
  \/ \E r \in Replies : DeliverEvent(r)
  \/ Deduplicate \/ Match \/ Append \/ Respond \/ RequestFails
  \/ NextDay

Spec == Init /\ [][Next]_vars

-----------------------------------------------------------------------------
Recorded(r) == \E d \in 1..MaxDay : reply_lines[<<d, r>>] > 0

(* The variables stay in their domains; a poster at rest holds nothing.   *)
TypeOK ==
  /\ day \in 1..MaxDay /\ faults \in 0..MaxFaults
  /\ ticket_lines \subseteq Tickets
  /\ reply_lines \in [(1..MaxDay) \X Replies -> Nat]
  /\ pc \in [Posters -> {"idle", "post", "record"}]
  /\ ny_date \in [Posters -> 0..MaxDay]
  /\ pending \in [Posters -> SUBSET Intents] /\ buffer \in [Posters -> SUBSET Intents]
  /\ \A p \in Posters : pc[p] = "idle" => pending[p] \cup buffer[p] = {}
  /\ shown \in [Tickets -> Nat] /\ lost \in [Tickets -> Nat]
  /\ excused \in [Tickets -> Nat]
  /\ reply \in [Replies -> Reply \cup {NoReply}]
  /\ attempts \in [Replies -> 0..MaxAttempts] /\ acked \in [Replies -> BOOLEAN]
  /\ rcv \in {Idle} \cup [step : {"dedup", "match", "append", "respond"},
                          id : Replies, verdict : Verdicts]
  /\ verdict \in [Replies -> Verdicts]

(* A ticket is posted again only when an earlier post of it was not yet, or *)
(* never, written to the ledger: another process held it at the time, or a  *)
(* process died or could not write with the line in hand (the ledger as the *)
(* idempotency guard of send_manual_tickets).                               *)
PostsExcused == \A t \in Tickets : shown[t] + lost[t] <= 1 + excused[t]

(* A reply is recorded once over all ledger files, however often Slack     *)
(* delivers it, across restarts and midnight (the dedup by event id in the *)
(* file of the reply's own date).                                           *)
RecordedOnce == \A r \in Replies :
  /\ \A d \in 1..MaxDay : reply_lines[<<d, r>>] <= 1
  /\ Cardinality({d \in 1..MaxDay : reply_lines[<<d, r>>] > 0}) <= 1

(* A readable reply written on the ticket's date, after the ticket's line   *)
(* was in its ledger, is recorded as matched, whenever it gets through.     *)
KnownRepliesMatch == \A r \in Replies :
  Recorded(r) /\ reply[r].parses /\ reply[r].known
              /\ (\A t \in reply[r].ids : t[1] = reply[r].day) => verdict[r] = "matched"

(* Replies are recorded once, and rightly. *)
RepliesRecordedRight == RecordedOnce /\ KnownRepliesMatch

=============================================================================
