------------------------------ MODULE Incidents ------------------------------
(***************************************************************************)
(* One incident (internal/notify, incident.go; ADRs 33 and 36): a          *)
(* condition, such as a storage down, told to each destination when it     *)
(* starts, again every Repeat while it lasts, and once when it is over.    *)
(* Backups, copy workers, maintenance and drills raise and clear it from   *)
(* processes of their own, over one record on disk.                        *)
(*                                                                         *)
(* A step is one edit of the record under its lock (withIncidents), or     *)
(* one destination's send.  The message's kind and words are left out, as  *)
(* is a record that cannot be read or written.                             *)
(***************************************************************************)
EXTENDS Naturals

CONSTANTS
    Callers,     \* what raises and clears the incident; at most one call each at a time
    Dests,       \* the destinations
    Steady,      \* those every caller has configured to receive it, always
    MaxFlips,    \* bounds on a behaviour: how often the condition changes
    MaxFaults    \* and how often a send fails, a caller dies, a send outlasts its
                 \* claim, or a caller's configuration changes

ASSUME IncidentsAssumption ==
    /\ Steady \subseteq Dests
    /\ MaxFlips \in Nat /\ MaxFaults \in Nat

VARIABLES
    bad,      \* whether the condition holds
    inc,      \* the record on disk
    due,      \* whether Repeat has passed since LastSent
    opened,   \* history: how many incidents there have been
    pc,       \* where each caller is: between reports, at a call, or sending
    job,      \* the incident it sends, as it was claimed (deliver's `in')
    todo,     \* destinations sendTo has left
    missed,   \* destinations it did not reach
    holds,    \* whether the record's Gen is still that of its job
    mode,     \* each caller's configuration of each destination
    heard,    \* the last message each destination got, of which incident, and the
              \* latest incident it got the alert of
    slow,     \* history: whether some claim has lapsed under a live sender
    flips, faults  \* the bounds used up so far

sendVars == <<job, todo, missed>>
vars == <<bad, inc, due, opened, pc, job, todo, missed, holds, mode, heard, slow, flips, faults>>

Fault == faults < MaxFaults /\ faults' = faults + 1

\* A destination is on, quiet (does not receive this kind), muted (",-drills", for a
\* drill's incident) or gone (not configured).
Modes == {"on", "quiet", "muted", "gone"}
Receiving(c)  == {d \in Dests : mode[c][d] = "on"}
Configured(c) == {d \in Dests : mode[c][d] # "gone"}
Muted(c)      == {d \in Dests : mode[c][d] = "muted"}

Incident == [st : {"none", "open", "recovered"}, no : Nat, to : SUBSET Dests,
             told : SUBSET Dests, pending : SUBSET Dests, claimed : BOOLEAN, clear : BOOLEAN]

NoIncident == [st |-> "none", no |-> 0, to |-> {}, told |-> {}, pending |-> {},
               claimed |-> FALSE, clear |-> FALSE]

Init ==
    /\ bad = FALSE /\ inc = NoIncident /\ due = FALSE /\ opened = 0
    /\ pc = [c \in Callers |-> "idle"]
    /\ job = [c \in Callers |-> NoIncident]
    /\ todo = [c \in Callers |-> {}]
    /\ missed = [c \in Callers |-> {}]
    /\ holds = [c \in Callers |-> FALSE]
    /\ \E m \in Modes : mode = [c \in Callers |-> [d \in Dests |-> IF d \in Steady THEN "on" ELSE m]]
    /\ heard = [d \in Dests |-> [no |-> 0, what |-> "none", alert |-> 0]]
    /\ slow = FALSE
    /\ flips = 0 /\ faults = 0

-------------------------------------------------------------------------------
(* Claims *)

\* Mutant of Claimed: the record is written with nothing owed, as if it were sent.
ClaimedStruck(in) == [in EXCEPT !.claimed = TRUE, !.pending = {}]

\* The record as a send claims it.
Claimed(in) == [in EXCEPT !.claimed = TRUE]

\* c takes in to send: sendTo goes to those of Pending it has configured and not muted.
Take(c, in) ==
    /\ job' = [job EXCEPT ![c] = in]
    /\ todo' = [todo EXCEPT ![c] = (in.pending \cap Configured(c)) \ Muted(c)]
    /\ missed' = [missed EXCEPT ![c] = {}]

\* A caller claims the incident in and begins to send it; a fresh Gen is nobody
\* else's.
Claim(c, in, fresh) ==
    /\ inc' = Claimed(in)
    /\ Take(c, in)
    /\ pc' = [pc EXCEPT ![c] = "send"]
    /\ holds' = [k \in Callers |-> k = c \/ (holds[k] /\ ~ fresh)]
    /\ UNCHANGED <<bad, mode, heard, slow, flips, faults>>

\* A call that sends nothing.
Return(c) ==
    /\ pc' = [pc EXCEPT ![c] = "idle"]
    /\ UNCHANGED <<bad, due, opened, sendVars, mode, heard, slow, flips, faults>>

\* Mutant of Recovery: it is owed to whoever the alert was meant for.
RecoveryToAll(in) ==
    [NoIncident EXCEPT !.st = "recovered", !.no = in.no, !.to = in.to,
                       !.pending = in.to]

\* recovery: owed to whoever the alert reached.
Recovery(in) ==
    [NoIncident EXCEPT !.st = "recovered", !.no = in.no, !.to = in.told,
                       !.pending = in.told]

-------------------------------------------------------------------------------
(* Raise, case by case *)

RaiseClaimed(c) ==
    /\ pc[c] = "raise" /\ inc.claimed
    /\ Return(c) /\ UNCHANGED <<inc, holds>>

\* No incident, or one that is over.
RaiseNew(c) ==
    /\ pc[c] = "raise" /\ ~ inc.claimed /\ inc.st # "open"
    /\ opened' = opened + 1 /\ due' = FALSE
    /\ Claim(c, [NoIncident EXCEPT !.st = "open", !.no = opened + 1,
                                   !.to = Receiving(c), !.pending = Receiving(c)], TRUE)

RaiseRepeat(c) ==
    /\ pc[c] = "raise" /\ ~ inc.claimed /\ inc.st = "open" /\ due
    /\ due' = FALSE /\ UNCHANGED opened
    /\ Claim(c, [inc EXCEPT !.to = @ \cup Receiving(c), !.pending = Receiving(c)], TRUE)

\* Mutant of RaiseAgain: what a send left owed waits for the next repeat.
RaiseAgainNever(c) ==
    /\ pc[c] = "raise" /\ ~ inc.claimed /\ inc.st = "open" /\ ~ due /\ inc.pending # {}
    /\ Return(c) /\ UNCHANGED <<inc, holds>>

\* The last notification once more, to whoever it has not reached.
RaiseAgain(c) ==
    /\ pc[c] = "raise" /\ ~ inc.claimed /\ inc.st = "open" /\ ~ due /\ inc.pending # {}
    /\ UNCHANGED <<due, opened>>
    /\ Claim(c, inc, FALSE)

\* Destinations configured since, or else nothing to send.
RaiseNewcomers(c) ==
    LET added == Receiving(c) \ inc.to
    IN  /\ pc[c] = "raise" /\ ~ inc.claimed /\ inc.st = "open" /\ ~ due /\ inc.pending = {}
        /\ IF added # {}
           THEN /\ Claim(c, [inc EXCEPT !.to = @ \cup added, !.pending = added], FALSE)
                /\ UNCHANGED <<due, opened>>
           ELSE Return(c) /\ UNCHANGED <<inc, holds>>

-------------------------------------------------------------------------------
(* Clear, case by case *)

\* Mutant of ClearClaimed: the recovery does not wait for the alert in flight.
ClearClaimedAtOnce(c) ==
    /\ pc[c] = "clear" /\ inc.claimed
    /\ UNCHANGED <<due, opened>>
    /\ Claim(c, Recovery(inc), TRUE)

\* Someone is sending: an alert's sender is left a note, a recovery is left to its own.
ClearClaimed(c) ==
    /\ pc[c] = "clear" /\ inc.claimed
    /\ inc' = [inc EXCEPT !.clear = @ \/ inc.st = "open"]
    /\ Return(c) /\ UNCHANGED holds

ClearOpen(c) ==
    /\ pc[c] = "clear" /\ ~ inc.claimed /\ inc.st = "open"
    /\ UNCHANGED <<due, opened>>
    /\ Claim(c, Recovery(inc), TRUE)

\* Mutant of ClearRecovered: a recovery once tried is done with.
ClearRecoveredDropped(c) ==
    /\ pc[c] = "clear" /\ ~ inc.claimed /\ inc.st # "open"
    /\ inc' = inc
    /\ Return(c) /\ UNCHANGED holds

\* No incident, or one that is over: a recovery still owed is sent again.
ClearRecovered(c) ==
    /\ pc[c] = "clear" /\ ~ inc.claimed /\ inc.st # "open"
    /\ IF inc.pending # {}
       THEN Claim(c, inc, FALSE) /\ UNCHANGED <<due, opened>>
       ELSE /\ inc' = NoIncident
            /\ holds' = [k \in Callers |-> FALSE]
            /\ Return(c)

-------------------------------------------------------------------------------
(* deliver *)

\* What a destination last heard, after the message of in.
Hears(h, in) ==
    IF in.st = "open"
    THEN [no |-> in.no, what |-> "alert", alert |-> IF in.no > h.alert THEN in.no ELSE h.alert]
    ELSE [h EXCEPT !.no = in.no, !.what = "over"]

\* One destination's attempts, all together: the message may have arrived though no
\* answer said so.
Send(c, d, arrived, ok) ==
    /\ pc[c] = "send" /\ d \in todo[c]
    /\ ok => arrived
    /\ IF ok THEN UNCHANGED <<missed, faults>>
             ELSE Fault /\ missed' = [missed EXCEPT ![c] = @ \cup {d}]
    /\ todo' = [todo EXCEPT ![c] = @ \ {d}]
    /\ heard' = IF arrived THEN [heard EXCEPT ![d] = Hears(@, job[c])] ELSE heard
    /\ UNCHANGED <<bad, inc, due, opened, pc, job, holds, mode, slow, flips>>

\* Still owed after c's send: whom it did not reach, and for an alert whom it has not
\* configured.
Owed(c) ==
    missed[c] \cup (IF job[c].st = "open" THEN job[c].pending \ Configured(c) ELSE {})

\* The record with those struck off whom c's send reached.
Struck(c) ==
    IF inc.st = "recovered" THEN [inc EXCEPT !.pending = Owed(c), !.claimed = FALSE]
    ELSE [inc EXCEPT !.to = @ \ (Muted(c) \ inc.told),
                     !.told = @ \cup ((inc.pending \ Muted(c)) \ Owed(c)),
                     !.pending = Owed(c), !.claimed = FALSE]

\* The result is recorded, unless the incident has moved on; a clear that came
\* meanwhile has c send the recovery next.
DeliverEnd(c) ==
    /\ pc[c] = "send" /\ todo[c] = {}
    /\ LET in      == Struck(c)
           recover == holds[c] /\ inc.clear /\ inc.st = "open"
           over    == holds[c] /\ inc.st = "recovered" /\ Owed(c) = {}
       IN  /\ inc' = IF recover THEN Claimed(Recovery(in))
                     ELSE IF over THEN NoIncident
                     ELSE IF holds[c] THEN in ELSE inc
           /\ holds' = [k \in Callers |-> IF recover THEN k = c ELSE holds[k] /\ k # c /\ ~ over]
           /\ IF recover
              THEN Take(c, Recovery(in)) /\ UNCHANGED pc
              ELSE Take(c, NoIncident) /\ pc' = [pc EXCEPT ![c] = "idle"]
    /\ UNCHANGED <<bad, due, opened, mode, heard, slow, flips, faults>>

-------------------------------------------------------------------------------
(* What happens to the callers *)

Flip ==
    /\ flips < MaxFlips /\ flips' = flips + 1
    /\ bad' = ~ bad
    /\ UNCHANGED <<inc, due, opened, pc, sendVars, holds, mode, heard, slow, faults>>

\* A run finds the condition as it is; it makes the call some time after.
Report(c) ==
    /\ pc[c] = "idle"
    /\ pc' = [pc EXCEPT ![c] = IF bad THEN "raise" ELSE "clear"]
    /\ UNCHANGED <<bad, inc, due, opened, sendVars, holds, mode, heard, slow, flips, faults>>

Die(c) ==
    /\ pc[c] # "idle"
    /\ Fault
    /\ Take(c, NoIncident)
    /\ pc' = [pc EXCEPT ![c] = "idle"]
    /\ holds' = [holds EXCEPT ![c] = FALSE]
    /\ UNCHANGED <<bad, inc, due, opened, mode, heard, slow, flips>>

\* claimLease passes: its sender is dead, or slower than claimLease allows for.
Lapse ==
    /\ inc.claimed
    /\ inc' = [inc EXCEPT !.claimed = FALSE]
    /\ IF \E c \in Callers : holds[c]
       THEN Fault /\ slow' = TRUE
       ELSE UNCHANGED <<slow, faults>>
    /\ UNCHANGED <<bad, due, opened, pc, sendVars, holds, mode, heard, flips>>

\* Repeat passes (never, with ALERT_REPEAT_INTERVAL 0).
RepeatDue ==
    /\ inc.st = "open" /\ ~ due
    /\ due' = TRUE
    /\ UNCHANGED <<bad, inc, opened, pc, sendVars, holds, mode, heard, slow, flips, faults>>

\* A caller's next process starts with another configuration.
Reload(c, d, m) ==
    /\ pc[c] = "idle" /\ d \in Dests \ Steady /\ mode[c][d] # m
    /\ Fault
    /\ mode' = [mode EXCEPT ![c][d] = m]
    /\ UNCHANGED <<bad, inc, due, opened, pc, sendVars, holds, heard, slow, flips>>

Raise(c) == RaiseClaimed(c) \/ RaiseNew(c) \/ RaiseRepeat(c) \/ RaiseAgain(c) \/ RaiseNewcomers(c)
Clear(c) == ClearClaimed(c) \/ ClearOpen(c) \/ ClearRecovered(c)
Deliver(c) ==
    \/ \E d \in Dests, arrived, ok \in BOOLEAN : Send(c, d, arrived, ok)
    \/ DeliverEnd(c)

Next ==
    \/ Flip \/ Lapse \/ RepeatDue
    \/ \E c \in Callers :
          \/ Report(c) \/ Raise(c) \/ Clear(c) \/ Deliver(c) \/ Die(c)
          \/ \E d \in Dests, m \in Modes : Reload(c, d, m)

Spec == Init /\ [][Next]_vars

\* Runs keep coming and report what they find, their calls end, and a dead sender's
\* claim runs out.  Nothing is assumed of Repeat.
Fairness ==
    /\ WF_vars(Lapse)
    /\ \A c \in Callers : WF_vars(Report(c) \/ Raise(c) \/ Clear(c) \/ Deliver(c))

FairSpec == Spec /\ Fairness

-------------------------------------------------------------------------------
(* Properties *)

\* The type invariant, with the shape of a record that is no longer an open incident's.
TypeOK ==
    /\ inc.st = "none" => inc = NoIncident
    /\ inc.st = "recovered" => inc.told = {} /\ ~ inc.clear
    /\ {bad, due, slow} \subseteq BOOLEAN
    /\ inc \in Incident /\ job \in [Callers -> Incident] /\ opened \in Nat
    /\ pc \in [Callers -> {"idle", "raise", "clear", "send"}]
    /\ todo \in [Callers -> SUBSET Dests] /\ missed \in [Callers -> SUBSET Dests]
    /\ holds \in [Callers -> BOOLEAN]
    /\ mode \in [Callers -> [Dests -> Modes]]
    /\ heard \in [Dests -> [no : Nat, what : {"none", "alert", "over"}, alert : Nat]]
    /\ flips \in 0..MaxFlips /\ faults \in 0..MaxFaults

\* Clear: "An alert still in flight must not arrive after its recovery", nor one of an
\* earlier incident after a later one's, while no send outlasts its claim.
InOrder ==
    [][~ slow => \A d \in Dests :
          /\ heard[d].no <= heard'[d].no
          /\ heard[d].what = "over" /\ heard'[d].what = "alert" => heard[d].no < heard'[d].no]_vars

\* recovery: "one it never reached never heard of the incident, so is not told it is
\* over", with the same premise.
OverOnlyToTold ==
    [][~ slow => \A d \in Dests : heard'[d] # heard[d] /\ heard'[d].what = "over"
          => heard'[d].no = heard[d].no]_vars

\* "The destinations a notification is owed to are recorded before it is sent and
\* struck off only once it arrives": one that has heard of the open incident is on record
\* as told, or will be sent it again, wherever a sender dies.
HeardOwed ==
    \A d \in Steady : inc.st = "open" /\ heard[d].alert = inc.no
        => d \in inc.told \cup inc.pending

\* "Delivery is at least once": a condition that lasts is told to every destination
\* through failed sends, deaths, late clears and slow sends, without a repeat.
AlertArrives ==
    <>[](bad => inc.st = "open" /\ \A d \in Steady : heard[d].alert = inc.no)

\* A condition that is over leaves no incident open and no recovery owed.
Settles == <>[](~ bad => inc = NoIncident)

\* ADR 36: "its recovery notice goes wherever it went"; Clear: "notifying its recovery
\* wherever the incident went".  With no incident left, no destination's last word is the
\* alert, though no send outlasted its claim.
RecoveryReaches ==
    inc.st = "none" /\ ~ slow => \A d \in Steady : heard[d].what # "alert"

===============================================================================
