--------------------------- MODULE IncidentsProofs ---------------------------
(***************************************************************************)
(* What an incident's record and its messages keep, for any callers and    *)
(* destinations, however often the condition changes, sends fail and       *)
(* callers die.                                                            *)
(*                                                                         *)
(* Two things carry it.  Whoever an alert may yet reach is on the record   *)
(* of its incident, also when a claim has run out and others have sent     *)
(* since (Meaning).  And while no send has outlasted its claim, there is   *)
(* one sender, of what the record says (OneSender), so that what the       *)
(* record says of those told is true (Reached).                            *)
(***************************************************************************)
EXTENDS Incidents, TLAPS

\* Whom c's send goes to.
Meant(c) == (job[c].pending \cap Configured(c)) \ Muted(c)

\* The destinations that count receive everything from everyone.
SteadyOn == \A c \in Callers, d \in Steady : mode[c][d] = "on"

\* Incidents are numbered in their order, and nobody sends or hears of one to come.
Numbered ==
    /\ inc.st # "none" => inc.no = opened /\ opened > 0
    /\ \A c \in Callers : job[c].no <= opened
    /\ \A d \in Dests : heard[d].no <= opened /\ heard[d].alert <= opened

\* A caller has a job while it sends, and only that; the record is its own only then.
SendOK(c) ==
    /\ todo[c] \subseteq Meant(c) /\ missed[c] \subseteq Meant(c)
    /\ pc[c] = "send" => job[c].st # "none"
    /\ pc[c] # "send" => job[c] = NoIncident /\ ~ holds[c]
    /\ holds[c] => inc.st # "none"

Sending == \A c \in Callers : SendOK(c)

\* Whoever an alert of the open incident may yet reach is on its record.
Meaning ==
    \A c \in Callers :
        inc.st = "open" /\ job[c].st = "open" /\ job[c].no = inc.no =>
            Steady \cap job[c].pending \subseteq inc.told \cup inc.pending

\* While no send has outlasted its claim, one caller at a time sends, and what it sends
\* is what the record says.
OneSender ==
    ~ slow => \A c \in Callers :
        pc[c] = "send" =>
            /\ holds[c] /\ inc.claimed
            /\ job[c].st = inc.st /\ job[c].no = inc.no /\ job[c].pending = inc.pending
            /\ \A k \in Callers : pc[k] = "send" => k = c

\* And the record says whom the alert has reached.
Reached ==
    ~ slow =>
        /\ inc.st = "open" => \A d \in inc.told : heard[d].no = opened
        /\ inc.st = "open" => \A d \in Dests : heard[d].what = "over" => heard[d].no # opened
        /\ inc.st = "recovered" => \A d \in inc.pending : heard[d].no = opened
        /\ \A c \in Callers : pc[c] = "send" =>
              \A d \in Meant(c) \ (todo[c] \cup missed[c]) : heard[d].no = opened

IInv ==
    /\ TypeOK /\ SteadyOn /\ Numbered /\ Sending
    /\ Meaning /\ HeardOwed /\ OneSender /\ Reached

-------------------------------------------------------------------------------
(* What the steps do, caller by caller and field by field *)

\* What is a caller's own.
Same(k) == /\ pc'[k] = pc[k] /\ job'[k] = job[k]
           /\ todo'[k] = todo[k] /\ missed'[k] = missed[k]

\* The types of what the steps change.
Typed == /\ pc' \in [Callers -> {"idle", "raise", "clear", "send"}]
         /\ job' \in [Callers -> Incident]
         /\ todo' \in [Callers -> SUBSET Dests] /\ missed' \in [Callers -> SUBSET Dests]
         /\ holds' \in [Callers -> BOOLEAN]
         /\ inc' \in Incident

\* c begins to send in, claimed.
Begins(c, in) ==
    /\ pc'[c] = "send" /\ holds'[c] /\ job'[c] = in
    /\ todo'[c] = (in.pending \cap Configured(c)) \ Muted(c) /\ missed'[c] = {}
    /\ inc'.st = in.st /\ inc'.no = in.no /\ inc'.to = in.to /\ inc'.told = in.told
    /\ inc'.pending = in.pending /\ inc'.clear = in.clear /\ inc'.claimed

\* c sends nothing any more.
Ends(c) ==
    /\ pc'[c] = "idle" /\ ~ holds'[c] /\ job'[c] = NoIncident
    /\ todo'[c] = {} /\ missed'[c] = {}

\* Every step but these leaves them alone.
Rest == UNCHANGED <<bad, mode, heard, slow, flips, faults>>

\* Taking an incident is each caller's own affair.
LEMMA Taken ==
    ASSUME TypeOK, NEW c \in Callers, NEW in \in Incident, Take(c, in)
    PROVE  /\ job' \in [Callers -> Incident]
           /\ todo' \in [Callers -> SUBSET Dests] /\ missed' \in [Callers -> SUBSET Dests]
           /\ job'[c] = in /\ todo'[c] = (in.pending \cap Configured(c)) \ Muted(c)
           /\ missed'[c] = {}
           /\ \A k \in Callers \ {c} :
                 job'[k] = job[k] /\ todo'[k] = todo[k] /\ missed'[k] = missed[k]
<1>1. in.pending \subseteq Dests
  BY DEF Incident
<1>2. job' \in [Callers -> Incident] /\ job'[c] = in /\ \A k \in Callers \ {c} : job'[k] = job[k]
  BY DEF TypeOK, Take
<1>3. /\ todo' \in [Callers -> SUBSET Dests]
      /\ todo'[c] = (in.pending \cap Configured(c)) \ Muted(c)
      /\ \A k \in Callers \ {c} : todo'[k] = todo[k]
  BY <1>1 DEF TypeOK, Take
<1>4. /\ missed' \in [Callers -> SUBSET Dests] /\ missed'[c] = {}
      /\ \A k \in Callers \ {c} : missed'[k] = missed[k]
  BY DEF TypeOK, Take
<1>5. QED
  BY <1>2, <1>3, <1>4

\* A claim.
LEMMA Began ==
    ASSUME TypeOK, NEW c \in Callers, NEW in \in Incident, NEW fresh \in BOOLEAN,
           Claim(c, in, fresh)
    PROVE  /\ Typed /\ Begins(c, in) /\ Rest
           /\ \A k \in Callers \ {c} : Same(k) /\ (holds'[k] => holds[k] /\ ~ fresh)
<1>1. inc' \in Incident /\ inc' = [in EXCEPT !.claimed = TRUE]
  BY DEF Claim, Claimed, Incident
<1>2. /\ inc'.st = in.st /\ inc'.no = in.no /\ inc'.to = in.to /\ inc'.told = in.told
      /\ inc'.pending = in.pending /\ inc'.clear = in.clear /\ inc'.claimed
  BY <1>1 DEF Incident
<1>3. /\ pc' \in [Callers -> {"idle", "raise", "clear", "send"}] /\ pc'[c] = "send"
      /\ \A k \in Callers \ {c} : pc'[k] = pc[k]
  BY DEF Claim, TypeOK
<1>4. /\ holds' \in [Callers -> BOOLEAN] /\ holds'[c]
      /\ \A k \in Callers \ {c} : holds'[k] => holds[k] /\ ~ fresh
  BY DEF Claim, TypeOK
<1>5. QED
  BY <1>1, <1>2, <1>3, <1>4, Taken DEF Claim, Typed, Begins, Same, Rest

\* What a call may claim: a new incident, the one there is, or the end of it.
NewOne(in) == /\ inc.st # "open" /\ opened' = opened + 1
              /\ in.st = "open" /\ in.no = opened + 1 /\ in.told = {} /\ ~ in.clear
ThisOne(in) == /\ inc.st # "none" /\ opened' = opened
               /\ in.st = inc.st /\ in.no = inc.no /\ in.told = inc.told /\ in.clear = inc.clear
               /\ inc.st = "open" => Steady \cap inc.pending \subseteq in.pending \cup in.told
               /\ inc.st = "recovered" => in.pending = inc.pending
OverOne(in) == /\ inc.st = "open" /\ opened' = opened
               /\ in.st = "recovered" /\ in.no = inc.no /\ in.pending = inc.told
               /\ in.told = {} /\ ~ in.clear

\* A call that claims the record and begins to send.
CallClaims(c, in) ==
    /\ ~ inc.claimed
    /\ \E fresh \in BOOLEAN : Claim(c, in, fresh)
    /\ NewOne(in) \/ ThisOne(in) \/ OverOne(in)

\* A call that sends nothing leaves the record, or a note in it, or forgets what is over.
CallReturns(c) ==
    /\ Typed /\ Rest /\ pc'[c] = "idle" /\ pc[c] # "send" /\ opened' = opened
    /\ job' = job /\ todo' = todo /\ missed' = missed
    /\ \A k \in Callers \ {c} : pc'[k] = pc[k]
    /\ \/ /\ holds' = holds
          /\ inc'.st = inc.st /\ inc'.no = inc.no /\ inc'.told = inc.told
          /\ inc'.pending = inc.pending /\ inc'.claimed = inc.claimed
          /\ inc'.clear = inc.clear \/ inc.st = "open"
          /\ inc.st # "open" => inc' = inc
       \/ /\ inc' = NoIncident /\ ~ inc.claimed /\ inc.st # "open"
          /\ \A k \in Callers : ~ holds'[k]

\* No incident, and the recovery of one, are records.
LEMMA NoneTyped == NoIncident \in Incident
BY DEF NoIncident, Incident

\* A recovery is owed to those told.
LEMMA RecoveryTyped ==
    ASSUME NEW in \in Incident
    PROVE  /\ Recovery(in) \in Incident /\ Recovery(in).st = "recovered"
           /\ Recovery(in).no = in.no /\ Recovery(in).pending = in.told
           /\ Recovery(in).told = {} /\ ~ Recovery(in).clear
BY DEF Recovery, NoIncident, Incident

\* A call that returns at once.
LEMMA Returned ==
    ASSUME TypeOK, NEW c \in Callers, Return(c), pc[c] # "send", inc' \in Incident,
           holds' \in [Callers -> BOOLEAN]
    PROVE  /\ Typed /\ Rest /\ pc'[c] = "idle" /\ pc[c] # "send" /\ opened' = opened
           /\ job' = job /\ todo' = todo /\ missed' = missed
           /\ \A k \in Callers \ {c} : pc'[k] = pc[k]
BY DEF TypeOK, Return, sendVars, Typed, Rest

\* Raise and Clear, case by case: each claims or returns.
LEMMA Called ==
    ASSUME TypeOK, SteadyOn, NEW c \in Callers, Raise(c) \/ Clear(c)
    PROVE  (\E in \in Incident : CallClaims(c, in)) \/ CallReturns(c)
<1>1. CASE RaiseClaimed(c)
  BY <1>1, Returned DEF RaiseClaimed, CallReturns, TypeOK
<1>2. CASE RaiseNew(c)
  <2> DEFINE in == [NoIncident EXCEPT !.st = "open", !.no = opened + 1,
                                      !.to = Receiving(c), !.pending = Receiving(c)]
  <2>0. opened + 1 \in Nat /\ Receiving(c) \in SUBSET Dests
    BY DEF TypeOK, Receiving
  <2>1. in \in Incident /\ in.st = "open" /\ in.no = opened + 1 /\ in.told = {} /\ ~ in.clear
    BY <2>0 DEF NoIncident, Incident
  <2>2. Claim(c, in, TRUE) /\ opened' = opened + 1 /\ inc.st # "open" /\ ~ inc.claimed
    BY <1>2 DEF RaiseNew
  <2> HIDE DEF in
  <2>3. QED
    BY <2>1, <2>2 DEF CallClaims, NewOne
<1>3. CASE RaiseRepeat(c)
  <2> DEFINE in == [inc EXCEPT !.to = @ \cup Receiving(c), !.pending = Receiving(c)]
  <2>1. /\ in \in Incident /\ in.st = inc.st /\ in.no = inc.no /\ in.told = inc.told
        /\ in.clear = inc.clear /\ in.pending = Receiving(c)
    BY DEF Incident, TypeOK, Receiving
  <2>2. Steady \subseteq Receiving(c)
    BY IncidentsAssumption DEF SteadyOn, Receiving
  <2>3. Claim(c, in, TRUE) /\ opened' = opened /\ inc.st = "open" /\ ~ inc.claimed
    BY <1>3 DEF RaiseRepeat
  <2> HIDE DEF in
  <2>4. QED
    BY <2>1, <2>2, <2>3 DEF CallClaims, ThisOne
<1>4. CASE RaiseAgain(c)
  <2>1. /\ Claim(c, inc, FALSE) /\ opened' = opened
        /\ inc.st = "open" /\ ~ inc.claimed /\ inc \in Incident
    BY <1>4 DEF RaiseAgain, TypeOK
  <2>2. QED
    BY <2>1 DEF CallClaims, ThisOne
<1>5. CASE RaiseNewcomers(c)
  <2> DEFINE added == Receiving(c) \ inc.to
  <2> DEFINE in == [inc EXCEPT !.to = @ \cup added, !.pending = added]
  <2>0. inc.st = "open" /\ ~ inc.claimed /\ inc.pending = {} /\ inc \in Incident /\ pc[c] = "raise"
    BY <1>5 DEF RaiseNewcomers, TypeOK
  <2>1. CASE added # {}
    <3>1. Claim(c, in, FALSE) /\ opened' = opened
      BY <1>5, <2>1 DEF RaiseNewcomers
    <3>2. /\ in \in Incident /\ in.st = inc.st /\ in.no = inc.no /\ in.told = inc.told
          /\ in.clear = inc.clear
      BY <2>0 DEF Incident, Receiving
    <3> HIDE DEF in, added
    <3>3. QED
      BY <2>0, <3>1, <3>2 DEF CallClaims, ThisOne
  <2>2. CASE added = {}
    <3>1. Return(c) /\ inc' = inc /\ holds' = holds
      BY <1>5, <2>2 DEF RaiseNewcomers
    <3>2. QED
      BY <2>0, <3>1, Returned DEF CallReturns, TypeOK
  <2>3. QED
    BY <2>1, <2>2
<1>6. CASE ClearClaimed(c)
  <2>1. /\ inc' \in Incident /\ inc'.st = inc.st /\ inc'.no = inc.no /\ inc'.told = inc.told
        /\ inc'.pending = inc.pending /\ inc'.claimed = inc.claimed
        /\ inc'.clear = inc.clear \/ inc.st = "open"
        /\ inc.st # "open" => inc' = inc
    BY <1>6 DEF ClearClaimed, TypeOK, Incident
  <2>2. QED
    BY <1>6, <2>1, Returned DEF ClearClaimed, CallReturns, TypeOK
<1>7. CASE ClearOpen(c)
  <2>1. /\ Claim(c, Recovery(inc), TRUE) /\ opened' = opened
        /\ inc.st = "open" /\ ~ inc.claimed /\ inc \in Incident
    BY <1>7 DEF ClearOpen, TypeOK
  <2>2. QED
    BY <2>1, RecoveryTyped DEF CallClaims, OverOne
<1>8. CASE ClearRecovered(c)
  <2>0. inc.st # "open" /\ ~ inc.claimed /\ inc \in Incident /\ pc[c] = "clear"
    BY <1>8 DEF ClearRecovered, TypeOK
  <2>1. CASE inc.pending # {}
    <3>1. Claim(c, inc, FALSE) /\ opened' = opened
      BY <1>8, <2>1 DEF ClearRecovered
    <3>2. inc.st # "none"
      BY <2>1 DEF TypeOK, NoIncident
    <3>3. QED
      BY <2>0, <3>1, <3>2 DEF CallClaims, ThisOne
  <2>2. CASE inc.pending = {}
    <3>1. Return(c) /\ inc' = NoIncident /\ holds' = [k \in Callers |-> FALSE]
      BY <1>8, <2>2 DEF ClearRecovered
    <3>2. QED
      BY <2>0, <3>1, NoneTyped, Returned DEF CallReturns
  <2>3. QED
    BY <2>1, <2>2
<1>9. QED
  BY <1>1, <1>2, <1>3, <1>4, <1>5, <1>6, <1>7, <1>8 DEF Raise, Clear

\* A send's end leaves the record to the recovery that c sends next, with no incident, with
\* what is still owed, or as it is.
Recovers(c) == holds[c] /\ inc.clear /\ inc.st = "open"
Settled(c)  == holds[c] /\ inc.st = "recovered" /\ Owed(c) = {}

\* It recovers: the recovery is owed to those told, with those it has just reached.
SendRecovers(c) ==
    /\ Recovers(c)
    /\ \E in \in Incident : /\ Begins(c, in) /\ in.st = "recovered" /\ in.no = inc.no
                            /\ in.told = {} /\ ~ in.clear
                            /\ in.pending = inc.told \cup ((inc.pending \ Muted(c)) \ Owed(c))
    /\ \A k \in Callers \ {c} : ~ holds'[k]

\* It does not, and c is done.
SendEnds(c) ==
    /\ Ends(c)
    /\ \A k \in Callers \ {c} : holds'[k] => holds[k]
    /\ \/ inc' = NoIncident /\ \A k \in Callers : ~ holds'[k]
       \/ inc' = inc /\ ~ holds[c]
       \/ /\ holds[c] /\ inc'.st = inc.st /\ inc'.no = inc.no /\ inc'.pending = Owed(c)
          /\ ~ inc'.claimed /\ inc'.clear = inc.clear
          /\ inc'.told = IF inc.st = "recovered" THEN inc.told
                         ELSE inc.told \cup ((inc.pending \ Muted(c)) \ Owed(c))
          /\ inc.st # "none"

\* What a send leaves owed is owed to destinations.
LEMMA OwedTyped ==
    ASSUME TypeOK, NEW c \in Callers
    PROVE  Owed(c) \in SUBSET Dests
BY DEF TypeOK, Owed, Incident

\* The record after a send: those it reached are told, the others owed.
LEMMA StruckTyped ==
    ASSUME TypeOK, NEW c \in Callers
    PROVE  /\ Struck(c) \in Incident /\ Struck(c).st = inc.st /\ Struck(c).no = inc.no
           /\ Struck(c).pending = Owed(c) /\ ~ Struck(c).claimed /\ Struck(c).clear = inc.clear
           /\ Struck(c).told = IF inc.st = "recovered" THEN inc.told
                               ELSE inc.told \cup ((inc.pending \ Muted(c)) \ Owed(c))
<1>1. inc \in Incident
  BY DEF TypeOK
<1>2. QED
  BY <1>1, OwedTyped DEF Struck, Incident

\* deliver's end, case by case.
LEMMA SendEnded ==
    ASSUME TypeOK, Sending, NEW c \in Callers, DeliverEnd(c)
    PROVE  /\ Typed /\ Rest /\ opened' = opened /\ pc[c] = "send" /\ todo[c] = {}
           /\ \A k \in Callers \ {c} : Same(k)
           /\ SendRecovers(c) \/ SendEnds(c)
<1>0. /\ pc[c] = "send" /\ todo[c] = {} /\ opened' = opened /\ due' = due /\ Rest
      /\ inc \in Incident /\ holds \in [Callers -> BOOLEAN]
      /\ pc \in [Callers -> {"idle", "raise", "clear", "send"}]
  BY DEF DeliverEnd, Rest, TypeOK
<1>1. CASE Recovers(c)
  <2> DEFINE in == Recovery(Struck(c))
  <2>1. /\ in \in Incident /\ in.st = "recovered" /\ in.no = inc.no /\ in.told = {} /\ ~ in.clear
        /\ in.pending = inc.told \cup ((inc.pending \ Muted(c)) \ Owed(c))
    BY <1>1, StruckTyped, RecoveryTyped DEF Recovers
  <2>2. /\ inc' = Claimed(in) /\ Take(c, in) /\ pc' = pc
        /\ holds' = [k \in Callers |-> k = c]
    BY <1>1 DEF DeliverEnd, Recovers
  <2> HIDE DEF in
  <2>3. /\ inc' \in Incident /\ inc'.st = in.st /\ inc'.no = in.no /\ inc'.to = in.to
        /\ inc'.told = in.told /\ inc'.pending = in.pending /\ inc'.clear = in.clear /\ inc'.claimed
    BY <2>1, <2>2 DEF Claimed, Incident
  <2>4. holds' \in [Callers -> BOOLEAN] /\ holds'[c] /\ \A k \in Callers \ {c} : ~ holds'[k]
    BY <2>2
  <2>5. Begins(c, in) /\ Typed /\ \A k \in Callers \ {c} : Same(k)
    BY <1>0, <2>1, <2>2, <2>3, <2>4, Taken DEF Begins, Typed, Same
  <2>6. QED
    BY <1>0, <1>1, <2>1, <2>4, <2>5 DEF SendRecovers
<1>2. CASE ~ Recovers(c)
  <2>1. Take(c, NoIncident) /\ pc' = [pc EXCEPT ![c] = "idle"]
    BY <1>2 DEF DeliverEnd, Recovers
  <2>2. holds' = [k \in Callers |-> holds[k] /\ k # c /\ ~ Settled(c)]
    BY <1>2 DEF DeliverEnd, Recovers, Settled
  <2>3. inc' = IF Settled(c) THEN NoIncident ELSE IF holds[c] THEN Struck(c) ELSE inc
    BY <1>2 DEF DeliverEnd, Recovers, Settled
  <2>4. inc' \in Incident
    BY <1>0, <2>3, NoneTyped, StruckTyped
  <2>5. holds' \in [Callers -> BOOLEAN] /\ ~ holds'[c] /\ \A k \in Callers \ {c} : holds'[k] => holds[k]
    BY <1>0, <2>2
  <2>6. /\ NoIncident.pending = {}
        /\ job'[c] = NoIncident /\ todo'[c] = {} /\ missed'[c] = {} /\ pc'[c] = "idle"
    BY <1>0, <2>1, NoneTyped, Taken DEF NoIncident
  <2>7. Ends(c) /\ Typed /\ \A k \in Callers \ {c} : Same(k)
    BY <1>0, <2>1, <2>4, <2>5, <2>6, NoneTyped, Taken DEF Ends, Typed, Same
  <2>8. CASE Settled(c)
    BY <1>0, <2>2, <2>3, <2>5, <2>7, <2>8 DEF SendEnds
  <2>9. CASE ~ Settled(c) /\ holds[c]
    <3>1. inc' = Struck(c)
      BY <2>3, <2>9
    <3>2. inc.st # "none"
      BY <2>9 DEF Sending, SendOK
    <3>3. QED
      BY <1>0, <2>5, <2>7, <2>9, <3>1, <3>2, StruckTyped DEF SendEnds
  <2>10. CASE ~ holds[c]
    BY <1>0, <2>3, <2>5, <2>7, <2>10 DEF SendEnds, Settled
  <2>11. QED
    BY <2>8, <2>9, <2>10
<1>3. QED
  BY <1>1, <1>2

\* One destination is sent to; the others hear nothing.
Sends(c, d) ==
    /\ Typed /\ UNCHANGED <<bad, inc, due, opened, pc, job, holds, mode, slow, flips>>
    /\ pc[c] = "send" /\ d \in todo[c]
    /\ todo'[c] = todo[c] \ {d} /\ missed'[c] \in {missed[c], missed[c] \cup {d}}
    /\ \A k \in Callers \ {c} : Same(k)
    /\ d \in missed'[c] \/ heard'[d] = Hears(heard[d], job[c])
    /\ heard'[d] \in {heard[d], Hears(heard[d], job[c])}
    /\ \A e \in Dests \ {d} : heard'[e] = heard[e]
    /\ heard' \in [Dests -> [no : Nat, what : {"none", "alert", "over"}, alert : Nat]]
    /\ faults' \in {faults, faults + 1} /\ faults' \in 0..MaxFaults

\* Whether it answered or not.
LEMMA Sent ==
    ASSUME TypeOK, NEW c \in Callers, NEW d \in Dests, NEW arrived \in BOOLEAN, NEW ok \in BOOLEAN,
           Send(c, d, arrived, ok)
    PROVE  Sends(c, d)
<1>1. /\ heard' \in [Dests -> [no : Nat, what : {"none", "alert", "over"}, alert : Nat]]
      /\ heard'[d] \in {heard[d], Hears(heard[d], job[c])}
      /\ arrived => heard'[d] = Hears(heard[d], job[c])
      /\ \A e \in Dests \ {d} : heard'[e] = heard[e]
  <2>1. Hears(heard[d], job[c]) \in [no : Nat, what : {"none", "alert", "over"}, alert : Nat]
    BY ZenonT(40) DEF Hears, TypeOK, Incident
  <2>2. heard \in [Dests -> [no : Nat, what : {"none", "alert", "over"}, alert : Nat]]
    BY DEF TypeOK
  <2>3. heard' = IF arrived THEN [heard EXCEPT ![d] = Hears(@, job[c])] ELSE heard
    BY DEF Send
  <2>4. QED
    BY <2>1, <2>2, <2>3
<1>2. /\ missed' \in [Callers -> SUBSET Dests] /\ missed'[c] \in {missed[c], missed[c] \cup {d}}
      /\ ~ ok => d \in missed'[c]
      /\ \A k \in Callers \ {c} : missed'[k] = missed[k]
  BY DEF Send, TypeOK
<1>3. /\ todo' \in [Callers -> SUBSET Dests] /\ todo'[c] = todo[c] \ {d}
      /\ \A k \in Callers \ {c} : todo'[k] = todo[k]
  BY DEF Send, TypeOK
<1>4. faults' \in {faults, faults + 1} /\ faults' \in 0..MaxFaults
  BY IncidentsAssumption DEF Send, Fault, TypeOK
<1>5. QED
  BY <1>1, <1>2, <1>3, <1>4 DEF Send, Sends, Typed, Same, TypeOK

\* The steps that touch neither the record nor anybody's send.
Aside ==
    /\ inc' = inc /\ opened' = opened /\ holds' = holds /\ heard' = heard /\ slow' = slow
    /\ job' = job /\ todo' = todo /\ missed' = missed
    /\ \A c \in Callers : pc'[c] = "send" <=> pc[c] = "send"
    /\ \A c \in Callers : pc[c] = "send" => mode'[c] = mode[c]
    /\ \A c \in Callers, d \in Steady : mode'[c][d] = mode[c][d]

\* A caller dies; the record stays claimed.
Dies(c) ==
    /\ Ends(c) /\ inc' = inc /\ opened' = opened /\ mode' = mode /\ heard' = heard /\ slow' = slow
    /\ \A k \in Callers \ {c} : Same(k) /\ holds'[k] = holds[k]

\* Its job dies with it.
LEMMA Died ==
    ASSUME TypeOK, NEW c \in Callers, Die(c)
    PROVE  Dies(c) /\ Typed /\ UNCHANGED <<bad, due, flips>> /\ faults' \in 0..MaxFaults
<1>1. NoIncident.pending = {}
  BY DEF NoIncident
<1>2. pc' = [pc EXCEPT ![c] = "idle"] /\ holds' = [holds EXCEPT ![c] = FALSE] /\ Take(c, NoIncident)
      /\ faults' \in 0..MaxFaults /\ UNCHANGED <<bad, inc, due, opened, mode, heard, slow, flips>>
  BY IncidentsAssumption DEF Die, Fault, TypeOK
<1>3. pc' \in [Callers -> {"idle", "raise", "clear", "send"}] /\ pc'[c] = "idle"
      /\ \A k \in Callers \ {c} : pc'[k] = pc[k]
  BY <1>2 DEF TypeOK
<1>4. holds' \in [Callers -> BOOLEAN] /\ ~ holds'[c] /\ \A k \in Callers \ {c} : holds'[k] = holds[k]
  BY <1>2 DEF TypeOK
<1>5. inc' \in Incident
  BY <1>2 DEF TypeOK
<1>6. /\ job' \in [Callers -> Incident]
      /\ todo' \in [Callers -> SUBSET Dests] /\ missed' \in [Callers -> SUBSET Dests]
      /\ job'[c] = NoIncident /\ todo'[c] = {} /\ missed'[c] = {}
      /\ \A k \in Callers \ {c} :
            job'[k] = job[k] /\ todo'[k] = todo[k] /\ missed'[k] = missed[k]
  BY <1>1, <1>2, NoneTyped, Taken
<1>7. QED
  BY <1>2, <1>3, <1>4, <1>5, <1>6 DEF Dies, Ends, Same, Typed

\* The condition, the clock, the reports and the configurations.
LEMMA Besides ==
    ASSUME TypeOK, Flip \/ RepeatDue \/ UNCHANGED vars
                   \/ \E c \in Callers : Report(c) \/ \E d \in Dests, m \in Modes : Reload(c, d, m)
    PROVE  Aside /\ TypeOK'
<1>1. CASE Flip \/ RepeatDue \/ UNCHANGED vars
  <2>1. Aside
    BY <1>1 DEF Flip, RepeatDue, Aside, vars, sendVars
  <2>2. /\ bad' \in BOOLEAN /\ due' \in BOOLEAN /\ flips' \in 0..MaxFlips
        /\ faults' = faults /\ mode' = mode /\ pc' = pc
    <3>1. CASE Flip
      BY <3>1, IncidentsAssumption DEF Flip, TypeOK
    <3>2. CASE RepeatDue \/ UNCHANGED vars
      BY <1>1, <3>2 DEF RepeatDue, vars, TypeOK
    <3>3. QED
      BY <1>1, <3>1, <3>2
  <2>3. QED
    BY <2>1, <2>2 DEF TypeOK, Aside
<1>2. ASSUME NEW c \in Callers, Report(c) PROVE Aside /\ TypeOK'
  <2>1. pc' \in [Callers -> {"idle", "raise", "clear", "send"}]
        /\ \A k \in Callers : pc'[k] = "send" <=> pc[k] = "send"
    BY <1>2 DEF Report, TypeOK
  <2>2. UNCHANGED <<bad, inc, due, opened, sendVars, holds, mode, heard, slow, flips, faults>>
    BY <1>2 DEF Report
  <2>3. QED
    BY <2>1, <2>2 DEF Aside, TypeOK, sendVars
<1>3. ASSUME NEW c \in Callers, NEW d \in Dests, NEW m \in Modes, Reload(c, d, m)
      PROVE  Aside /\ TypeOK'
  <2>1. /\ mode' \in [Callers -> [Dests -> Modes]]
        /\ \A k \in Callers \ {c} : mode'[k] = mode[k]
        /\ \A e \in Dests \ {d} : mode'[c][e] = mode[c][e]
        /\ d \notin Steady /\ pc[c] = "idle"
    BY <1>3 DEF Reload, TypeOK
  <2>2. UNCHANGED <<bad, inc, due, opened, pc, sendVars, holds, heard, slow, flips>>
    BY <1>3 DEF Reload
  <2>3. faults' \in 0..MaxFaults
    BY <1>3, IncidentsAssumption DEF Reload, Fault, TypeOK
  <2>4. \A k \in Callers, e \in Steady : mode'[k][e] = mode[k][e]
    BY <2>1, IncidentsAssumption
  <2>5. QED
    BY <2>1, <2>2, <2>3, <2>4 DEF Aside, TypeOK, sendVars
<1>4. QED
  BY <1>1, <1>2, <1>3

\* A claim runs out, and slow is set if somebody still sends under it.
Lapses ==
    /\ inc.claimed /\ ~ inc'.claimed /\ inc' \in Incident
    /\ inc'.st = inc.st /\ inc'.no = inc.no /\ inc'.to = inc.to /\ inc'.told = inc.told
    /\ inc'.pending = inc.pending /\ inc'.clear = inc.clear
    /\ slow' = (slow \/ \E c \in Callers : holds[c])
    /\ UNCHANGED <<bad, due, opened, pc, sendVars, holds, mode, heard, flips>>

\* A send ends.
Delivers(c) ==
    /\ Typed /\ Rest /\ opened' = opened /\ pc[c] = "send" /\ todo[c] = {}
    /\ \A k \in Callers \ {c} : Same(k)
    /\ SendRecovers(c) \/ SendEnds(c)

\* A call claims the record.
Claims(c, in) ==
    /\ Typed /\ Begins(c, in) /\ Rest /\ ~ inc.claimed
    /\ NewOne(in) \/ ThisOne(in) \/ OverOne(in)
    /\ \A k \in Callers \ {c} : Same(k) /\ (holds'[k] => holds[k])

\* claimLease passes.
LEMMA Lapsed ==
    ASSUME TypeOK, Lapse
    PROVE  Lapses
BY DEF Lapse, Lapses, Fault, TypeOK, Incident

\* What a call comes to.
LEMMA CallStep ==
    ASSUME TypeOK, SteadyOn, NEW c \in Callers, Raise(c) \/ Clear(c)
    PROVE  (\E in \in Incident : Claims(c, in)) \/ CallReturns(c)
<1>1. CASE CallReturns(c)
  BY <1>1
<1>2. ASSUME NEW in \in Incident, CallClaims(c, in) PROVE Claims(c, in)
  <2>1. PICK fresh \in BOOLEAN : Claim(c, in, fresh)
    BY <1>2 DEF CallClaims
  <2>2. /\ Typed /\ Begins(c, in) /\ Rest
        /\ \A k \in Callers \ {c} : Same(k) /\ (holds'[k] => holds[k] /\ ~ fresh)
    BY <2>1, Began
  <2>3. QED
    BY <1>2, <2>2 DEF CallClaims, Claims
<1>3. QED
  BY <1>1, <1>2, Called

\* Every step is one of these.
LEMMA Steps ==
    ASSUME TypeOK, SteadyOn, Sending, [Next]_vars
    PROVE  \/ Aside
           \/ Lapses
           \/ \E c \in Callers : \/ \E in \in Incident : Claims(c, in)
                                 \/ CallReturns(c)
                                 \/ \E d \in Dests : Sends(c, d)
                                 \/ Delivers(c)
                                 \/ Dies(c)
<1>1. CASE Lapse
  BY <1>1, Lapsed
<1>2. ASSUME NEW c \in Callers, Raise(c) \/ Clear(c)
      PROVE  (\E in \in Incident : Claims(c, in)) \/ CallReturns(c)
  BY <1>2, CallStep
<1>3. ASSUME NEW c \in Callers, DeliverEnd(c) PROVE Delivers(c)
  BY <1>3, SendEnded DEF Delivers
<1>4. ASSUME NEW c \in Callers, NEW d \in Dests, NEW arrived \in BOOLEAN, NEW ok \in BOOLEAN,
             Send(c, d, arrived, ok)
      PROVE  Sends(c, d)
  BY <1>4, Sent
<1>5. QED
  BY <1>1, <1>2, <1>3, <1>4, Died, Besides DEF Next, Deliver

\* Repeat has passed or has not.
LEMMA DueKept ==
    ASSUME TypeOK, [Next]_vars
    PROVE  due' \in BOOLEAN
<1>1. CASE Flip \/ Lapse \/ RepeatDue \/ UNCHANGED vars
  BY <1>1 DEF Flip, Lapse, RepeatDue, vars, TypeOK
<1>2. ASSUME NEW c \in Callers, Raise(c) PROVE due' \in BOOLEAN
  BY <1>2 DEF Raise, RaiseClaimed, RaiseNew, RaiseRepeat, RaiseAgain, RaiseNewcomers, Return, TypeOK
<1>3. ASSUME NEW c \in Callers, Clear(c) PROVE due' \in BOOLEAN
  BY <1>3 DEF Clear, ClearClaimed, ClearOpen, ClearRecovered, Return, TypeOK
<1>4. ASSUME NEW c \in Callers, Report(c) \/ Deliver(c) \/ Die(c)
                                \/ \E d \in Dests, m \in Modes : Reload(c, d, m)
      PROVE  due' \in BOOLEAN
  BY <1>4 DEF Report, Deliver, Send, DeliverEnd, Die, Reload, TypeOK
<1>5. QED
  BY <1>1, <1>2, <1>3, <1>4 DEF Next

\* A record that is no open incident's keeps its shape.
LEMMA TypeKept ==
    ASSUME TypeOK, SteadyOn, Sending, [Next]_vars
    PROVE  TypeOK'
<1>0. due' \in BOOLEAN
  BY DueKept
<1>1. CASE Lapse
  <2>1. Lapses
    BY <1>1, Lapsed
  <2>a. faults' \in 0..MaxFaults /\ slow' \in BOOLEAN
    <3>1. CASE \E c \in Callers : holds[c]
      <4>1. Fault /\ slow' = TRUE
        BY <1>1, <3>1 DEF Lapse
      <4>2. QED
        BY <4>1, IncidentsAssumption DEF Fault, TypeOK
    <3>2. CASE ~ \E c \in Callers : holds[c]
      BY <1>1, <3>2 DEF Lapse, TypeOK
    <3>3. QED
      BY <3>1, <3>2
  <2>2. inc'.st = "none" => inc' = NoIncident
    BY <1>1 DEF Lapse, TypeOK, NoIncident
  <2>3. QED
    BY <2>1, <2>2, <2>a DEF Lapses, TypeOK, sendVars
<1>2. ASSUME NEW c \in Callers, NEW in \in Incident, Claims(c, in) PROVE TypeOK'
  <2>1. opened' \in Nat /\ inc'.st # "none" /\ (inc'.st = "recovered" => inc'.told = {} /\ ~ inc'.clear)
    BY <1>2 DEF Claims, Begins, NewOne, ThisOne, OverOne, TypeOK
  <2>2. QED
    BY <1>0, <1>2, <2>1 DEF Claims, Typed, Rest, TypeOK
<1>3. ASSUME NEW c \in Callers, CallReturns(c) PROVE TypeOK'
  <2>1. opened' \in Nat /\ (inc'.st = "none" => inc' = NoIncident)
        /\ (inc'.st = "recovered" => inc'.told = {} /\ ~ inc'.clear)
    BY <1>3 DEF CallReturns, NoIncident, TypeOK
  <2>2. QED
    BY <1>0, <1>3, <2>1 DEF CallReturns, Typed, Rest, TypeOK
<1>4. ASSUME NEW c \in Callers, NEW d \in Dests, Sends(c, d) PROVE TypeOK'
  BY <1>4 DEF Sends, Typed, TypeOK
<1>5. ASSUME NEW c \in Callers, Delivers(c) PROVE TypeOK'
  <2>1. opened' \in Nat /\ (inc'.st = "none" => inc' = NoIncident)
        /\ (inc'.st = "recovered" => inc'.told = {} /\ ~ inc'.clear)
    BY <1>5 DEF Delivers, SendRecovers, Begins, SendEnds, NoIncident, TypeOK
  <2>2. QED
    BY <1>0, <1>5, <2>1 DEF Delivers, Typed, Rest, TypeOK
<1>6. CASE Flip \/ RepeatDue \/ UNCHANGED vars
            \/ \E c \in Callers : Report(c) \/ \E d \in Dests, m \in Modes : Reload(c, d, m)
  BY <1>6, Besides
<1>7. ASSUME NEW c \in Callers, Die(c) PROVE TypeOK'
  BY <1>7, Died DEF Dies, Typed, TypeOK
<1>8. ASSUME NEW c \in Callers, Raise(c) \/ Clear(c) PROVE TypeOK'
  BY <1>2, <1>3, <1>8, CallStep
<1>9. ASSUME NEW c \in Callers, Deliver(c) PROVE TypeOK'
  BY <1>4, <1>5, <1>9, Sent, SendEnded DEF Deliver, Delivers
<1>10. QED
  BY <1>1, <1>6, <1>7, <1>8, <1>9 DEF Next

-------------------------------------------------------------------------------
(* The steps keep each part of the invariant *)

\* A configuration changes only for the other destinations.
LEMMA SteadyKept ==
    ASSUME TypeOK, SteadyOn, Sending, [Next]_vars
    PROVE  SteadyOn'
<1> USE IncidentsAssumption DEF SteadyOn
<1>1. CASE Aside
  BY <1>1 DEF Aside
<1>2. CASE Lapses
  BY <1>2 DEF Lapses, sendVars
<1>3. ASSUME NEW c \in Callers, NEW in \in Incident, Claims(c, in) PROVE SteadyOn'
  BY <1>3 DEF Claims, Begins, NewOne, ThisOne, OverOne, Rest, Same
<1>4. ASSUME NEW c \in Callers, CallReturns(c) PROVE SteadyOn'
  BY <1>4 DEF CallReturns, Rest, NoIncident
<1>5. ASSUME NEW c \in Callers, NEW d \in Dests, Sends(c, d) PROVE SteadyOn'
  BY <1>5 DEF Sends, Same
<1>6. ASSUME NEW c \in Callers, Delivers(c) PROVE SteadyOn'
  <2>1. CASE SendRecovers(c)
    BY <1>6, <2>1 DEF Delivers, SendRecovers, Recovers, Begins, Rest, Same
  <2>2. CASE SendEnds(c)
    BY <1>6, <2>2 DEF Delivers, SendEnds, Ends, Rest, Same, NoIncident
  <2>3. QED
    BY <1>6, <2>1, <2>2 DEF Delivers
<1>7. ASSUME NEW c \in Callers, Dies(c) PROVE SteadyOn'
  BY <1>7 DEF Dies, Ends, Same
<1>8. QED
  BY Steps, <1>1, <1>2, <1>3, <1>4, <1>5, <1>6, <1>7

\* Only a new incident gets a new number, and what is sent is of the incident on record.
LEMMA NumberedKept ==
    ASSUME TypeOK, SteadyOn, Sending, Numbered, [Next]_vars
    PROVE  Numbered'
<1> USE IncidentsAssumption DEF TypeOK, Incident, NoIncident, Sending, SendOK, Numbered,
        Hears
<1>1. CASE Aside
  BY <1>1 DEF Aside
<1>2. CASE Lapses
  BY <1>2 DEF Lapses, sendVars
<1>3. ASSUME NEW c \in Callers, NEW in \in Incident, Claims(c, in) PROVE Numbered'
  <2>1. /\ opened' \in Nat /\ opened <= opened' /\ inc'.st # "none"
        /\ inc'.no = opened' /\ opened' > 0 /\ job'[c].no <= opened'
    BY <1>3 DEF Claims, Begins, NewOne, ThisOne, OverOne
  <2>2. \A k \in Callers \ {c} : job'[k] = job[k]
    BY <1>3 DEF Claims, Same
  <2>3. \A k \in Callers : job[k].no \in Nat /\ job[k].no <= opened
    OBVIOUS
  <2>4. ASSUME NEW k \in Callers PROVE job'[k].no <= opened'
    <3>1. CASE k = c
      BY <2>1, <3>1
    <3>2. CASE k # c
      <4>1. job'[k].no = job[k].no
        BY <2>2, <3>2
      <4>2. QED
        BY <2>1, <2>3, <4>1
    <3>3. QED
      BY <3>1, <3>2
  <2>5. \A d \in Dests : heard'[d].no <= opened' /\ heard'[d].alert <= opened'
    BY <2>1, <1>3 DEF Claims, Rest
  <2>6. QED
    BY <2>1, <2>4, <2>5
<1>4. ASSUME NEW c \in Callers, CallReturns(c) PROVE Numbered'
  BY <1>4 DEF CallReturns, Rest, NoIncident
<1>5. ASSUME NEW c \in Callers, NEW d \in Dests, Sends(c, d) PROVE Numbered'
  <2>1. heard'[d].no <= opened /\ heard'[d].alert <= opened
    <3>1. heard[d].no <= opened /\ heard[d].alert <= opened /\ job[c].no <= opened
      OBVIOUS
    <3>2. CASE heard'[d] = heard[d]
      BY <3>1, <3>2
    <3>3. CASE heard'[d] = Hears(heard[d], job[c])
      <4>1. heard[d] \in [no : Nat, what : {"none", "alert", "over"}, alert : Nat] /\ job[c] \in Incident
        OBVIOUS
      <4>2. QED
        BY <3>1, <3>3, <4>1
    <3>4. QED
      BY <1>5, <3>2, <3>3 DEF Sends
  <2>2. QED
    BY <1>5, <2>1 DEF Sends
<1>6. ASSUME NEW c \in Callers, Delivers(c) PROVE Numbered'
  <2>1. CASE SendRecovers(c)
    <3>1. PICK in \in Incident : Begins(c, in) /\ in.st = "recovered" /\ in.no = inc.no
      BY <2>1 DEF SendRecovers
    <3>2. inc'.no = opened /\ opened > 0 /\ job'[c].no = opened /\ opened' = opened /\ heard' = heard
      BY <1>6, <2>1, <3>1 DEF SendRecovers, Recovers, Begins, Delivers, Rest
    <3>3. \A k \in Callers \ {c} : job'[k] = job[k]
      BY <1>6 DEF Delivers, Same
    <3>4. ASSUME NEW k \in Callers PROVE job'[k].no <= opened'
      <4>1. CASE k = c
        BY <3>2, <4>1
      <4>2. CASE k # c
        BY <3>2, <3>3, <4>2
      <4>3. QED
        BY <4>1, <4>2
    <3>5. inc'.no = opened' /\ opened' > 0
      BY <3>2
    <3>6. \A e \in Dests : heard'[e].no <= opened' /\ heard'[e].alert <= opened'
      BY <3>2
    <3>7. QED
      BY <3>4, <3>5, <3>6
  <2>2. CASE SendEnds(c)
    <3>1. opened' = opened /\ heard' = heard
      BY <1>6 DEF Delivers, Rest
    <3>2. ASSUME NEW k \in Callers PROVE job'[k].no <= opened'
      <4>1. CASE k = c
        BY <2>2, <3>1, <4>1 DEF SendEnds, Ends
      <4>2. CASE k # c
        BY <1>6, <3>1, <4>2 DEF Delivers, Same
      <4>3. QED
        BY <4>1, <4>2
    <3>3. inc'.st # "none" => inc'.no = opened' /\ opened' > 0
      BY <2>2, <3>1 DEF SendEnds
    <3>4. \A e \in Dests : heard'[e].no <= opened' /\ heard'[e].alert <= opened'
      BY <3>1
    <3>5. QED
      BY <3>2, <3>3, <3>4
  <2>3. QED
    BY <1>6, <2>1, <2>2 DEF Delivers
<1>7. ASSUME NEW c \in Callers, Dies(c) PROVE Numbered'
  BY <1>7 DEF Dies, Ends, Same
<1>8. QED
  BY Steps, <1>1, <1>2, <1>3, <1>4, <1>5, <1>6, <1>7

\* A claim begins a send of what was claimed, its end and its death leave nothing.
LEMMA SendingKept ==
    ASSUME TypeOK, SteadyOn, Sending, [Next]_vars
    PROVE  Sending'
<1> USE IncidentsAssumption DEF TypeOK, Incident, NoIncident, Sending, SendOK, Meant,
        Configured, Muted
<1>1. CASE Aside
  BY <1>1 DEF Aside
<1>2. CASE Lapses
  BY <1>2 DEF Lapses, sendVars
<1>3. ASSUME NEW c \in Callers, NEW in \in Incident, Claims(c, in) PROVE Sending'
  <2>1. SendOK(c)'
    BY <1>3 DEF Claims, Begins, Rest, NewOne, ThisOne, OverOne
  <2>2. inc'.st # "none"
    BY <1>3 DEF Claims, Begins, NewOne, ThisOne, OverOne
  <2>3. ASSUME NEW k \in Callers \ {c} PROVE SendOK(k)'
    <3>1. SendOK(k) /\ Same(k) /\ (holds'[k] => holds[k]) /\ mode' = mode
      BY <1>3 DEF Claims, Rest
    <3>2. QED
      BY <2>2, <3>1 DEF Same
  <2>4. QED
    BY <2>1, <2>3
<1>4. ASSUME NEW c \in Callers, CallReturns(c) PROVE Sending'
  BY <1>4 DEF CallReturns, Rest, NoIncident
<1>5. ASSUME NEW c \in Callers, NEW d \in Dests, Sends(c, d) PROVE Sending'
  BY <1>5 DEF Sends, Same
<1>6. ASSUME NEW c \in Callers, Delivers(c) PROVE Sending'
  <2>1. CASE SendRecovers(c)
    <3>1. PICK in \in Incident : Begins(c, in) /\ in.st = "recovered"
      BY <2>1 DEF SendRecovers
    <3>2. SendOK(c)' /\ inc'.st # "none"
      BY <1>6, <3>1 DEF Begins, Delivers, Rest
    <3>3. ASSUME NEW k \in Callers \ {c} PROVE SendOK(k)'
      <4>1. SendOK(k) /\ Same(k) /\ ~ holds'[k] /\ mode' = mode
        BY <1>6, <2>1 DEF Delivers, Rest, SendRecovers
      <4>2. QED
        BY <4>1 DEF Same
    <3>4. QED
      BY <3>2, <3>3
  <2>2. CASE SendEnds(c)
    <3>1. SendOK(c)'
      BY <2>2 DEF SendEnds, Ends
    <3>2. ASSUME NEW k \in Callers \ {c} PROVE SendOK(k)'
      <4>1. SendOK(k) /\ Same(k) /\ (holds'[k] => holds[k]) /\ mode' = mode
        BY <1>6, <2>2 DEF Delivers, Rest, SendEnds
      <4>2. holds'[k] => inc'.st # "none"
        BY <2>2, <4>1 DEF SendEnds
      <4>3. QED
        BY <4>1, <4>2 DEF Same
    <3>3. QED
      BY <3>1, <3>2
  <2>3. QED
    BY <1>6, <2>1, <2>2 DEF Delivers
<1>7. ASSUME NEW c \in Callers, Dies(c) PROVE Sending'
  <2>1. SendOK(c)'
    BY <1>7 DEF Dies, Ends
  <2>2. ASSUME NEW k \in Callers \ {c} PROVE SendOK(k)'
    <3>1. SendOK(k) /\ Same(k) /\ holds'[k] = holds[k] /\ mode' = mode /\ inc' = inc
      BY <1>7 DEF Dies
    <3>2. QED
      BY <3>1 DEF Same
  <2>3. QED
    BY <2>1, <2>2
<1>8. QED
  BY Steps, <1>1, <1>2, <1>3, <1>4, <1>5, <1>6, <1>7

\* Whom an incident is owed to stays on its record, as told if not as owed: a send that ends
\* strikes off those it reached and notes them as told, whoever claimed the record meanwhile.
LEMMA MeaningKept ==
    ASSUME TypeOK, SteadyOn, Sending, Numbered, Meaning, [Next]_vars
    PROVE  Meaning'
<1> USE IncidentsAssumption DEF TypeOK, Incident, NoIncident, SteadyOn, Numbered, Sending,
        SendOK, Meaning, Muted
<1>1. CASE Aside
  BY <1>1 DEF Aside
<1>2. CASE Lapses
  BY <1>2 DEF Lapses, sendVars
<1>3. ASSUME NEW c \in Callers, NEW in \in Incident, Claims(c, in) PROVE Meaning'
  BY <1>3 DEF Claims, Begins, NewOne, ThisOne, OverOne, Rest, Same
<1>4. ASSUME NEW c \in Callers, CallReturns(c) PROVE Meaning'
  BY <1>4 DEF CallReturns, Rest, NoIncident
<1>5. ASSUME NEW c \in Callers, NEW d \in Dests, Sends(c, d) PROVE Meaning'
  BY <1>5 DEF Sends, Same
<1>6. ASSUME NEW c \in Callers, Delivers(c) PROVE Meaning'
  <2>1. CASE SendRecovers(c)
    BY <1>6, <2>1 DEF Delivers, SendRecovers, Recovers, Begins, Rest, Same
  <2>2. CASE SendEnds(c)
    <3>1. ASSUME inc'.st = "open"
          PROVE  /\ inc.st = "open" /\ inc'.no = inc.no
                 /\ Steady \cap (inc.told \cup inc.pending) \subseteq inc'.told \cup inc'.pending
      <4>1. Steady \cap Muted(c) = {}
        OBVIOUS
      <4>2. CASE inc' = inc
        BY <3>1, <4>2
      <4>3. CASE inc' # inc
        BY <2>2, <3>1, <4>1, <4>3 DEF SendEnds, NoIncident
      <4>4. QED
        BY <4>2, <4>3
    <3>2. job'[c].st = "none"
      BY <2>2 DEF SendEnds, Ends
    <3>3. \A k \in Callers \ {c} : job'[k] = job[k]
      BY <1>6 DEF Delivers, Same
    <3>4. ASSUME NEW k \in Callers, inc'.st = "open", job'[k].st = "open", job'[k].no = inc'.no
          PROVE  Steady \cap job'[k].pending \subseteq inc'.told \cup inc'.pending
      <4>1. k # c /\ job'[k] = job[k]
        BY <3>2, <3>3, <3>4
      <4>2. Steady \cap job[k].pending \subseteq inc.told \cup inc.pending
        BY <3>1, <3>4, <4>1
      <4>3. QED
        BY <3>1, <3>4, <4>1, <4>2
    <3>5. QED
      BY <3>4
  <2>3. QED
    BY <1>6, <2>1, <2>2 DEF Delivers
<1>7. ASSUME NEW c \in Callers, Dies(c) PROVE Meaning'
  BY <1>7, SMTT(30) DEF Dies, Ends, Same
<1>8. QED
  BY Steps, <1>1, <1>2, <1>3, <1>4, <1>5, <1>6, <1>7

\* So whoever an alert reaches is on the record.
LEMMA HeardKept ==
    ASSUME TypeOK, SteadyOn, Sending, Numbered, Meaning, HeardOwed, [Next]_vars
    PROVE  HeardOwed'
<1> USE IncidentsAssumption DEF TypeOK, Incident, NoIncident, SteadyOn, Numbered, Sending,
        SendOK, Meaning, HeardOwed, Meant, Muted, Hears
<1>1. CASE Aside
  BY <1>1 DEF Aside
<1>2. CASE Lapses
  BY <1>2 DEF Lapses, sendVars
<1>3. ASSUME NEW c \in Callers, NEW in \in Incident, Claims(c, in) PROVE HeardOwed'
  BY <1>3 DEF Claims, Begins, NewOne, ThisOne, OverOne, Rest, Same
<1>4. ASSUME NEW c \in Callers, CallReturns(c) PROVE HeardOwed'
  BY <1>4 DEF CallReturns, Rest, NoIncident
<1>5. ASSUME NEW c \in Callers, NEW d \in Dests, Sends(c, d) PROVE HeardOwed'
  <2>1. SUFFICES ASSUME NEW e \in Steady, inc.st = "open", heard'[e].alert = inc.no
                 PROVE  e \in inc.told \cup inc.pending
    BY <1>5 DEF Sends
  <2>2. CASE heard'[e].alert = heard[e].alert
    BY <2>1, <2>2
  <2>3. CASE heard'[e].alert # heard[e].alert
    <3>1. e = d /\ heard'[d] = Hears(heard[d], job[c])
      BY <1>5, <2>1, <2>3 DEF Sends
    <3>2. job[c].st = "open" /\ job[c].no = inc.no
      BY <2>1, <2>3, <3>1
    <3>3. d \in job[c].pending
      BY <1>5 DEF Sends
    <3>4. QED
      BY <2>1, <3>1, <3>2, <3>3
  <2>4. QED
    BY <2>2, <2>3
<1>6. ASSUME NEW c \in Callers, Delivers(c) PROVE HeardOwed'
  <2>1. CASE SendRecovers(c)
    BY <1>6, <2>1 DEF Delivers, SendRecovers, Recovers, Begins, Rest, Same
  <2>2. CASE SendEnds(c)
    BY <1>6, <2>2 DEF Delivers, SendEnds, Ends, Rest, Same, NoIncident
  <2>3. QED
    BY <1>6, <2>1, <2>2 DEF Delivers
<1>7. ASSUME NEW c \in Callers, Dies(c) PROVE HeardOwed'
  BY <1>7 DEF Dies, Ends, Same
<1>8. QED
  BY Steps, <1>1, <1>2, <1>3, <1>4, <1>5, <1>6, <1>7

\* Nobody claims what is claimed, and a claim lapses under a live sender only with slow.
LEMMA OneKept ==
    ASSUME TypeOK, SteadyOn, Sending, OneSender, [Next]_vars
    PROVE  OneSender'
<1> USE IncidentsAssumption DEF TypeOK, Incident, NoIncident, Sending, SendOK, OneSender
<1>1. CASE Aside
  BY <1>1 DEF Aside
<1>2. CASE Lapses
  BY <1>2 DEF Lapses, sendVars
<1>3. ASSUME NEW c \in Callers, NEW in \in Incident, Claims(c, in) PROVE OneSender'
  BY <1>3 DEF Claims, Begins, NewOne, ThisOne, OverOne, Rest, Same
<1>4. ASSUME NEW c \in Callers, CallReturns(c) PROVE OneSender'
  BY <1>4 DEF CallReturns, Rest, NoIncident
<1>5. ASSUME NEW c \in Callers, NEW d \in Dests, Sends(c, d) PROVE OneSender'
  BY <1>5 DEF Sends, Same
<1>6. ASSUME NEW c \in Callers, Delivers(c) PROVE OneSender'
  <2>1. CASE SendRecovers(c)
    BY <1>6, <2>1 DEF Delivers, SendRecovers, Recovers, Begins, Rest, Same
  <2>2. CASE SendEnds(c)
    BY <1>6, <2>2 DEF Delivers, SendEnds, Ends, Rest, Same, NoIncident
  <2>3. QED
    BY <1>6, <2>1, <2>2 DEF Delivers
<1>7. ASSUME NEW c \in Callers, Dies(c) PROVE OneSender'
  BY <1>7 DEF Dies, Ends, Same
<1>8. QED
  BY Steps, <1>1, <1>2, <1>3, <1>4, <1>5, <1>6, <1>7

\* One sender at a time notes as told those whom it has reached, and a recovery goes to them.
LEMMA ReachedKept ==
    ASSUME TypeOK, SteadyOn, Sending, Numbered, OneSender, Reached, [Next]_vars
    PROVE  Reached'
<1> USE IncidentsAssumption DEF TypeOK, Incident, NoIncident, Numbered, Sending, SendOK,
        OneSender, Reached, Meant, Configured, Muted, Hears, Owed
<1>1. CASE Aside
  BY <1>1 DEF Aside
<1>2. CASE Lapses
  BY <1>2 DEF Lapses, sendVars
<1>3. ASSUME NEW c \in Callers, NEW in \in Incident, Claims(c, in) PROVE Reached'
  BY <1>3 DEF Claims, Begins, NewOne, ThisOne, OverOne, Rest, Same
<1>4. ASSUME NEW c \in Callers, CallReturns(c) PROVE Reached'
  <2>1. /\ slow' = slow /\ heard' = heard /\ opened' = opened /\ mode' = mode
        /\ job' = job /\ todo' = todo /\ missed' = missed
        /\ \A k \in Callers : pc'[k] = "send" => pc[k] = "send"
    BY <1>4 DEF CallReturns, Rest
  <2>2. \/ inc'.st = inc.st /\ inc'.told = inc.told /\ inc'.pending = inc.pending
        \/ inc'.st = "none"
    BY <1>4 DEF CallReturns
  <2>3. QED
    BY <2>1, <2>2
<1>5. ASSUME NEW c \in Callers, NEW d \in Dests, Sends(c, d) PROVE Reached'
  <2>1. SUFFICES ASSUME ~ slow PROVE Reached'
    BY <1>5 DEF Sends
  <2>2. /\ holds[c] /\ job[c].st = inc.st /\ job[c].no = opened /\ job[c].pending = inc.pending
        /\ \A k \in Callers : pc[k] = "send" => k = c
        /\ d \in inc.pending /\ inc.st \in {"open", "recovered"}
    BY <1>5, <2>1 DEF Sends
  <2>3. /\ inc' = inc /\ opened' = opened /\ pc' = pc /\ mode' = mode /\ job' = job /\ slow' = slow
        /\ todo'[c] = todo[c] \ {d} /\ missed'[c] \in {missed[c], missed[c] \cup {d}}
        /\ \A e \in Dests \ {d} : heard'[e] = heard[e]
    BY <1>5 DEF Sends
  <2>a. /\ Hears(heard[d], job[c]).no = opened
        /\ inc.st = "open" => Hears(heard[d], job[c]).what = "alert"
    <3>1. heard[d] \in [no : Nat, what : {"none", "alert", "over"}, alert : Nat]
      OBVIOUS
    <3>2. QED
      BY <2>2, <3>1
  <2>4. heard'[d] = heard[d] \/ (heard'[d].no = opened /\ (inc.st = "open" => heard'[d].what = "alert"))
    BY <1>5, <2>a DEF Sends
  <2>5. d \in missed'[c] \/ heard'[d].no = opened
    BY <1>5, <2>a DEF Sends
  <2>6. ASSUME inc.st = "open", NEW e \in inc.told PROVE heard'[e].no = opened
    <3>1. e \in Dests /\ heard[e].no = opened
      BY <2>1, <2>6
    <3>2. QED
      BY <2>3, <2>4, <3>1
  <2>7. ASSUME inc.st = "open", NEW e \in Dests, heard'[e].what = "over"
        PROVE  heard'[e].no # opened
    <3>1. heard[e].what = "over" => heard[e].no # opened
      BY <2>1, <2>7
    <3>2. QED
      BY <2>3, <2>4, <2>7, <3>1
  <2>8. inc.st = "recovered" => \A e \in inc.pending : heard'[e].no = opened
    BY <2>1, <2>3, <2>4
  <2>9. \A e \in Meant(c) \ (todo'[c] \cup missed'[c]) : heard'[e].no = opened
    <3>1. pc[c] = "send"
      BY <1>5 DEF Sends
    <3>2. QED
      BY <2>1, <2>3, <2>4, <2>5, <3>1
  <2>10. QED
    BY <2>2, <2>3, <2>6, <2>7, <2>8, <2>9
<1>6. ASSUME NEW c \in Callers, Delivers(c) PROVE Reached'
  <2>1. CASE SendRecovers(c)
    BY <1>6, <2>1 DEF Delivers, SendRecovers, Recovers, Begins, Rest, Same
  <2>2. CASE SendEnds(c)
    <3>1. SUFFICES ASSUME ~ slow PROVE Reached'
      BY <1>6 DEF Delivers, Rest
    <3>2. /\ holds[c] /\ job[c].st = inc.st /\ job[c].no = opened /\ job[c].pending = inc.pending
          /\ \A k \in Callers : pc[k] = "send" => k = c
      BY <1>6, <3>1 DEF Delivers
    <3>3. \A k \in Callers : pc'[k] # "send"
      BY <1>6, <2>2, <3>2, ZenonT(40) DEF Delivers, Same, SendEnds, Ends
    <3>4. opened' = opened /\ heard' = heard /\ slow' = slow
      BY <1>6 DEF Delivers, Rest
    <3>5. \A e \in Meant(c) \ missed[c] : heard[e].no = opened
      BY <1>6, <3>1 DEF Delivers
    <3>6. CASE inc'.st = "none"
      BY <3>3, <3>6
    <3>7. CASE inc'.st # "none"
      <4>1. /\ inc'.st = inc.st /\ inc'.pending = Owed(c)
            /\ inc'.told = IF inc.st = "recovered" THEN inc.told
                           ELSE inc.told \cup ((inc.pending \ Muted(c)) \ Owed(c))
        BY <2>2, <3>2, <3>7 DEF SendEnds
      <4>2. inc.st = "open" => (inc.pending \ Muted(c)) \ Owed(c) \subseteq Meant(c) \ missed[c]
        BY <3>2
      <4>3. inc.st = "recovered" => Owed(c) \subseteq inc.pending
        BY <3>2
      <4>4. QED
        BY <3>1, <3>3, <3>4, <3>5, <4>1, <4>2, <4>3
    <3>8. QED
      BY <3>6, <3>7
  <2>3. QED
    BY <1>6, <2>1, <2>2 DEF Delivers
<1>7. ASSUME NEW c \in Callers, Dies(c) PROVE Reached'
  BY <1>7 DEF Dies, Ends, Same
<1>8. QED
  BY Steps, <1>1, <1>2, <1>3, <1>4, <1>5, <1>6, <1>7


-------------------------------------------------------------------------------
(* The theorems *)

\* Nothing has happened yet.
LEMMA Initially == Init => IInv
<1> SUFFICES ASSUME Init PROVE IInv
  OBVIOUS
<1>1. PICK m \in Modes : 
          mode = [c \in Callers |-> [d \in Dests |-> IF d \in Steady THEN "on" ELSE m]]
  BY DEF Init
<1>2. mode \in [Callers -> [Dests -> Modes]] /\ SteadyOn
  BY <1>1, IncidentsAssumption DEF Modes, SteadyOn
<1>3. TypeOK
  <2>1. inc = NoIncident /\ NoIncident.st = "none" /\ NoIncident \in Incident
    BY NoneTyped DEF Init, NoIncident
  <2>2. opened \in Nat /\ flips \in 0..MaxFlips /\ faults \in 0..MaxFaults
    BY IncidentsAssumption DEF Init
  <2>a. {bad, due, slow} \subseteq BOOLEAN
    BY DEF Init
  <2>3. /\ pc \in [Callers -> {"idle", "raise", "clear", "send"}]
        /\ job \in [Callers -> Incident] /\ holds \in [Callers -> BOOLEAN]
        /\ todo \in [Callers -> SUBSET Dests] /\ missed \in [Callers -> SUBSET Dests]
    BY <2>1 DEF Init
  <2>4. heard \in [Dests -> [no : Nat, what : {"none", "alert", "over"}, alert : Nat]]
    BY DEF Init
  <2>5. QED
    BY <1>2, <2>1, <2>2, <2>a, <2>3, <2>4 DEF TypeOK
<1>4. Numbered
  BY DEF Init, Numbered, NoIncident
<1>5. Sending
  BY DEF Init, Sending, SendOK
<1>6. Meaning /\ HeardOwed /\ OneSender /\ Reached
  BY DEF Init, Meaning, HeardOwed, OneSender, Reached, NoIncident
<1>7. QED
  BY <1>2, <1>3, <1>4, <1>5, <1>6 DEF IInv

\* Every step keeps the invariant.
LEMMA Stepwise == IInv /\ [Next]_vars => IInv'
BY TypeKept, SteadyKept, NumberedKept, SendingKept, MeaningKept, HeardKept, OneKept, ReachedKept
   DEF IInv

\* The inductive invariant, for any callers, destinations and configurations, and any number
\* of changes of the condition and of faults.
THEOREM IncidentsInvariant == Spec => []IInv
BY Initially, Stepwise, PTL DEF Spec

\* The types of the record and of what is sent of it.
THEOREM IncidentsTyping == Spec => []TypeOK
<1>1. IInv => TypeOK
  BY DEF IInv
<1>2. QED
  BY <1>1, IncidentsInvariant, PTL

\* deliver: "The destinations a notification is owed to are recorded before it is sent and
\* struck off only once it arrives", also when a send outlasts its claim and another begins.
THEOREM IncidentsHeardOwed == Spec => []HeardOwed
<1>1. IInv => HeardOwed
  BY DEF IInv
<1>2. QED
  BY <1>1, IncidentsInvariant, PTL

\* A destination hears something only from the one send there is, of the incident on record.
LEMMA Hearing ==
    ASSUME IInv, [Next]_vars, ~ slow, NEW d \in Dests, heard'[d] # heard[d]
    PROVE  /\ heard'[d].no = opened /\ heard[d].no <= opened /\ opened \in Nat
           /\ heard[d].no \in Nat
           /\ inc.st = "open" => heard'[d].what = "alert"
           /\ inc.st = "open" => (heard[d].what = "over" => heard[d].no # opened)
           /\ inc.st # "open" => heard[d].no = opened /\ heard'[d].what = "over"
<1>0. TypeOK /\ SteadyOn /\ Sending /\ Numbered /\ OneSender /\ Reached
  BY DEF IInv
<1>1. PICK c \in Callers : \E e \in Dests : Sends(c, e)
  BY <1>0, Steps DEF Aside, Lapses, Claims, CallReturns, Delivers, Dies, Rest
<1>2. Sends(c, d)
  BY <1>1 DEF Sends
<1>3. /\ inc.st \in {"open", "recovered"} /\ job[c].st = inc.st /\ job[c].no = inc.no
      /\ inc.no = opened /\ d \in inc.pending
  BY <1>0, <1>2 DEF TypeOK, Incident, Sending, SendOK, Sends, OneSender, Numbered, Meant
<1>4. /\ heard[d] \in [no : Nat, what : {"none", "alert", "over"}, alert : Nat]
      /\ heard'[d] = Hears(heard[d], job[c]) /\ opened \in Nat /\ heard[d].no <= opened
  BY <1>0, <1>2 DEF Sends, TypeOK, Numbered
<1>5. /\ inc.st = "open" => (heard[d].what = "over" => heard[d].no # opened)
      /\ inc.st = "recovered" => heard[d].no = opened
  BY <1>0, <1>3 DEF Reached
<1>6. QED
  BY <1>3, <1>4, <1>5 DEF Hears

\* Clear: "An alert still in flight must not arrive after its recovery", nor one of an earlier
\* incident after a later one's, while no send outlasts its claim.
THEOREM IncidentsInOrder == Spec => InOrder
<1> DEFINE Order == ~ slow => \A d \in Dests :
              /\ heard[d].no <= heard'[d].no
              /\ heard[d].what = "over" /\ heard'[d].what = "alert" => heard[d].no < heard'[d].no
<1>1. IInv /\ [Next]_vars => Order
  <2> SUFFICES ASSUME IInv, [Next]_vars, ~ slow, NEW d \in Dests
               PROVE  /\ heard[d].no <= heard'[d].no
                      /\ heard[d].what = "over" /\ heard'[d].what = "alert" => heard[d].no < heard'[d].no
    OBVIOUS
  <2>1. CASE heard'[d] = heard[d]
    BY <2>1 DEF IInv, TypeOK
  <2>2. CASE heard'[d] # heard[d]
    BY <2>2, Hearing
  <2>3. QED
    BY <2>1, <2>2
<1>2. QED
  BY <1>1, IncidentsInvariant, PTL DEF Spec, InOrder

\* recovery: "one it never reached never heard of the incident, so is not told it is over",
\* with the same premise.
THEOREM IncidentsOverOnlyToTold == Spec => OverOnlyToTold
<1>1. IInv /\ [Next]_vars =>
         (~ slow => \A d \in Dests : heard'[d] # heard[d] /\ heard'[d].what = "over"
                       => heard'[d].no = heard[d].no)
  BY Hearing
<1>2. QED
  BY <1>1, IncidentsInvariant, PTL DEF Spec, OverOnlyToTold

===============================================================================
