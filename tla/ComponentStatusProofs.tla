---------------------------- MODULE ComponentStatusProofs ----------------------------
(****************************************************************************)
(* What the status of a Kabanero says when it says that the Kabanero is     *)
(* ready, which components it says to be off, and what the functions read,  *)
(* for any start, and any number of edits, changes and restarts.            *)
(*                                                                          *)
(* Names with a space in them are kept out of what SMT sees: it cannot take *)
(* them.  Zenon can, so what is read is named and counted first.            *)
(****************************************************************************)
EXTENDS ComponentStatus, SequenceTheorems, TLAPS

Sayings == {"", "True", "False", "off"}
Fine == {"True", "off"}

\* The fields of the records, and the types of those that matter.
KabShape ==
    /\ kab = [disabled |-> kab.disabled, status |-> kab.status, ready |-> kab.ready]
    /\ kab.status \in [Components -> Sayings]

LocShape ==
    /\ loc = [pc |-> loc.pc, at |-> loc.at, read |-> loc.read, disabled |-> loc.disabled,
              status |-> loc.status, ready |-> loc.ready, failed |-> loc.failed]
    /\ loc.status \in [Components -> Sayings]
    /\ loc.at \in 1..13

\* What is stored, what the functions so far have said, and that a row of
\* functions begins with the first one.
StoredInv == kab.ready = "True" => \A c \in Components : kab.status[c] \in Fine

SaidInv ==
    /\ loc.pc = "install" => loc.at = 1
    /\ loc.pc = "read" /\ loc.ready => \A i \in 1..(loc.at - 1) : loc.status[Order[i]] \in Fine
    /\ loc.pc = "write" /\ loc.ready => \A c \in Components : loc.status[c] \in Fine

ReadyInv == KabShape /\ LocShape /\ StoredInv /\ SaidInv

\* Each component has its place.
LEMMA Places ==
    /\ Len(Order) = 13 /\ DOMAIN Order = 1..13
    /\ \A i \in 1..13 : Order[i] \in Components
    /\ \A c \in Components : \E i \in 1..13 : c = Order[i]
<1>1. Len(Order) = 13 /\ DOMAIN Order = 1..13
  BY DEF Order
<1> QED
  BY <1>1 DEF Components

LEMMA NoStatusType == NoStatus \in [Components -> Sayings]
  BY DEF NoStatus, Sayings

LEMMA InitReady == Init => ReadyInv
<1> SUFFICES ASSUME Init PROVE ReadyInv
  OBVIOUS
<1>1. KabShape /\ kab.ready = ""
  BY NoStatusType DEF Init, KabShape
<1>2. loc = IdleState
  BY DEF Init
<1>3. LocShape /\ loc.pc = "idle"
  BY <1>2, NoStatusType DEF LocShape, IdleState
<1> QED
  BY <1>1, <1>3 DEF ReadyInv, StoredInv, SaidInv

LEMMA IdleKeeps ==
    ASSUME ReadyInv, loc' = IdleState, KabShape', StoredInv'
    PROVE  ReadyInv'
<1>1. LocShape' /\ loc'.pc = "idle"
  BY NoStatusType DEF LocShape, IdleState
<1> QED
  BY <1>1 DEF ReadyInv, SaidInv

LEMMA UnchangedKab ==
    ASSUME ReadyInv, UNCHANGED kab
    PROVE  KabShape' /\ StoredInv'
  BY DEF ReadyInv, KabShape, StoredInv

LEMMA UnchangedLoc ==
    ASSUME ReadyInv, UNCHANGED loc
    PROVE  LocShape' /\ SaidInv'
  BY DEF ReadyInv, LocShape, SaidInv

-----------------------------------------------------------------------------
(* The steps of processStatus *)

\* A function that says "ready" says that its component is ready or off; then
\* all functions so far have.
LEMMA VerdictKeeps ==
    ASSUME ReadyInv, loc.pc = "read", NEW ready \in BOOLEAN, NEW said \in Sayings,
           ready => said \in Fine, Verdict(ready, said)
    PROVE  ReadyInv'
<1>1. This \in Components /\ This = Order[loc.at]
  BY Places DEF This, ReadyInv, LocShape
<1>2. /\ loc'.status = [loc.status EXCEPT ![This] = said]
      /\ loc'.at = IF loc.at = 13 THEN loc.at ELSE loc.at + 1
      /\ loc'.pc = IF loc.at = 13 THEN "write" ELSE "read"
      /\ loc'.ready <=> (loc.ready /\ ready)
  BY Places DEF Verdict, AndAlso, ReadyInv, LocShape
<1>3. loc' = [pc |-> loc'.pc, at |-> loc'.at, read |-> loc'.read, disabled |-> loc'.disabled,
              status |-> loc'.status, ready |-> loc'.ready, failed |-> loc'.failed]
  BY DEF Verdict, ReadyInv, LocShape
<1>4. LocShape'
  BY <1>1, <1>2, <1>3 DEF ReadyInv, LocShape
<1>5. ASSUME loc'.ready, NEW i \in 1..loc.at
      PROVE  loc'.status[Order[i]] \in Fine
  <2>1. loc.ready /\ ready
    BY <1>2, <1>5
  <2>2. Order[i] \in Components
    BY Places DEF ReadyInv, LocShape
  <2>3. CASE Order[i] = This
    BY <1>1, <1>2, <2>1, <2>3 DEF ReadyInv, LocShape
  <2>4. CASE Order[i] # This
    <3>1. i \in 1..(loc.at - 1)
      BY <1>1, <2>4 DEF ReadyInv, LocShape
    <3>2. loc.status[Order[i]] \in Fine
      BY <2>1, <3>1 DEF ReadyInv, SaidInv
    <3> QED
      BY <1>2, <2>2, <2>4, <3>2 DEF ReadyInv, LocShape
  <2> QED
    BY <2>3, <2>4
<1>6. SaidInv'
  <2>1. CASE loc.at = 13
    <3>1. loc'.pc = "write"
      BY <1>2, <2>1
    <3>2. ASSUME loc'.ready, NEW c \in Components
          PROVE  loc'.status[c] \in Fine
      <4>1. PICK i \in 1..13 : c = Order[i]
        BY Places
      <4> QED
        BY <1>5, <2>1, <3>2, <4>1
    <3> QED
      BY <3>1, <3>2 DEF SaidInv
  <2>2. CASE loc.at # 13
    <3>1. loc'.pc = "read" /\ loc'.at = loc.at + 1 /\ loc.at \in Nat
      BY <1>2, <2>2 DEF ReadyInv, LocShape
    <3>2. 1..(loc'.at - 1) = 1..loc.at
      BY <3>1
    <3> QED
      BY <1>5, <3>1, <3>2 DEF SaidInv
  <2> QED
    BY <2>1, <2>2
<1>7. UNCHANGED kab
  BY DEF Verdict
<1> QED
  BY <1>4, <1>6, <1>7, UnchangedKab DEF ReadyInv

LEMMA FunctionsKeep ==
    ASSUME ReadyInv, SwitchedOff \/ FoundReady \/ FoundAmiss \/ ReportStatus
    PROVE  ReadyInv'
<1>1. CASE SwitchedOff
  BY <1>1, VerdictKeeps DEF SwitchedOff, Reading, Fine, Sayings
<1>2. CASE FoundReady
  BY <1>2, VerdictKeeps DEF FoundReady, Reading, Fine, Sayings
<1>3. loc.status[This] \in Sayings
  BY Places DEF This, ReadyInv, LocShape
<1>4. CASE FoundAmiss
  <2>1. loc.pc = "read"
    BY <1>4 DEF FoundAmiss, Reading
  <2> DEFINE ready == Next1 \in Absent
  <2> DEFINE said == IF Next1 \in Absent THEN "off"
                     ELSE IF Next1 \in Keeps THEN loc.status[This] ELSE "False"
  <2>2. Verdict(ready, said)
    BY <1>4 DEF FoundAmiss
  <2>3. ready \in BOOLEAN /\ said \in Sayings /\ (ready => said \in Fine)
    <3>1. ready \in BOOLEAN
      OBVIOUS
    <3>2. CASE ready
      <4>1. said = "off"
        BY <3>2
      <4> QED
        BY <3>1, <4>1 DEF Sayings, Fine
    <3>3. CASE ~ready
      <4>1. said = "False" \/ said = loc.status[This]
        BY <3>3
      <4> HIDE DEF ready, said
      <4> QED
        BY <1>3, <3>1, <3>3, <4>1 DEF Sayings, Fine
    <3> QED
      BY <3>2, <3>3
  <2> HIDE DEF ready, said
  <2> QED
    BY <2>1, <2>2, <2>3, VerdictKeeps
<1>5. CASE ReportStatus
  <2>1. loc.pc = "read" /\ Verdict(loc.status[This] = "True", loc.status[This])
    BY <1>5 DEF ReportStatus
  <2>2. loc.status[This] = "True" => loc.status[This] \in Fine
    BY DEF Fine
  <2> QED
    BY <1>3, <2>1, <2>2, VerdictKeeps
<1> QED
  BY <1>1, <1>2, <1>4, <1>5

LEMMA ReadNextKeeps ==
    ASSUME ReadyInv, ReadNext
    PROVE  ReadyInv'
<1>1. /\ LocShape'
      /\ loc'.pc = loc.pc /\ loc'.at = loc.at /\ loc'.status = loc.status /\ loc'.ready = loc.ready
  BY DEF ReadNext, ReadyInv, LocShape
<1>2. SaidInv'
  BY <1>1 DEF ReadyInv, SaidInv
<1> QED
  BY <1>1, <1>2, UnchangedKab DEF ReadNext, ReadyInv

LEMMA BeginKeeps ==
    ASSUME ReadyInv, Begin
    PROVE  ReadyInv'
<1>1. loc' = [pc |-> "install", at |-> 1, read |-> 1, disabled |-> kab.disabled,
              status |-> kab.status, ready |-> TRUE, failed |-> FALSE]
  BY DEF Begin, IdleState
<1>2. LocShape' /\ loc'.pc = "install" /\ loc'.at = 1
  BY <1>1 DEF ReadyInv, LocShape, KabShape
<1> QED
  BY <1>2, UnchangedKab DEF Begin, ReadyInv, SaidInv

LEMMA ReconcileKeeps ==
    ASSUME ReadyInv, Reconcile
    PROVE  ReadyInv'
<1>1. PICK reached, failed :
        loc' = [loc EXCEPT !.pc = "read", !.failed = failed,
                           !.status = [c \in Components |->
                              IF c \notin reached THEN @[c]
                              ELSE IF c \in amiss THEN "False" ELSE "True"]]
  BY DEF Reconcile
<1>2. loc'.pc = "read" /\ loc'.at = 1
  BY <1>1 DEF Reconcile, ReadyInv, LocShape, SaidInv
<1>3. loc' = [pc |-> loc'.pc, at |-> loc'.at, read |-> loc'.read, disabled |-> loc'.disabled,
              status |-> loc'.status, ready |-> loc'.ready, failed |-> loc'.failed]
  BY <1>1 DEF ReadyInv, LocShape
<1>4. loc'.status \in [Components -> Sayings]
  BY <1>1 DEF ReadyInv, LocShape, Sayings
<1>5. LocShape'
  BY <1>2, <1>3, <1>4 DEF LocShape
<1>6. SaidInv'
  BY <1>2 DEF SaidInv
<1> QED
  BY <1>5, <1>6, UnchangedKab DEF Reconcile, ReadyInv

\* Only what all functions have said is stored, and only on the version of the
\* Kabanero that was read.
LEMMA ProcessStatusKeeps ==
    ASSUME ReadyInv, ProcessStatus
    PROVE  ReadyInv'
<1>1. KabShape' /\ StoredInv'
  <2>1. CASE UNCHANGED kab
    BY <2>1, UnchangedKab
  <2>2. CASE kab' = [kab EXCEPT !.status = loc.status, !.ready = IF loc.ready THEN "True" ELSE "False"]
    <3>1. kab'.status = loc.status /\ (kab'.ready = "True" => loc.ready) /\ KabShape'
      BY <2>2 DEF ReadyInv, KabShape, LocShape
    <3>2. loc.ready => \A c \in Components : loc.status[c] \in Fine
      BY DEF ProcessStatus, ReadyInv, SaidInv
    <3> QED
      BY <3>1, <3>2 DEF StoredInv
  <2> QED
    BY <2>1, <2>2 DEF ProcessStatus
<1> QED
  BY <1>1, IdleKeeps DEF ProcessStatus

LEMMA OthersKeep ==
    ASSUME ReadyInv, Panic \/ Restart \/ ChangeWorld \/ EditKabanero \/ UNCHANGED vars
    PROVE  ReadyInv'
<1>1. CASE Panic \/ Restart
  BY <1>1, IdleKeeps, UnchangedKab DEF Panic, Restart
<1>2. CASE ChangeWorld \/ UNCHANGED vars
  BY <1>2, UnchangedKab, UnchangedLoc DEF ChangeWorld, vars, ReadyInv
<1>3. CASE EditKabanero
  <2>1. PICK d : kab' = [kab EXCEPT !.disabled = d]
    BY <1>3 DEF EditKabanero
  <2>2. KabShape' /\ StoredInv'
    BY <2>1 DEF ReadyInv, KabShape, StoredInv
  <2> QED
    BY <1>3, <2>2, UnchangedLoc DEF EditKabanero, ReadyInv
<1> QED
  BY <1>1, <1>2, <1>3

LEMMA NextReady == ReadyInv /\ [Next]_vars => ReadyInv'
  BY BeginKeeps, ReconcileKeeps, FunctionsKeep, ReadNextKeeps, ProcessStatusKeeps, OthersKeep
  DEF Next, Operator

\* Whatever is amiss, changes or is edited, and wherever the operator is
\* interrupted: a Kabanero is only said to be ready with all its components.
THEOREM ReadyAlwaysMeansAll == Spec => []ReadyMeansAll
<1>1. ReadyInv => ReadyMeansAll
  BY DEF ReadyInv, StoredInv, ReadyMeansAll, Fine
<1> QED
  BY <1>1, InitReady, NextReady, PTL DEF Spec

-----------------------------------------------------------------------------
(* The functions and their places *)

\* There are thirteen functions.
LEMMA Thirteen ==
    \A i \in 1..13 : i = 1 \/ i = 2 \/ i = 3 \/ i = 4 \/ i = 5 \/ i = 6 \/ i = 7 \/ i = 8 \/ i = 9
                        \/ i = 10 \/ i = 11 \/ i = 12 \/ i = 13
  OBVIOUS

LEMMA OrderNumbers ==
    /\ Order[1] = "stack controller" /\ Order[2] = "appsody" /\ Order[3] = "tekton"
    /\ Order[4] = "serverless" /\ Order[5] = "cli" /\ Order[6] = "landing" /\ Order[7] = "kappnav"
    /\ Order[8] = "crw" /\ Order[9] = "events" /\ Order[10] = "webhook" /\ Order[11] = "sso"
    /\ Order[12] = "gitops" /\ Order[13] = "targets"
  BY DEF Order

LEMMA ReadsNumbers ==
    /\ Reads[1] = StackController /\ Reads[2] = Appsody /\ Reads[3] = Tekton
    /\ Reads[4] = Serverless /\ Reads[5] = CliRoute /\ Reads[6] = LandingPage /\ Reads[7] = Kappnav
    /\ Reads[8] = CRW /\ Reads[9] = Events /\ Reads[10] = Webhook /\ Reads[11] = Sso
    /\ Reads[12] = <<"gitops">> /\ Reads[13] = <<"targets">>
  BY DEF Reads

LEMMA OnePlace == \A i, j \in 1..13 : Order[i] = Order[j] => i = j
<1>1. /\ \A i \in 1..13 : Order[i] = "stack controller" => i = 1
      /\ \A i \in 1..13 : Order[i] = "appsody" => i = 2
      /\ \A i \in 1..13 : Order[i] = "tekton" => i = 3
      /\ \A i \in 1..13 : Order[i] = "serverless" => i = 4
      /\ \A i \in 1..13 : Order[i] = "cli" => i = 5
      /\ \A i \in 1..13 : Order[i] = "landing" => i = 6
      /\ \A i \in 1..13 : Order[i] = "kappnav" => i = 7
  BY Thirteen, OrderNumbers, Zenon
<1>2. /\ \A i \in 1..13 : Order[i] = "crw" => i = 8
      /\ \A i \in 1..13 : Order[i] = "events" => i = 9
      /\ \A i \in 1..13 : Order[i] = "webhook" => i = 10
      /\ \A i \in 1..13 : Order[i] = "sso" => i = 11
      /\ \A i \in 1..13 : Order[i] = "gitops" => i = 12
      /\ \A i \in 1..13 : Order[i] = "targets" => i = 13
  BY Thirteen, OrderNumbers, Zenon
<1> SUFFICES ASSUME NEW i \in 1..13, NEW j \in 1..13, Order[i] = Order[j]
             PROVE  i = j
  OBVIOUS
<1>3. CASE j = 1
  BY <1>3, <1>1, OrderNumbers, Zenon
<1>4. CASE j = 2
  BY <1>4, <1>1, OrderNumbers, Zenon
<1>5. CASE j = 3
  BY <1>5, <1>1, OrderNumbers, Zenon
<1>6. CASE j = 4
  BY <1>6, <1>1, OrderNumbers, Zenon
<1>7. CASE j = 5
  BY <1>7, <1>1, OrderNumbers, Zenon
<1>8. CASE j = 6
  BY <1>8, <1>1, OrderNumbers, Zenon
<1>9. CASE j = 7
  BY <1>9, <1>1, OrderNumbers, Zenon
<1>10. CASE j = 8
  BY <1>10, <1>2, OrderNumbers, Zenon
<1>11. CASE j = 9
  BY <1>11, <1>2, OrderNumbers, Zenon
<1>12. CASE j = 10
  BY <1>12, <1>2, OrderNumbers, Zenon
<1>13. CASE j = 11
  BY <1>13, <1>2, OrderNumbers, Zenon
<1>14. CASE j = 12
  BY <1>14, <1>2, OrderNumbers, Zenon
<1>15. CASE j = 13
  BY <1>15, <1>2, OrderNumbers, Zenon
<1> QED
  BY <1>3, <1>4, <1>5, <1>6, <1>7, <1>8, <1>9, <1>10, <1>11, <1>12, <1>13, <1>14, <1>15, Thirteen, Zenon

-----------------------------------------------------------------------------
(* What the functions read *)

\* All but KAppNav itself.
Plain ==
    {"controller version", "controller deployment", "controller available",
     "tekton config", "tekton conditions", "tekton installed",
     "knative serving", "knative ready", "cli route", "cli route admitted",
     "landing client", "landing version", "landing pods", "landing pods ready",
     "kappnav ui route", "ui route admitted", "kappnav api route", "api route admitted",
     "kappnav pods", "kappnav pod ready", "admin secret", "admin secret keys",
     "postgres scheduled", "postgres available", "sso available", "gitops", "targets",
     "appsody subscription", "appsody csv", "appsody deployment", "appsody conditions",
     "appsody condition", "appsody available", "serverless subscription", "serverless csv",
     "crw subscription", "crw csv", "che", "che status", "crw version", "che available",
     "events version", "events deployment", "events available",
     "webhook deployment", "webhook available", "mutating webhook", "validating webhook"}

LEMMA NotKappnav == "kappnav" \notin Plain
  BY Zenon DEF Plain

Row(r, n) == r \in Seq(Plain) /\ Len(r) = n

\* Short rows.
LEMMA Rows ==
    /\ \A a \in Plain : Row(<<a>>, 1)
    /\ \A a, b \in Plain : Row(<<a, b>>, 2)
    /\ \A a, b, c \in Plain : Row(<<a, b, c>>, 3)
    /\ \A a, b, c, d \in Plain : Row(<<a, b, c, d>>, 4)
  BY DEF Row

\* Rows that are joined.
LEMMA Joined ==
    ASSUME NEW S, NEW a \in Seq(S), NEW b \in Seq(S), NEW m \in Nat, NEW n \in Nat,
           Len(a) = m, Len(b) = n
    PROVE  a \o b \in Seq(S) /\ Len(a \o b) = m + n
  BY ConcatProperties

LEMMA ShortRows ==
    /\ Row(StackController, 3) /\ Row(Tekton, 3) /\ Row(KnativeServing, 2) /\ Row(CliRoute, 2)
    /\ Row(LandingPage, 4) /\ Row(KappnavRoutes, 4) /\ Row(AdminSecret, 2)
    /\ Row(<<"gitops">>, 1) /\ Row(<<"targets">>, 1)
<1>1. Row(StackController, 3)
  <2>1. "controller version" \in Plain /\ "controller deployment" \in Plain /\ "controller available" \in Plain
    BY Zenon DEF Plain
  <2> QED
    BY <2>1, Rows, Zenon DEF StackController
<1>2. Row(Tekton, 3)
  <2>1. "tekton config" \in Plain /\ "tekton conditions" \in Plain /\ "tekton installed" \in Plain
    BY Zenon DEF Plain
  <2> QED
    BY <2>1, Rows, Zenon DEF Tekton
<1>3. Row(KnativeServing, 2)
  <2>1. "knative serving" \in Plain /\ "knative ready" \in Plain
    BY Zenon DEF Plain
  <2> QED
    BY <2>1, Rows, Zenon DEF KnativeServing
<1>4. Row(CliRoute, 2)
  <2>1. "cli route" \in Plain /\ "cli route admitted" \in Plain
    BY Zenon DEF Plain
  <2> QED
    BY <2>1, Rows, Zenon DEF CliRoute
<1>5. Row(LandingPage, 4)
  <2>1. /\ "landing client" \in Plain /\ "landing version" \in Plain
        /\ "landing pods" \in Plain /\ "landing pods ready" \in Plain
    BY Zenon DEF Plain
  <2> QED
    BY <2>1, Rows, Zenon DEF LandingPage
<1>6. Row(KappnavRoutes, 4)
  <2>1. /\ "kappnav ui route" \in Plain /\ "ui route admitted" \in Plain
        /\ "kappnav api route" \in Plain /\ "api route admitted" \in Plain
    BY Zenon DEF Plain
  <2> QED
    BY <2>1, Rows, Zenon DEF KappnavRoutes
<1>7. Row(AdminSecret, 2)
  <2>1. "admin secret" \in Plain /\ "admin secret keys" \in Plain
    BY Zenon DEF Plain
  <2> QED
    BY <2>1, Rows, Zenon DEF AdminSecret
<1>8. Row(<<"gitops">>, 1) /\ Row(<<"targets">>, 1)
  <2>1. "gitops" \in Plain /\ "targets" \in Plain
    BY Zenon DEF Plain
  <2> QED
    BY <2>1, Rows, Zenon
<1> QED
  BY <1>1, <1>2, <1>3, <1>4, <1>5, <1>6, <1>7, <1>8, Zenon

\* The rows that are joined have a row each.
LEMMA JoinedRows ==
    ASSUME NEW a, NEW b, NEW m \in Nat, NEW n \in Nat, Row(a, m), Row(b, n)
    PROVE  Row(a \o b, m + n)
  BY Joined DEF Row

LEMMA LongRows ==
    /\ Row(Appsody, 6) /\ Row(Serverless, 4) /\ Row(CRW, 6) /\ Row(Events, 3)
    /\ Row(Webhook, 4) /\ Row(Sso, 5)
<1>0. /\ 2 + 3 = 5 /\ 2 + 2 = 4 /\ 2 + 4 = 6 /\ 1 + 2 = 3
      /\ 1 \in Nat /\ 2 \in Nat /\ 3 \in Nat /\ 4 \in Nat
  OBVIOUS
<1>1. Row(Appsody, 6)
  <2>1. Row(InstalledCSV("appsody subscription", "appsody csv"), 2)
    <3>1. "appsody subscription" \in Plain /\ "appsody csv" \in Plain
      BY Zenon DEF Plain
    <3> QED
      BY <3>1, Rows, Zenon DEF InstalledCSV
  <2>2. Row(<<"appsody deployment", "appsody conditions", "appsody condition", "appsody available">>, 4)
    <3>1. /\ "appsody deployment" \in Plain /\ "appsody conditions" \in Plain
          /\ "appsody condition" \in Plain /\ "appsody available" \in Plain
      BY Zenon DEF Plain
    <3> QED
      BY <3>1, Rows, Zenon
  <2>3. Row(Appsody, 2 + 4)
    BY <1>0, <2>1, <2>2, JoinedRows, Zenon DEF Appsody
  <2> QED
    BY <1>0, <2>3, Zenon
<1>2. Row(Serverless, 4)
  <2>1. Row(InstalledCSV("serverless subscription", "serverless csv"), 2)
    <3>1. "serverless subscription" \in Plain /\ "serverless csv" \in Plain
      BY Zenon DEF Plain
    <3> QED
      BY <3>1, Rows, Zenon DEF InstalledCSV
  <2>2. Row(Serverless, 2 + 2)
    BY <1>0, <2>1, ShortRows, JoinedRows, Zenon DEF Serverless
  <2> QED
    BY <1>0, <2>2, Zenon
<1>3. Row(CRW, 6)
  <2>1. Row(InstalledCSV("crw subscription", "crw csv"), 2)
    <3>1. "crw subscription" \in Plain /\ "crw csv" \in Plain
      BY Zenon DEF Plain
    <3> QED
      BY <3>1, Rows, Zenon DEF InstalledCSV
  <2>2. Row(<<"che", "che status", "crw version", "che available">>, 4)
    <3>1. /\ "che" \in Plain /\ "che status" \in Plain
          /\ "crw version" \in Plain /\ "che available" \in Plain
      BY Zenon DEF Plain
    <3> QED
      BY <3>1, Rows, Zenon
  <2>3. Row(CRW, 2 + 4)
    BY <1>0, <2>1, <2>2, JoinedRows, Zenon DEF CRW
  <2> QED
    BY <1>0, <2>3, Zenon
<1>4. Row(Events, 3)
  <2>1. Row(<<"events version">>, 1)
    <3>1. "events version" \in Plain
      BY Zenon DEF Plain
    <3> QED
      BY <3>1, Rows, Zenon
  <2>2. Row(DeploymentStatus("events deployment", "events available"), 2)
    <3>1. "events deployment" \in Plain /\ "events available" \in Plain
      BY Zenon DEF Plain
    <3> QED
      BY <3>1, Rows, Zenon DEF DeploymentStatus
  <2>3. Row(Events, 1 + 2)
    BY <1>0, <2>1, <2>2, JoinedRows, Zenon DEF Events
  <2> QED
    BY <1>0, <2>3, Zenon
<1>5. Row(Webhook, 4)
  <2>1. Row(DeploymentStatus("webhook deployment", "webhook available"), 2)
    <3>1. "webhook deployment" \in Plain /\ "webhook available" \in Plain
      BY Zenon DEF Plain
    <3> QED
      BY <3>1, Rows, Zenon DEF DeploymentStatus
  <2>2. Row(<<"mutating webhook", "validating webhook">>, 2)
    <3>1. "mutating webhook" \in Plain /\ "validating webhook" \in Plain
      BY Zenon DEF Plain
    <3> QED
      BY <3>1, Rows, Zenon
  <2>3. Row(Webhook, 2 + 2)
    BY <1>0, <2>1, <2>2, JoinedRows, Zenon DEF Webhook
  <2> QED
    BY <1>0, <2>3, Zenon
<1>6. Row(Sso, 5)
  <2>1. Row(<<"postgres scheduled", "postgres available", "sso available">>, 3)
    <3>1. "postgres scheduled" \in Plain /\ "postgres available" \in Plain /\ "sso available" \in Plain
      BY Zenon DEF Plain
    <3> QED
      BY <3>1, Rows, Zenon
  <2>2. Row(Sso, 2 + 3)
    BY <1>0, <2>1, ShortRows, JoinedRows, Zenon DEF Sso
  <2> QED
    BY <1>0, <2>2, Zenon
<1> QED
  BY <1>1, <1>2, <1>3, <1>4, <1>5, <1>6, Zenon

\* Only the row of KAppNav has KAppNav itself.
LEMMA KappnavRow == Len(Kappnav) = 7
<1> DEFINE S == Plain \cup {"kappnav"}
<1>1. "kappnav" \in S /\ Plain \subseteq S
  BY Zenon
<1>2. "kappnav pods" \in S /\ "kappnav pod ready" \in S
  BY Zenon DEF Plain
<1> HIDE DEF S
<1>3. \A a, b, c \in S : <<a, b, c>> \in Seq(S) /\ Len(<<a, b, c>>) = 3
  OBVIOUS
<1> DEFINE head == <<"kappnav", "kappnav pods", "kappnav pod ready">>
<1>4. head \in Seq(S) /\ Len(head) = 3
  BY <1>1, <1>2, <1>3, Zenon
<1>5. KappnavRoutes \in Seq(S) /\ Len(KappnavRoutes) = 4
  <2>1. Row(KappnavRoutes, 4)
    BY ShortRows, Zenon
  <2> QED
    BY <1>1, <2>1 DEF Row
<1>6. Kappnav = head \o KappnavRoutes
  BY Zenon DEF Kappnav
<1> HIDE DEF head
<1>7. Len(head \o KappnavRoutes) = 3 + 4
  <2>1. 3 \in Nat /\ 4 \in Nat
    OBVIOUS
  <2> QED
    BY <2>1, <1>4, <1>5, Joined, Zenon
<1>8. 3 + 4 = 7
  OBVIOUS
<1> QED
  BY <1>6, <1>7, <1>8, Zenon

\* What each function reads: some parts, seven at most, and none of them is
\* KAppNav but for its own function.
LEMMA ReadTypes ==
    \A i \in 1..13 :
        /\ ReadsOf(Order[i]) = Reads[i]
        /\ Len(Reads[i]) \in 1..7
        /\ i # 7 => Reads[i] \in Seq(Plain)
<1>1. /\ \E n \in 1..7 : Row(Reads[1], n)
      /\ \E n \in 1..7 : Row(Reads[2], n)
      /\ \E n \in 1..7 : Row(Reads[3], n)
      /\ \E n \in 1..7 : Row(Reads[4], n)
      /\ \E n \in 1..7 : Row(Reads[5], n)
      /\ \E n \in 1..7 : Row(Reads[6], n)
  <2>1. /\ 1 \in 1..7 /\ 2 \in 1..7 /\ 3 \in 1..7
        /\ 4 \in 1..7 /\ 5 \in 1..7 /\ 6 \in 1..7
    OBVIOUS
  <2> QED
    BY <2>1, ReadsNumbers, ShortRows, LongRows, Zenon
<1>2. /\ \E n \in 1..7 : Row(Reads[8], n)
      /\ \E n \in 1..7 : Row(Reads[9], n)
      /\ \E n \in 1..7 : Row(Reads[10], n)
      /\ \E n \in 1..7 : Row(Reads[11], n)
      /\ \E n \in 1..7 : Row(Reads[12], n)
      /\ \E n \in 1..7 : Row(Reads[13], n)
  <2>1. 1 \in 1..7 /\ 3 \in 1..7 /\ 4 \in 1..7 /\ 5 \in 1..7 /\ 6 \in 1..7
    OBVIOUS
  <2> QED
    BY <2>1, ReadsNumbers, ShortRows, LongRows, Zenon
<1>3. Len(Reads[7]) = 7
  BY ReadsNumbers, KappnavRow, Zenon
<1>4. \A i \in 1..13 : i # 7 => \E n \in 1..7 : Row(Reads[i], n)
  BY <1>1, <1>2, Thirteen, Zenon
<1>5. \A i \in 1..13 : ReadsOf(Order[i]) = Reads[i]
  <2> SUFFICES ASSUME NEW i \in 1..13
               PROVE  ReadsOf(Order[i]) = Reads[i]
    OBVIOUS
  <2>1. (CHOOSE j \in DOMAIN Order : Order[j] = Order[i]) = i
    BY Places, OnePlace, Zenon
  <2> QED
    BY <2>1, Zenon DEF ReadsOf
<1>6. 7 \in 1..7
  OBVIOUS
<1>7. \A i \in 1..13 : i # 7 => Reads[i] \in Seq(Plain) /\ Len(Reads[i]) \in 1..7
  BY <1>4 DEF Row
<1>8. \A i \in 1..13 : i = 7 \/ i # 7
  OBVIOUS
<1> QED
  BY <1>3, <1>5, <1>6, <1>7, <1>8, Zenon

-----------------------------------------------------------------------------
(* Types *)

\* Only a component that need not be there is said to be off.
OffIfOptional(status) == \A c \in Components \ Optional : status[c] # "off"

\* The types, and: a function only reads what is in its row.
TypeInv ==
    /\ kab \in Resource /\ loc \in Local
    /\ loc.read \in 1..Len(Reads[loc.at])
    /\ OffIfOptional(kab.status) /\ OffIfOptional(loc.status)
    /\ fresh \in BOOLEAN /\ queued \in BOOLEAN
    /\ amiss \subseteq Parts
    /\ mishaps \in 0..MaxMishaps

\* The fields of the records.
LEMMA Fields ==
    /\ \A r \in Resource : r.disabled \in SUBSET Switched /\ r.status \in Status
    /\ \A l \in Local :
          /\ l.pc \in {"idle", "install", "read", "write"} /\ l.at \in 1..13 /\ l.read \in 1..7
          /\ l.disabled \in SUBSET Switched /\ l.status \in Status
          /\ l.ready \in BOOLEAN /\ l.failed \in BOOLEAN
  BY Places DEF Resource, Local

\* Nothing is said in the beginning.
LEMMA IdleTypes ==
    /\ NoStatus \in Status /\ OffIfOptional(NoStatus)
    /\ IdleState \in Local /\ IdleState.status = NoStatus
    /\ IdleState.read \in 1..Len(Reads[IdleState.at])
<1>1. NoStatus \in Status
  BY DEF NoStatus, Status
<1>2. OffIfOptional(NoStatus)
  BY DEF OffIfOptional, NoStatus
<1>3. 1 \in 1..13 /\ 1 \in 1..7 /\ {} \in SUBSET Switched
  OBVIOUS
<1>4. IdleState \in Local /\ IdleState.status = NoStatus
  BY <1>1, <1>3, Places DEF IdleState, Local
<1>5. IdleState.read = 1 /\ IdleState.at = 1
  BY DEF IdleState
<1>6. 1 \in 1..Len(Reads[1])
  <2>1. Len(Reads[1]) \in 1..7
    BY <1>3, ReadTypes, Zenon
  <2>2. \A n \in 1..7 : 1 \in 1..n
    OBVIOUS
  <2> QED
    BY <2>1, <2>2, Zenon
<1> QED
  BY <1>1, <1>2, <1>4, <1>5, <1>6, Zenon

LEMMA InitTypes == Init => TypeInv
<1> SUFFICES ASSUME Init PROVE TypeInv
  OBVIOUS
<1>1. kab.disabled \in SUBSET Switched /\ kab.status = NoStatus /\ kab.ready = "" /\ KabShape
  BY StatusAssumption, NoStatusType DEF Init, KabShape
<1>2. kab \in Resource
  BY <1>1, IdleTypes DEF KabShape, Resource
<1>3. amiss \subseteq Parts /\ mishaps \in 0..MaxMishaps
  <2>1. amiss \in FirstAmiss /\ mishaps = 0
    BY DEF Init
  <2>2. FirstAmiss \subseteq SUBSET Parts /\ MaxMishaps \in Nat
    BY StatusAssumption
  <2>3. amiss \subseteq Parts
    BY <2>1, <2>2, Zenon
  <2>4. 0 \in 0..MaxMishaps
    BY <2>2
  <2> QED
    BY <2>1, <2>3, <2>4
<1>4. loc = IdleState /\ fresh \in BOOLEAN /\ queued \in BOOLEAN
  BY DEF Init
<1>5. OffIfOptional(kab.status) /\ OffIfOptional(loc.status) /\ loc \in Local
  BY <1>1, <1>4, IdleTypes
<1>6. loc.read \in 1..Len(Reads[loc.at])
  BY <1>4, IdleTypes
<1> QED
  BY <1>2, <1>3, <1>4, <1>5, <1>6 DEF TypeInv

\* A component and its place.
LEMMA ThisPlace ==
    ASSUME TypeInv
    PROVE  /\ This \in Components /\ ReadsOf(This) = Reads[loc.at]
           /\ loc.at \in 1..13 /\ (loc.at = 7 => This = "kappnav")
<1>1. loc.at \in 1..13 /\ This = Order[loc.at]
  BY Fields DEF TypeInv, This
<1> QED
  BY <1>1, ReadTypes, Places, OrderNumbers, Zenon

\* A function that says "off" is one of an optional component.
LEMMA VerdictTypes ==
    ASSUME TypeInv, NEW ready \in BOOLEAN, NEW said \in Sayings,
           said = "off" => This \in Optional, Verdict(ready, said)
    PROVE  TypeInv'
<1>1. Len(Order) = 13 /\ loc.at \in 1..13 /\ This \in Components
  BY ThisPlace, Places
<1> DEFINE status == [loc.status EXCEPT ![This] = said]
           all == AndAlso(loc.ready, This, ready)
           at == IF loc.at = 13 THEN 13 ELSE loc.at + 1
           pc == IF loc.at = 13 THEN "write" ELSE "read"
<1>2. loc.status \in [Components -> Sayings] /\ Status = [Components -> Sayings]
  BY Fields DEF TypeInv, Status, Sayings
<1>3. status \in Status /\ OffIfOptional(status)
  <2>1. status \in Status
    BY <1>1, <1>2
  <2>2. ASSUME NEW c \in Components \ Optional PROVE status[c] # "off"
    <3>1. CASE c = This
      BY <1>1, <1>2, <3>1
    <3>2. CASE c # This
      BY <1>2, <3>2 DEF TypeInv, OffIfOptional
    <3> QED
      BY <3>1, <3>2
  <2> QED
    BY <2>1, <2>2 DEF OffIfOptional
<1>4. all \in BOOLEAN
  BY Fields DEF TypeInv, AndAlso
<1>5. at \in 1..13 /\ pc \in {"read", "write"} /\ 1 \in 1..7
  BY <1>1
<1>6. loc' = [loc EXCEPT !.status = status, !.ready = all, !.at = at, !.read = 1, !.pc = pc]
  BY <1>1 DEF Verdict, TypeInv, Local
<1> HIDE DEF status, all, at, pc
<1>7. loc' \in Local /\ loc'.status = status /\ loc'.at = at /\ loc'.read = 1
  BY <1>3, <1>4, <1>5, <1>6, Places DEF TypeInv, Local
<1>8. loc'.read \in 1..Len(Reads[loc'.at])
  <2>1. Len(Reads[at]) \in 1..7
    BY <1>5, ReadTypes, Zenon
  <2>2. \A n \in 1..7 : 1 \in 1..n
    OBVIOUS
  <2> QED
    BY <1>7, <2>1, <2>2, Zenon
<1>9. UNCHANGED <<kab, fresh, queued, amiss, mishaps>>
  BY DEF Verdict
<1> QED
  BY <1>3, <1>7, <1>8, <1>9 DEF TypeInv

\* What is only read by the function of KAppNav.
LEMMA OnlyKappnav ==
    ASSUME TypeInv, Next1 \in Absent
    PROVE  This = "kappnav" /\ This \in Optional
<1>1. Next1 = Reads[loc.at][loc.read] /\ loc.at \in 1..13 /\ (loc.at = 7 => This = "kappnav")
  BY ThisPlace, Zenon DEF Next1
<1>2. Next1 = "kappnav"
  BY DEF Absent
<1>3. CASE loc.at = 7
  BY <1>1, <1>3 DEF Optional
<1>4. CASE loc.at # 7
  <2>1. Reads[loc.at] \in Seq(Plain)
    BY <1>1, <1>4, ReadTypes, Zenon
  <2>2. loc.read \in 1..Len(Reads[loc.at])
    BY DEF TypeInv
  <2>3. Reads[loc.at][loc.read] \in Plain
    BY <2>1, <2>2
  <2> QED
    BY <1>1, <1>2, <2>3, NotKappnav, Zenon
<1> QED
  BY <1>3, <1>4

\* What a function has said before is one of its sayings.
LEMMA OldSaying ==
    ASSUME TypeInv
    PROVE  loc.status[This] \in Sayings /\ (loc.status[This] = "off" => This \in Optional)
<1>1. This \in Components
  BY ThisPlace
<1>2. loc.status \in [Components -> Sayings]
  BY Fields DEF TypeInv, Status, Sayings
<1> QED
  BY <1>1, <1>2 DEF TypeInv, OffIfOptional

LEMMA FunctionTypes ==
    ASSUME TypeInv, SwitchedOff \/ FoundReady \/ FoundAmiss \/ ReportStatus
    PROVE  TypeInv'
<1>1. "off" \in Sayings /\ "True" \in Sayings /\ "False" \in Sayings
  BY DEF Sayings
<1>2. CASE SwitchedOff
  <2>1. This \in loc.disabled /\ Verdict(TRUE, "off")
    BY <1>2 DEF SwitchedOff, OffHere
  <2>2. This \in Optional
    BY <2>1, Fields DEF TypeInv, Optional
  <2> QED
    BY <1>1, <2>1, <2>2, VerdictTypes
<1>3. CASE FoundReady
  BY <1>1, <1>3, VerdictTypes DEF FoundReady
<1>4. CASE FoundAmiss
  <2> DEFINE said == IF Next1 \in Absent THEN "off"
                     ELSE IF Next1 \in Keeps THEN loc.status[This] ELSE "False"
  <2>1. Verdict(Next1 \in Absent, said)
    BY <1>4 DEF FoundAmiss
  <2>2. said \in Sayings /\ (said = "off" => This \in Optional)
    BY <1>1, OldSaying, OnlyKappnav
  <2> HIDE DEF said
  <2>3. (Next1 \in Absent) \in BOOLEAN
    OBVIOUS
  <2> QED
    BY <2>1, <2>2, <2>3, VerdictTypes
<1>5. CASE ReportStatus
  <2>1. Verdict(loc.status[This] = "True", loc.status[This])
    BY <1>5 DEF ReportStatus
  <2>2. (loc.status[This] = "True") \in BOOLEAN
    OBVIOUS
  <2> QED
    BY <2>1, <2>2, OldSaying, VerdictTypes
<1> QED
  BY <1>2, <1>3, <1>4, <1>5

LEMMA ReadNextTypes ==
    ASSUME TypeInv, ReadNext
    PROVE  TypeInv'
<1>1. loc.at \in 1..13 /\ ReadsOf(This) = Reads[loc.at]
  BY ThisPlace
<1>2. Len(Reads[loc.at]) \in 1..7
  BY <1>1, ReadTypes, Zenon
<1>3. loc.read # Len(Reads[loc.at])
  BY <1>1, Zenon DEF ReadNext, IsLast
<1>4. loc.read \in 1..Len(Reads[loc.at])
  BY DEF TypeInv
<1>5. loc.read + 1 \in 1..Len(Reads[loc.at]) /\ loc.read + 1 \in 1..7
  <2>1. \A n \in 1..7 : \A i \in 1..n : i # n => i + 1 \in 1..n /\ i + 1 \in 1..7
    OBVIOUS
  <2> QED
    BY <1>2, <1>3, <1>4, <2>1, Zenon
<1>6. loc' = [loc EXCEPT !.read = loc.read + 1] /\ UNCHANGED <<kab, fresh, queued, amiss, mishaps>>
  BY DEF ReadNext
<1>7. loc' \in Local /\ loc'.read = loc.read + 1 /\ loc'.at = loc.at /\ loc'.status = loc.status
  BY <1>5, <1>6, Places DEF TypeInv, Local
<1> QED
  BY <1>5, <1>6, <1>7 DEF TypeInv

LEMMA BeginTypes ==
    ASSUME TypeInv, Begin
    PROVE  TypeInv'
<1>1. loc' = [IdleState EXCEPT !.pc = "install", !.disabled = kab.disabled, !.status = kab.status]
  BY DEF Begin
<1>2. kab.disabled \in SUBSET Switched /\ kab.status \in Status
  BY Fields DEF TypeInv
<1>3. /\ loc' \in Local /\ loc'.status = kab.status
      /\ loc'.read = IdleState.read /\ loc'.at = IdleState.at
  BY <1>1, <1>2, IdleTypes, Places DEF Local
<1>4. loc'.read \in 1..Len(Reads[loc'.at])
  BY <1>3, IdleTypes
<1>5. fresh' = TRUE /\ queued' = FALSE /\ UNCHANGED <<kab, amiss, mishaps>>
  BY DEF Begin
<1> QED
  BY <1>3, <1>4, <1>5 DEF TypeInv

LEMMA ReconcileTypes ==
    ASSUME TypeInv, Reconcile
    PROVE  TypeInv'
<1> DEFINE waits == amiss \cap {Webhook[i] : i \in DOMAIN Webhook} # {}
           fails == waits \/ amiss \cap (Reported \cup Versions \cup {"installs"}) # {}
<1>1. PICK reached :
        loc' = [loc EXCEPT !.pc = "read", !.failed = fails,
                           !.status = [c \in Components |->
                              IF c \notin reached THEN loc.status[c]
                              ELSE IF c \in amiss THEN "False" ELSE "True"]]
  BY DEF Reconcile
<1>2. fails \in BOOLEAN
  OBVIOUS
<1> DEFINE status == [c \in Components |-> IF c \notin reached THEN loc.status[c]
                                           ELSE IF c \in amiss THEN "False" ELSE "True"]
<1> HIDE DEF fails, waits
<1>3. status \in Status
  BY Fields DEF TypeInv, Status
<1>4. OffIfOptional(status)
  BY DEF TypeInv, OffIfOptional
<1> HIDE DEF status
<1>5. loc' = [loc EXCEPT !.pc = "read", !.failed = fails, !.status = status]
  BY <1>1 DEF status
<1>6. /\ loc' \in Local /\ loc'.status = status
      /\ loc'.at = loc.at /\ loc'.read = loc.read
  BY <1>2, <1>3, <1>5, Places DEF TypeInv, Local
<1>7. UNCHANGED <<kab, fresh, queued, amiss, mishaps>>
  BY DEF Reconcile
<1> QED
  BY <1>4, <1>6, <1>7 DEF TypeInv

LEMMA ProcessStatusTypes ==
    ASSUME TypeInv, ProcessStatus
    PROVE  TypeInv'
<1>1. kab' \in Resource /\ OffIfOptional(kab'.status)
  <2>1. CASE kab' = kab
    BY <2>1 DEF TypeInv
  <2>2. CASE kab' = [kab EXCEPT !.status = loc.status, !.ready = IF loc.ready THEN "True" ELSE "False"]
    <3>1. loc.status \in Status
      BY Fields DEF TypeInv
    <3>2. kab' \in Resource /\ kab'.status = loc.status
      BY <2>2, <3>1 DEF TypeInv, Resource
    <3> QED
      BY <3>2 DEF TypeInv
  <2> QED
    BY <2>1, <2>2 DEF ProcessStatus
<1>2. queued' \in BOOLEAN
  <2>1. queued' = (queued \/ kab' # kab \/ IsCalledAgain)
    BY DEF ProcessStatus
  <2> QED
    BY <2>1, Zenon
<1>3. loc' = IdleState /\ fresh' = FALSE /\ UNCHANGED <<amiss, mishaps>>
  BY DEF ProcessStatus
<1> QED
  BY <1>1, <1>2, <1>3, IdleTypes DEF TypeInv

LEMMA MishapTypes ==
    ASSUME TypeInv, Mishap
    PROVE  mishaps' \in 0..MaxMishaps
  BY StatusAssumption DEF TypeInv, Mishap

LEMMA OthersTypes ==
    ASSUME TypeInv, Panic \/ Restart \/ ChangeWorld \/ EditKabanero \/ UNCHANGED vars
    PROVE  TypeInv'
<1>1. CASE Panic
  <2>1. loc' = IdleState /\ fresh' = FALSE /\ queued' = TRUE /\ UNCHANGED <<kab, amiss, mishaps>>
    BY <1>1 DEF Panic
  <2> QED
    BY <2>1, IdleTypes DEF TypeInv
<1>2. CASE Restart
  <2>1. loc' = IdleState /\ fresh' = FALSE /\ queued' = TRUE /\ UNCHANGED <<kab, amiss>> /\ Mishap
    BY <1>2 DEF Restart
  <2> QED
    BY <2>1, IdleTypes, MishapTypes DEF TypeInv
<1>3. CASE ChangeWorld
  <2>1. Mishap /\ UNCHANGED <<kab, loc, fresh, queued>>
    BY <1>3 DEF ChangeWorld
  <2>2. PICK p \in Parts : amiss' = IF p \in amiss THEN amiss \ {p} ELSE amiss \cup {p}
    BY <1>3, Zenon DEF ChangeWorld
  <2>3. amiss' \subseteq Parts
    BY <2>2 DEF TypeInv
  <2> QED
    BY <2>1, <2>3, MishapTypes DEF TypeInv
<1>4. CASE EditKabanero
  <2>1. Mishap /\ fresh' = FALSE /\ queued' = TRUE /\ UNCHANGED <<loc, amiss>>
    BY <1>4 DEF EditKabanero
  <2>2. PICK c \in Switched :
          kab' = [kab EXCEPT !.disabled = IF c \in @ THEN @ \ {c} ELSE @ \cup {c}]
    BY <1>4 DEF EditKabanero
  <2>3. kab' \in Resource /\ kab'.status = kab.status
    BY <2>2 DEF TypeInv, Resource
  <2> QED
    BY <2>1, <2>3, MishapTypes DEF TypeInv
<1>5. CASE UNCHANGED vars
  BY <1>5 DEF vars, TypeInv
<1> QED
  BY <1>1, <1>2, <1>3, <1>4, <1>5

LEMMA NextTypes == TypeInv /\ [Next]_vars => TypeInv'
  BY BeginTypes, ReconcileTypes, FunctionTypes, ReadNextTypes, ProcessStatusTypes, OthersTypes
  DEF Next, Operator

\* Types, whatever is amiss, changes or is edited: what is read is in the row
\* of the function that reads it, and only a component that the spec may switch
\* off, or KAppNav, is ever said to be off.
THEOREM TypeCorrect == Spec => []TypeOK
<1>1. TypeInv => TypeOK
  BY DEF TypeInv, OffIfOptional, TypeOK
<1> QED
  BY <1>1, InitTypes, NextTypes, PTL DEF Spec

-----------------------------------------------------------------------------
(* A Kabanero at rest *)

\* What the status of a Kabanero that is ready should say of a component.
\* (KAppNav may come and go unnoticed.)
Says(disabled, status, c) ==
    c # "kappnav" => status[c] = IF c \in disabled THEN "off" ELSE "True"

\* The operator has nothing to do for the Kabanero, and no timer will wake it.
AtRest == loc.pc = "idle" /\ ~queued

\* The Kabanero is ready, and its status is that of its latest spec.
Settled == kab.ready = "True" /\ \A c \in Components : Says(kab.disabled, kab.status, c)

\* Where a function may be when its component is switched off.
SwitchSeen == This \in loc.disabled => loc.read <= IF This = "events" THEN 2 ELSE 1

\* 1. A row of functions begins with the first read of the first one.
\* 2. No function goes past the switch of a component that is off.
\* 3. As long as all are ready, those so far have said what the copy asks for.
\* 4. A copy that is the latest has the latest switches; one that is not will
\*    be followed by another.
\* 5. A Kabanero that is not looked at again is settled.
RestInv ==
    /\ loc.pc = "install" => loc.at = 1 /\ loc.read = 1
    /\ loc.pc = "read" => SwitchSeen
    /\ loc.pc = "read" /\ loc.ready =>
          \A i \in 1..(loc.at - 1) : Says(loc.disabled, loc.status, Order[i])
    /\ loc.pc = "write" /\ loc.ready =>
          \A c \in Components : Says(loc.disabled, loc.status, c)
    /\ loc.pc # "idle" /\ fresh => loc.disabled = kab.disabled
    /\ loc.pc # "idle" /\ ~fresh => queued
    /\ AtRest => Settled

LEMMA InitRest == Init => RestInv
<1>1. Init => loc = IdleState /\ queued = TRUE
  BY DEF Init
<1>2. IdleState.pc = "idle"
  BY DEF IdleState
<1>3. loc.pc = "idle" /\ queued => RestInv
  BY DEF RestInv, AtRest
<1> QED
  BY <1>1, <1>2, <1>3

\* A new reconcile starts with a fresh copy.
LEMMA BeginRest ==
    ASSUME TypeInv, RestInv, Begin
    PROVE  RestInv'
<1>1. loc' = [pc |-> "install", at |-> 1, read |-> 1, disabled |-> kab.disabled,
              status |-> kab.status, ready |-> TRUE, failed |-> FALSE]
  BY DEF Begin, IdleState
<1>2. fresh' = TRUE /\ UNCHANGED kab
  BY DEF Begin
<1> QED
  BY <1>1, <1>2 DEF RestInv, AtRest

\* A reconcile that is dropped is followed by another.
LEMMA IdleRest ==
    ASSUME loc' = IdleState, queued'
    PROVE  RestInv'
<1>1. loc'.pc = "idle"
  BY DEF IdleState
<1> QED
  BY <1>1 DEF RestInv, AtRest

\* The functions begin.
LEMMA ReconcileRest ==
    ASSUME TypeInv, RestInv, Reconcile
    PROVE  RestInv'
<1>1. PICK reached, failed :
        loc' = [loc EXCEPT !.pc = "read", !.failed = failed,
                           !.status = [c \in Components |->
                              IF c \notin reached THEN @[c]
                              ELSE IF c \in amiss THEN "False" ELSE "True"]]
  BY DEF Reconcile
<1>2. loc.pc = "install" /\ UNCHANGED <<kab, fresh, queued>>
  BY DEF Reconcile
<1>3. /\ loc'.pc = "read" /\ loc'.at = 1 /\ loc'.read = 1
      /\ loc'.disabled = loc.disabled
  BY <1>1, <1>2 DEF TypeInv, Local, RestInv
<1>4. SwitchSeen'
  BY <1>3 DEF SwitchSeen
<1>5. 1..(loc'.at - 1) = {}
  BY <1>3
<1> QED
  BY <1>2, <1>3, <1>4, <1>5 DEF RestInv, AtRest

\* A function goes on: past the first read only without a switch, and that of
\* the events past the second.
LEMMA ReadNextRest ==
    ASSUME TypeInv, RestInv, ReadNext
    PROVE  RestInv'
<1>1. loc.pc = "read" /\ ~OffHere /\ UNCHANGED <<kab, fresh, queued>>
  BY DEF ReadNext, Reading
<1>2. /\ loc'.pc = loc.pc /\ loc'.at = loc.at /\ loc'.read = loc.read + 1
      /\ loc'.disabled = loc.disabled /\ loc'.status = loc.status /\ loc'.ready = loc.ready
  BY DEF ReadNext, TypeInv, Local
<1>3. This' = This /\ loc.read \in 1..7
  BY <1>2, Fields DEF This, TypeInv
<1>4. SwitchSeen
  BY <1>1 DEF RestInv
<1>5. SwitchSeen'
  BY <1>1, <1>2, <1>3, <1>4 DEF SwitchSeen, OffHere
<1> QED
  BY <1>1, <1>2, <1>5 DEF RestInv, AtRest

\* A function that says "ready" says what the copy asks for.
LEMMA VerdictRest ==
    ASSUME TypeInv, RestInv, loc.pc = "read", NEW ready \in BOOLEAN, NEW said \in Sayings,
           ready => (This # "kappnav" => said = IF This \in loc.disabled THEN "off" ELSE "True"),
           Verdict(ready, said)
    PROVE  RestInv'
<1>1. Len(Order) = 13 /\ loc.at \in 1..13 /\ This \in Components /\ This = Order[loc.at]
  BY ThisPlace, Places DEF This
<1>2. loc.status \in [Components -> Sayings] /\ loc.ready \in BOOLEAN
  BY Fields DEF TypeInv, Status, Sayings
<1>3. /\ loc'.status = [loc.status EXCEPT ![This] = said]
      /\ loc'.at = IF loc.at = 13 THEN loc.at ELSE loc.at + 1
      /\ loc'.pc = IF loc.at = 13 THEN "write" ELSE "read"
      /\ loc'.ready <=> (loc.ready /\ ready)
      /\ loc'.read = 1 /\ loc'.disabled = loc.disabled
  BY <1>1 DEF Verdict, AndAlso, TypeInv, Local
<1>4. UNCHANGED <<kab, fresh, queued>>
  BY DEF Verdict
<1>5. ASSUME loc'.ready, NEW i \in 1..loc.at
      PROVE  Says(loc'.disabled, loc'.status, Order[i])
  <2>1. loc.ready /\ ready
    BY <1>3, <1>5
  <2>2. Order[i] \in Components
    BY <1>1, Places
  <2>3. CASE Order[i] = This
    BY <1>1, <1>2, <1>3, <2>1, <2>3 DEF Says
  <2>4. CASE Order[i] # This
    <3>1. i \in 1..(loc.at - 1)
      BY <1>1, <2>4
    <3>2. Says(loc.disabled, loc.status, Order[i])
      BY <2>1, <3>1 DEF RestInv
    <3>3. loc'.status[Order[i]] = loc.status[Order[i]]
      BY <1>2, <1>3, <2>2, <2>4
    <3> QED
      BY <1>3, <3>2, <3>3 DEF Says
  <2> QED
    BY <2>3, <2>4
<1>6. CASE loc.at = 13
  <2>1. loc'.pc = "write"
    BY <1>3, <1>6
  <2>2. ASSUME loc'.ready, NEW c \in Components
        PROVE  Says(loc'.disabled, loc'.status, c)
    <3>1. PICK i \in 1..13 : c = Order[i]
      BY Places
    <3> QED
      BY <1>5, <1>6, <2>2, <3>1
  <2> QED
    BY <1>3, <1>4, <2>1, <2>2 DEF RestInv, AtRest
<1>7. CASE loc.at # 13
  <2>1. loc'.pc = "read" /\ loc'.at = loc.at + 1
    BY <1>3, <1>7
  <2>2. 1..(loc'.at - 1) = 1..loc.at
    BY <1>1, <2>1
  <2>3. SwitchSeen'
    BY <1>3 DEF SwitchSeen
  <2> QED
    BY <1>3, <1>4, <1>5, <2>1, <2>2, <2>3 DEF RestInv, AtRest
<1> QED
  BY <1>6, <1>7

\* The function of a component that is switched off does not get to its end.
LEMMA FoundReadyIsOn ==
    ASSUME TypeInv, RestInv, FoundReady
    PROVE  This \notin loc.disabled
<1>1. loc.pc = "read" /\ ~OffHere /\ loc.read = Len(ReadsOf(This))
  BY DEF FoundReady, Reading, IsLast
<1>2. SwitchSeen
  BY <1>1 DEF RestInv
<1>3. loc.at \in 1..13 /\ ReadsOf(This) = Reads[loc.at] /\ This = Order[loc.at]
  BY ThisPlace DEF This
<1>4. loc.read \in 1..7
  BY Fields DEF TypeInv
<1> SUFFICES ASSUME This \in loc.disabled PROVE FALSE
  OBVIOUS
<1>5. This = "events" /\ loc.read = 1
  <2>1. loc.read <= IF This = "events" THEN 2 ELSE 1
    BY <1>2 DEF SwitchSeen
  <2>2. loc.read # IF This = "events" THEN 2 ELSE 1
    BY <1>1 DEF OffHere
  <2> QED
    BY <1>4, <2>1, <2>2
<1>6. loc.at = 9
  <2>1. 9 \in 1..13
    OBVIOUS
  <2>2. Order[9] = "events"
    BY OrderNumbers
  <2>3. loc.at \in 1..13 /\ Order[loc.at] = Order[9]
    BY <1>3, <1>5, <2>2
  <2> QED
    BY <2>1, <2>3, OnePlace
<1>7. Reads[9] = Events /\ Len(Events) = 3
  BY ReadsNumbers, LongRows, Zenon DEF Row
<1> QED
  BY <1>1, <1>3, <1>5, <1>6, <1>7

\* The functions.
LEMMA FunctionsRest ==
    ASSUME TypeInv, RestInv, SwitchedOff \/ FoundReady \/ FoundAmiss \/ ReportStatus
    PROVE  RestInv'
<1>1. "off" \in Sayings /\ "True" \in Sayings /\ "False" \in Sayings
  BY DEF Sayings
<1>2. CASE SwitchedOff
  BY <1>1, <1>2, VerdictRest DEF SwitchedOff, Reading, OffHere
<1>3. CASE FoundReady
  <2>1. This \notin loc.disabled
    BY <1>3, FoundReadyIsOn
  <2> QED
    BY <1>1, <1>3, <2>1, VerdictRest DEF FoundReady, Reading
<1>4. CASE FoundAmiss
  <2> DEFINE ready == Next1 \in Absent
             said == IF Next1 \in Absent THEN "off"
                     ELSE IF Next1 \in Keeps THEN loc.status[This] ELSE "False"
  <2>1. loc.pc = "read" /\ Verdict(ready, said)
    BY <1>4 DEF FoundAmiss, Reading
  <2>2. said \in Sayings
    BY <1>1, OldSaying
  <2>3. ready \in BOOLEAN /\ (ready => This = "kappnav")
    BY OnlyKappnav
  <2> HIDE DEF ready, said
  <2> QED
    BY <2>1, <2>2, <2>3, VerdictRest
<1>5. CASE ReportStatus
  <2>1. /\ loc.pc = "read" /\ This \in Reported
        /\ Verdict(loc.status[This] = "True", loc.status[This])
    BY <1>5 DEF ReportStatus
  <2>2. This \notin loc.disabled
    <3>1. This \notin Switched
      BY <2>1 DEF Reported, Switched
    <3> QED
      BY <3>1, Fields DEF TypeInv
  <2>3. (loc.status[This] = "True") \in BOOLEAN
    OBVIOUS
  <2> QED
    BY <2>1, <2>2, <2>3, OldSaying, VerdictRest
<1> QED
  BY <1>2, <1>3, <1>4, <1>5

\* The Kabanero is left alone only if it was ready and had its status already.
LEMMA ProcessStatusRest ==
    ASSUME TypeInv, RestInv, ProcessStatus
    PROVE  RestInv'
<1>1. loc.pc = "write" /\ loc' = IdleState
  BY DEF ProcessStatus
<1>2. CASE queued'
  BY <1>1, <1>2, IdleRest
<1>3. CASE ~queued'
  <2>1. ~queued /\ kab' = kab /\ loc.ready
    BY <1>3 DEF ProcessStatus, IsCalledAgain
  <2>2. fresh
    BY <1>1, <2>1 DEF RestInv
  <2>3. kab = [kab EXCEPT !.status = loc.status, !.ready = "True"]
    BY <2>1, <2>2 DEF ProcessStatus
  <2>4. kab.status = loc.status /\ kab.ready = "True" /\ kab.disabled = loc.disabled
    BY <1>1, <2>2, <2>3 DEF TypeInv, Resource, RestInv
  <2>5. Settled
    BY <1>1, <2>1, <2>4 DEF Settled, RestInv
  <2>6. Settled' /\ loc'.pc = "idle"
    BY <1>1, <2>1, <2>5 DEF Settled, IdleState
  <2> QED
    BY <2>6 DEF RestInv
<1> QED
  BY <1>2, <1>3

\* The cluster, users, and restarts.
LEMMA OthersRest ==
    ASSUME TypeInv, RestInv, Panic \/ Restart \/ ChangeWorld \/ EditKabanero \/ UNCHANGED vars
    PROVE  RestInv'
<1>1. CASE Panic \/ Restart
  BY <1>1, IdleRest DEF Panic, Restart
<1>2. CASE ChangeWorld \/ UNCHANGED vars
  <2>1. UNCHANGED <<kab, loc, fresh, queued>>
    BY <1>2 DEF ChangeWorld, vars
  <2> QED
    BY <2>1 DEF RestInv, SwitchSeen, This, AtRest, Settled
<1>3. CASE EditKabanero
  <2>1. queued' /\ ~fresh' /\ UNCHANGED loc
    BY <1>3 DEF EditKabanero
  <2> QED
    BY <2>1 DEF RestInv, SwitchSeen, This, AtRest
<1> QED
  BY <1>1, <1>2, <1>3

\* When the operator has come to rest, the Kabanero is ready and its status
\* says of every component what the latest spec asks for: no edit, conflict,
\* restart or panic, and no component that was amiss when it was read, leaves
\* the Kabanero behind unready, or with an outdated status.
THEOREM RestsReady == Spec => [](AtRest => Settled)
<1>1. TypeInv /\ RestInv /\ [Next]_vars => RestInv'
  BY BeginRest, ReconcileRest, ReadNextRest, FunctionsRest, ProcessStatusRest, OthersRest
  DEF Next, Operator
<1>2. RestInv => (AtRest => Settled)
  BY DEF RestInv
<1> QED
  BY <1>1, <1>2, InitRest, InitTypes, NextTypes, PTL DEF Spec
=============================================================================
