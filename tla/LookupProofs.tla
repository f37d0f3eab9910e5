------------------------------ MODULE LookupProofs ------------------------------
(***************************************************************************)
(* Theorems about the window the popup is opened for, on any desktop, with *)
(* any number of reports under way and of scripts left behind, and about   *)
(* what it then lists of any vault.                                        *)
(*                                                                         *)
(* The daemon is told of windows by calls it may handle in any order, from *)
(* a script it starts last of all and from those earlier daemons left.     *)
(* That what it kept is nevertheless the last window, when nothing is      *)
(* under way and nothing was overtaken, rests on what the last report      *)
(* under way says, and on there being none while no script can speak.      *)
(*                                                                         *)
(* The list is sorted by counting, for each secret, those that precede it: *)
(* that every one has a place of its own rests on the order being total.   *)
(***************************************************************************)
EXTENDS Lookup, FiniteSetTheorems, SequenceTheorems, WellFoundedInduction, TLAPS

(***************************************************************************)
(* Least elements, and sequences of reports.                               *)
(***************************************************************************)
\* A set of natural numbers has a least one.
LEMMA LeastOf ==
    ASSUME NEW S, S \subseteq Nat, S # {}
    PROVE  Min(S) \in S /\ \A y \in S : Min(S) =< y
  <1> DEFINE less == OpToRel(<, Nat)
  <1>1. IsWellFoundedOn(less, Nat)
    BY NatLessThanWellFounded
  <1>2. \A x, y \in Nat : x < y => <<x, y>> \in less
    BY DEF OpToRel
  <1> HIDE DEF less
  <1>3. PICK x \in S : \A y \in S : ~(<<y, x>> \in less)
    BY <1>1, WFMin
  <1>4. ASSUME NEW y \in S PROVE x =< y
    <2>1. x \in Nat /\ y \in Nat /\ <<y, x>> \notin less
      BY <1>3
    <2>2. ~(y < x)
      BY <1>2, <2>1
    <2> QED
      BY <2>1, <2>2
  <1> QED
    BY <1>4 DEF Min

\* What is left of the reports when one of them is handled.
LEMMA ReportHandled ==
    ASSUME NEW S, NEW s \in Seq(S), NEW n \in 1 .. Len(s)
    PROVE  /\ RemoveAt(s, n) \in Seq(S)
           /\ Len(RemoveAt(s, n)) = Len(s) - 1
           /\ \A i \in 1 .. Len(s) - 1 :
                  RemoveAt(s, n)[i] = s[IF i < n THEN i ELSE i + 1]
  <1> DEFINE a == SubSeq(s, 1, n - 1)
             b == SubSeq(s, n + 1, Len(s))
  <1>1. Len(s) \in Nat /\ \A i \in 1 .. Len(s) : s[i] \in S
    BY ElementOfSeq, LenProperties
  <1>2. a \in Seq(S) /\ Len(a) = n - 1 /\ \A i \in 1 .. n - 1 : a[i] = s[i]
    BY <1>1, SubSeqProperties
  <1>3. /\ b \in Seq(S) /\ Len(b) = Len(s) - n
        /\ \A i \in 1 .. Len(s) - n : b[i] = s[n + i]
    BY <1>1, SubSeqProperties
  <1> HIDE DEF a, b
  <1>4. /\ a \o b \in Seq(S) /\ Len(a \o b) = Len(a) + Len(b)
        /\ \A i \in 1 .. Len(a) + Len(b) :
               (a \o b)[i] = IF i <= Len(a) THEN a[i] ELSE b[i - Len(a)]
    BY <1>2, <1>3, ConcatProperties
  <1>5. RemoveAt(s, n) = a \o b
    BY DEF RemoveAt, a, b
  <1>6. n \in Int /\ n >= 1 /\ n <= Len(s)
    BY <1>1
  <1>7. ASSUME NEW i \in 1 .. Len(s) - 1
        PROVE  (a \o b)[i] = s[IF i < n THEN i ELSE i + 1]
    <2>1. i \in 1 .. Len(a) + Len(b)
      BY <1>1, <1>2, <1>3, <1>6
    <2>2. CASE i < n
      <3>1. i <= Len(a) /\ i \in 1 .. n - 1
        BY <1>2, <1>6, <2>2
      <3> QED
        BY <1>2, <1>4, <2>1, <2>2, <3>1
    <2>3. CASE ~(i < n)
      <3>1. /\ ~(i <= Len(a)) /\ i - Len(a) \in 1 .. Len(s) - n
            /\ n + (i - Len(a)) = i + 1
        BY <1>1, <1>2, <1>6, <2>3
      <3> QED
        BY <1>3, <1>4, <2>1, <2>3, <3>1
    <2> QED
      BY <2>2, <2>3
  <1>8. Len(a \o b) = Len(s) - 1
    BY <1>1, <1>2, <1>3, <1>4, <1>6
  <1> QED
    BY <1>4, <1>5, <1>7, <1>8

\* What is added to the reports by as many scripts as run.
LEMMA ReportSent ==
    ASSUME NEW S, NEW s \in Seq(S), NEW w \in S, NEW times \in Nat \ {0}
    PROVE  LET t == s \o [n \in 1 .. times |-> w]
           IN  t \in Seq(S) /\ Len(t) = Len(s) + times /\ t[Len(t)] = w
  <1> DEFINE u == [n \in 1 .. times |-> w]
  <1>1. u \in Seq(S) /\ Len(u) = times /\ u[times] = w
    OBVIOUS
  <1> HIDE DEF u
  <1>2. Len(s) \in Nat
    BY LenProperties
  <1> QED
    BY <1>1, <1>2, ConcatProperties DEF u

USE TrackingAssumption

(***************************************************************************)
(* The walk.                                                               *)
(***************************************************************************)
\* The walk ends at a window of an application whose name goes with the hint
\* (url.rs:96-110), or at none.
LEMMA WalkFollowsName ==
    ASSUME NEW hint, NEW mute, FindDocument(hint, mute) # NoWindow
    PROVE  \E n \in DOMAIN Registry :
               /\ HasName(Registry[n], hint)
               /\ \E k \in DOMAIN Registry[n].windows :
                      FindDocument(hint, mute) = Registry[n].windows[k]
  <1>1. ASSUME NEW S, NEW nodes \in Seq(S)
        PROVE  Visited(nodes) \subseteq DOMAIN nodes /\ DOMAIN nodes \subseteq Nat
    <2>1. Len(nodes) \in Nat /\ DOMAIN nodes = 1 .. Len(nodes)
      BY LenProperties
    <2> DEFINE bounds == {MaxBreadth, Len(nodes)}
    <2>2. Min(bounds) \in bounds /\ \A y \in bounds : Min(bounds) =< y
      BY <2>1, LeastOf
    <2>3. Min(bounds) =< Len(nodes)
      BY <2>2
    <2> QED
      BY <2>1, <2>2, <2>3 DEF Visited
  <1>2. Visited(Registry) \subseteq DOMAIN Registry /\ DOMAIN Registry \subseteq Nat
    BY <1>1
  <1>3. ASSUME NEW n \in DOMAIN Registry
        PROVE  LET ws == Registry[n].windows
               IN  Visited(ws) \subseteq DOMAIN ws /\ DOMAIN ws \subseteq Nat
    <2>1. Registry[n] \in [name : Seq(STRING), windows : Seq(Windows)]
      BY ElementOfSeq, LenProperties
    <2> QED
      BY <2>1, <1>1
  <1> DEFINE found == {n \in Visited(Registry) : /\ HasName(Registry[n], hint)
                                                 /\ FirstDocument(Registry[n], mute) # NoWindow}
  <1>4. found # {} /\ FindDocument(hint, mute) = FirstDocument(Registry[Min(found)], mute)
    BY DEF FindDocument
  <1>5. found \subseteq DOMAIN Registry
    BY <1>2
  <1>6. Min(found) \in found
    BY <1>2, <1>4, <1>5, LeastOf
  <1> DEFINE n == Min(found)
             ws == Registry[n].windows
             docs == {k \in Visited(ws) : HasDocument(ws[k], mute)}
  <1>7. /\ n \in DOMAIN Registry
        /\ HasName(Registry[n], hint)
        /\ FirstDocument(Registry[n], mute) # NoWindow
    BY <1>5, <1>6
  <1> HIDE DEF n
  <1>8. docs # {} /\ FirstDocument(Registry[n], mute) = ws[Min(docs)]
    BY <1>7 DEF FirstDocument
  <1>9. docs \subseteq DOMAIN ws /\ DOMAIN ws \subseteq Nat
    BY <1>3, <1>7
  <1>10. Min(docs) \in docs
    BY <1>8, <1>9, LeastOf
  <1> QED
    BY <1>4, <1>7, <1>8, <1>9, <1>10 DEF n

(***************************************************************************)
(* The inductive invariant of tracking.                                    *)
(***************************************************************************)
\* The script of this daemon speaks once its start is over, and reports reach
\* a daemon that has the name only.
StartIsInOrder ==
    /\ script = "running" <=> start = "ready"
    /\ ~Named => reports = <<>>
    /\ start \in {"down", "off", "claim"} => cache = NoWindow
    /\ Named /\ Running = 0 => reports = <<>> /\ cache = NoWindow

\* What is known, or under way, is known of the last window.
LastIsReported ==
    /\ active \in Shown => last = active
    /\ Named /\ ~overtaken =>
           IF reports = <<>> THEN cache # NoWindow => cache = last
                             ELSE reports[Len(reports)] = last

\* A hotkey that is being answered found the last window, if it had to.
AskedOfTheLast ==
    asked # Idle /\ asked.sure => asked.window = asked.last /\ asked.last # NoWindow

TrackingIInv == TrackingTypeOK /\ StartIsInOrder /\ LastIsReported /\ AskedOfTheLast

\* A report of a window to a daemon that has the name is the last one under
\* way, and the calls before it were in order if there were any.
LEMMA Reporting ==
    ASSUME TrackingTypeOK, NEW w \in Windows \cup {NoWindow}, NEW times \in Nat,
           Report(w, times)
    PROVE  /\ reports' \in Seq(Shown) /\ Len(reports') <= MaxReports
           /\ overtaken' \in BOOLEAN
           /\ ~(Named /\ w \in Shown /\ times > 0) => UNCHANGED <<reports, overtaken>>
           /\ Named /\ w \in Shown /\ times > 0 =>
                  reports' # <<>> /\ reports'[Len(reports')] = w
  <1>1. CASE Named /\ Reported(w) /\ times > 0
    <2>1. w \in Shown /\ times \in Nat \ {0}
      BY <1>1 DEF Reported, Shown
    <2> DEFINE t == reports \o [n \in 1 .. times |-> w]
    <2>2. reports \in Seq(Shown)
      BY DEF TrackingTypeOK
    <2>3. t \in Seq(Shown) /\ Len(t) = Len(reports) + times /\ t[Len(t)] = w
      BY <2>1, <2>2, ReportSent
    <2> HIDE DEF t
    <2>4. reports' = t /\ Len(reports) + times <= MaxReports
          /\ overtaken' = (overtaken /\ reports # <<>>)
      BY <1>1 DEF Report, t
    <2>5. t # <<>>
      BY <2>1, <2>2, <2>3, LenProperties, EmptySeq
    <2> QED
      BY <1>1, <2>1, <2>3, <2>4, <2>5 DEF TrackingTypeOK
  <1>2. CASE ~(Named /\ Reported(w) /\ times > 0)
    <2>1. UNCHANGED <<reports, overtaken>>
      BY <1>2 DEF Report
    <2>2. ~(Named /\ w \in Shown /\ times > 0)
      BY <1>2 DEF Reported, Shown
    <2> QED
      BY <2>1, <2>2 DEF TrackingTypeOK
  <1> QED
    BY <1>1, <1>2

\* Handling a report: the rest of those under way.
LEMMA Handling ==
    ASSUME TrackingTypeOK, NEW n \in DOMAIN reports, SetActiveWindow(n)
    PROVE  /\ cache' \in Shown
           /\ reports' \in Seq(Shown) /\ Len(reports') <= MaxReports
           /\ n = 1 => \/ reports' = <<>> /\ cache' = reports[Len(reports)]
                       \/ /\ reports' # <<>>
                          /\ reports'[Len(reports')] = reports[Len(reports)]
  <1>1. reports \in Seq(Shown) /\ Len(reports) <= MaxReports
    BY DEF TrackingTypeOK
  <1>2. /\ Len(reports) \in Nat /\ n \in 1 .. Len(reports) /\ reports[n] \in Shown
    BY <1>1, LenProperties, ElementOfSeq
  <1>3. cache' = reports[n] /\ reports' = RemoveAt(reports, n)
    BY DEF SetActiveWindow
  <1>4. /\ reports' \in Seq(Shown) /\ Len(reports') = Len(reports) - 1
        /\ n = 1 /\ Len(reports) > 1 => reports'[Len(reports) - 1] = reports[Len(reports)]
    <2>1. /\ reports' \in Seq(Shown) /\ Len(reports') = Len(reports) - 1
          /\ \A i \in 1 .. Len(reports) - 1 :
                 reports'[i] = reports[IF i < n THEN i ELSE i + 1]
      BY <1>1, <1>2, <1>3, ReportHandled
    <2>2. ASSUME n = 1, Len(reports) > 1
          PROVE  reports'[Len(reports) - 1] = reports[Len(reports)]
      <3> DEFINE i == Len(reports) - 1
      <3>1. i \in 1 .. Len(reports) - 1 /\ ~(i < n) /\ i + 1 = Len(reports)
        BY <1>2, <2>2
      <3> HIDE DEF i
      <3>2. reports'[i] = reports[i + 1]
        BY <2>1, <3>1
      <3> QED
        BY <3>1, <3>2 DEF i
    <2> QED
      BY <2>1, <2>2
  <1>5. Len(reports') = 0 <=> reports' = <<>>
    BY <1>4, EmptySeq
  <1> QED
    BY <1>1, <1>2, <1>3, <1>4, <1>5

\* No reports under way.
LEMMA NoReports == <<>> \in Seq(Shown) /\ Len(<<>>) = 0 /\ 0 <= MaxReports
  BY EmptySeq

\* A desktop without a daemon satisfies it.
LEMMA TrackingInitInv == TrackingInit => TrackingIInv
  <1> SUFFICES ASSUME TrackingInit PROVE TrackingIInv
    OBVIOUS
  <1>1. TrackingTypeOK
    <2>1. reports \in Seq(Shown) /\ Len(reports) <= MaxReports
      BY NoReports DEF TrackingInit
    <2>2. left \in 0 .. MaxLeft
      BY DEF TrackingInit
    <2>3. pages \in [Windows -> Pages \cup {NoPage}]
      BY DEF TrackingInit
    <2>4. /\ active \in Windows \cup {NoWindow}
          /\ {last, cache} \subseteq Shown \cup {NoWindow}
          /\ asked \in Asked \cup {Idle}
      BY DEF TrackingInit
    <2>5. /\ start \in Starts
          /\ script \in {"none", "stopped", "running"}
          /\ overtaken \in BOOLEAN
      BY DEF TrackingInit, Starts
    <2> QED
      BY <2>1, <2>2, <2>3, <2>4, <2>5 DEF TrackingTypeOK
  <1>2. StartIsInOrder /\ LastIsReported /\ AskedOfTheLast
    BY DEF TrackingInit, StartIsInOrder, LastIsReported, AskedOfTheLast, Named, Running, Shown
  <1> QED
    BY <1>1, <1>2 DEF TrackingIInv

\* The script that is left behind, if one was running, is one more.
LEMMA Abandoned ==
    ASSUME TrackingTypeOK, Abandon
    PROVE  script' = "none" /\ left' \in 0 .. MaxLeft /\ left' = Running
  BY DEF TrackingTypeOK, Abandon, Running

\* A window becomes active (active_window.js, kwin.rs:84-104).
LEMMA ActivateStep ==
    ASSUME TrackingIInv, NEW w \in Windows \cup {NoWindow}, Activate(w)
    PROVE  TrackingIInv'
  <1>1. TrackingTypeOK /\ StartIsInOrder /\ LastIsReported /\ AskedOfTheLast
    BY DEF TrackingIInv
  <1>2. Running \in Nat
    BY <1>1 DEF TrackingTypeOK, Running
  <1>3. /\ Report(w, Running)
        /\ active' = w /\ last' = IF w \in Shown THEN w ELSE last
        /\ UNCHANGED <<start, script, left, cache, pages, asked>>
    BY DEF Activate, scriptVars
  <1>4. /\ reports' \in Seq(Shown) /\ Len(reports') <= MaxReports
        /\ overtaken' \in BOOLEAN
        /\ ~(Named /\ w \in Shown /\ Running > 0) => UNCHANGED <<reports, overtaken>>
        /\ Named /\ w \in Shown /\ Running > 0 => reports' # <<>> /\ reports'[Len(reports')] = w
    BY <1>1, <1>2, <1>3, Reporting
  <1>5. TrackingTypeOK'
    BY <1>1, <1>3, <1>4 DEF TrackingTypeOK
  <1>6. Named' = Named /\ Running' = Running
    BY <1>3 DEF Named, Running
  <1>7. StartIsInOrder'
    BY <1>1, <1>2, <1>3, <1>4, <1>6 DEF StartIsInOrder
  <1>8. AskedOfTheLast'
    BY <1>1, <1>3 DEF AskedOfTheLast
  <1>9. LastIsReported'
    <2>1. CASE Named /\ w \in Shown /\ Running > 0
      BY <2>1, <1>3, <1>4 DEF LastIsReported
    <2>2. CASE ~Named
      BY <2>2, <1>3, <1>6 DEF LastIsReported
    <2>3. CASE Named /\ w \notin Shown
      BY <2>3, <1>1, <1>3, <1>4 DEF LastIsReported
    <2>4. CASE Named /\ Running = 0
      BY <2>4, <1>1, <1>3, <1>4 DEF LastIsReported, StartIsInOrder
    <2> QED
      BY <1>2, <2>1, <2>2, <2>3, <2>4
  <1> QED
    BY <1>5, <1>7, <1>8, <1>9 DEF TrackingIInv

\* A report is handled, in order or not (kwin.rs:84-104).
LEMMA HandleStep ==
    ASSUME TrackingIInv, NEW n, SetActiveWindow(n)
    PROVE  TrackingIInv'
  <1>1. TrackingTypeOK /\ StartIsInOrder /\ LastIsReported /\ AskedOfTheLast
    BY DEF TrackingIInv
  <1>2. /\ n \in DOMAIN reports
        /\ overtaken' = (overtaken \/ n # 1)
        /\ UNCHANGED <<active, last, pages, start, script, left, asked>>
    BY DEF SetActiveWindow, desktopVars, scriptVars
  <1>3. /\ cache' \in Shown
        /\ reports' \in Seq(Shown) /\ Len(reports') <= MaxReports
        /\ n = 1 => \/ reports' = <<>> /\ cache' = reports[Len(reports)]
                    \/ /\ reports' # <<>>
                       /\ reports'[Len(reports')] = reports[Len(reports)]
    BY <1>1, <1>2, Handling
  <1>4. reports # <<>>
    BY <1>2
  <1>5. Named /\ Running # 0
    BY <1>1, <1>4 DEF StartIsInOrder
  <1>6. Named' = Named /\ Running' = Running
    BY <1>2 DEF Named, Running
  <1>7. TrackingTypeOK'
    BY <1>1, <1>2, <1>3 DEF TrackingTypeOK
  <1>8. StartIsInOrder'
    BY <1>1, <1>2, <1>5, <1>6 DEF StartIsInOrder, Named
  <1>9. LastIsReported'
    BY <1>1, <1>2, <1>3, <1>4, <1>5, <1>6 DEF LastIsReported
  <1>10. AskedOfTheLast'
    BY <1>1, <1>2 DEF AskedOfTheLast
  <1> QED
    BY <1>7, <1>8, <1>9, <1>10 DEF TrackingIInv

\* The daemon starts, step by step or not at all (kwin.rs:107-173).
LEMMA StartStep ==
    ASSUME TrackingIInv,
           \/ \E detection \in BOOLEAN : Begin(detection)
           \/ ClaimName \/ WriteScript \/ LoadScript \/ RunScript \/ StartFails
    PROVE  TrackingIInv'
  <1>1. TrackingTypeOK /\ StartIsInOrder /\ LastIsReported /\ AskedOfTheLast
    BY DEF TrackingIInv
  <1>2. AskedOfTheLast'
    BY <1>1 DEF AskedOfTheLast, Begin, ClaimName, WriteScript, LoadScript, RunScript, StartFails
  <1>3. CASE (\E detection \in BOOLEAN : Begin(detection)) \/ ClaimName \/ WriteScript \/ LoadScript
    <2>1. /\ UNCHANGED <<active, last, pages, left, reports, overtaken, cache, asked>>
          /\ start' \in {"claim", "off", "write", "load", "run"}
          /\ script' \in {script, "stopped"}
          /\ script # "running" /\ script' # "running"
          /\ Named \/ (start \in {"down", "claim"} /\ reports = <<>> /\ cache = NoWindow)
      BY <1>1, <1>3
      DEF Begin, ClaimName, WriteScript, LoadScript, desktopVars, scriptVars, reportVars,
          StartIsInOrder, Named
    <2>2. start' \in Starts /\ start' # "ready"
          /\ (start' \in {"off", "claim"} => start = "down" \/ ~Named)
      BY <1>3, <2>1 DEF Begin, ClaimName, WriteScript, LoadScript, Starts, Named
    <2>3. TrackingTypeOK'
      BY <1>1, <2>1, <2>2 DEF TrackingTypeOK
    <2>4. Running' = left /\ Running = left
      BY <1>1, <2>1 DEF Running, TrackingTypeOK
    <2>5. StartIsInOrder'
      BY <1>1, <1>3, <2>1, <2>2, <2>4
      DEF StartIsInOrder, Named, Begin, ClaimName, WriteScript, LoadScript
    <2>6. LastIsReported'
      BY <1>1, <2>1 DEF LastIsReported
    <2> QED
      BY <1>2, <2>3, <2>5, <2>6 DEF TrackingIInv
  <1>4. CASE RunScript
    <2>1. /\ start = "run" /\ start' = "ready" /\ script' = "running" /\ Report(active, 1)
          /\ UNCHANGED <<active, last, pages, left, cache, asked>>
      BY <1>4 DEF RunScript, desktopVars
    <2>2. active \in Windows \cup {NoWindow} /\ Named
      BY <1>1, <2>1 DEF TrackingTypeOK, Named
    <2>3. /\ reports' \in Seq(Shown) /\ Len(reports') <= MaxReports
          /\ overtaken' \in BOOLEAN
          /\ active \notin Shown => UNCHANGED <<reports, overtaken>>
          /\ active \in Shown => reports' # <<>> /\ reports'[Len(reports')] = active
      BY <1>1, <2>1, <2>2, Reporting
    <2>4. TrackingTypeOK'
      BY <1>1, <2>1, <2>3 DEF TrackingTypeOK, Starts
    <2>5. Named' /\ Running' = left + 1
      BY <2>1 DEF Named, Running
    <2>6. StartIsInOrder'
      BY <1>1, <2>1, <2>5 DEF StartIsInOrder, TrackingTypeOK
    <2>7. LastIsReported'
      BY <1>1, <2>1, <2>2, <2>3 DEF LastIsReported
    <2> QED
      BY <1>2, <2>4, <2>6, <2>7 DEF TrackingIInv
  <1>5. CASE StartFails
    <2>1. script' = "none" /\ left' \in 0 .. MaxLeft
      BY <1>1, <1>5, Abandoned DEF StartFails
    <2>2. /\ start' = "failed" /\ reports' = <<>> /\ overtaken' = FALSE
          /\ UNCHANGED <<active, last, pages, cache, asked>>
      BY <1>5 DEF StartFails, desktopVars
    <2>3. TrackingTypeOK'
      <3>1. reports' \in Seq(Shown) /\ Len(reports') <= MaxReports
        BY <2>2, NoReports
      <3> QED
        BY <1>1, <2>1, <2>2, <3>1 DEF TrackingTypeOK, Starts
    <2>4. StartIsInOrder' /\ LastIsReported'
      BY <1>1, <2>1, <2>2 DEF StartIsInOrder, LastIsReported, Named
    <2> QED
      BY <1>2, <2>3, <2>4 DEF TrackingIInv
  <1> QED
    BY <1>3, <1>4, <1>5

\* The daemon ends, in order or not, and forgets (kwin.rs:176-199).
LEMMA EndStep ==
    ASSUME TrackingIInv, Shutdown \/ Crash
    PROVE  TrackingIInv'
  <1>1. TrackingTypeOK /\ LastIsReported
    BY DEF TrackingIInv
  <1>2. script' = "none" /\ left' \in 0 .. MaxLeft
    <2>1. CASE script' = "none" /\ UNCHANGED left
      BY <1>1, <2>1 DEF TrackingTypeOK
    <2>2. CASE Abandon
      BY <1>1, <2>2, Abandoned
    <2> QED
      BY <2>1, <2>2 DEF Shutdown, Crash
  <1>3. /\ start' = "down" /\ reports' = <<>> /\ overtaken' = FALSE
        /\ cache' = NoWindow /\ asked' = Idle
        /\ UNCHANGED <<active, last, pages>>
    BY DEF Shutdown, Crash, Ends, desktopVars
  <1>4. TrackingTypeOK'
    <2>1. reports' \in Seq(Shown) /\ Len(reports') <= MaxReports
      BY <1>3, NoReports
    <2> QED
      BY <1>1, <1>2, <1>3, <2>1 DEF TrackingTypeOK, Starts
  <1>5. StartIsInOrder' /\ LastIsReported' /\ AskedOfTheLast'
    BY <1>1, <1>2, <1>3 DEF StartIsInOrder, LastIsReported, AskedOfTheLast, Named
  <1> QED
    BY <1>4, <1>5 DEF TrackingIInv

\* A hotkey takes what was kept, and its answer takes it away (daemon.rs
\* detect_context).
LEMMA AskStep ==
    ASSUME TrackingIInv, AskBrowser \/ Answered \/ UNCHANGED trackingVars
    PROVE  TrackingIInv'
  <1>1. TrackingTypeOK /\ StartIsInOrder /\ LastIsReported /\ AskedOfTheLast
    BY DEF TrackingIInv
  <1>2. /\ UNCHANGED <<active, last, pages, start, script, left, reports, overtaken, cache>>
        /\ asked' \in {asked, Idle, Found}
    BY DEF AskBrowser, Answered, trackingVars, desktopVars, scriptVars, reportVars
  <1>3. Found \in Asked
    BY <1>1 DEF TrackingTypeOK, Found, Asked, Sure
  <1>4. Found.sure => Found.window = Found.last /\ Found.last # NoWindow
    BY <1>1 DEF Found, Sure, LastIsReported, Named
  <1>5. TrackingTypeOK'
    BY <1>1, <1>2, <1>3 DEF TrackingTypeOK
  <1>6. StartIsInOrder' /\ LastIsReported'
    BY <1>1, <1>2 DEF StartIsInOrder, LastIsReported, Named, Running
  <1>7. AskedOfTheLast'
    BY <1>1, <1>2, <1>4 DEF AskedOfTheLast
  <1> QED
    BY <1>5, <1>6, <1>7 DEF TrackingIInv

\* Every step of the desktop and of the daemon's start and end.
LEMMA TrackingStep == TrackingIInv /\ TrackingNext => TrackingIInv'
  <1> SUFFICES ASSUME TrackingIInv, TrackingNext PROVE TrackingIInv'
    OBVIOUS
  <1>1. ASSUME NEW w \in Shown, NEW page \in Pages \cup {NoPage}, Navigate(w, page)
        PROVE  TrackingIInv'
    BY <1>1 DEF Navigate, TrackingIInv, TrackingTypeOK, StartIsInOrder, LastIsReported,
                AskedOfTheLast, Named, Running, scriptVars, reportVars
  <1> QED
    BY <1>1, ActivateStep, HandleStep, StartStep, EndStep DEF TrackingNext

(***************************************************************************)
(* The theorems.                                                           *)
(***************************************************************************)
\* A popup with its fields.
IsPopup ==
    popup = [open |-> popup.open, context |-> popup.context, secrets |-> popup.secrets,
             query |-> popup.query, rows |-> popup.rows, origin |-> popup.origin]

\* What the popup is opened with.
LEMMA Opening ==
    ASSUME NEW hotkey, NEW source, NEW secrets, ShowPopup(hotkey, source, secrets)
    PROVE  /\ IsPopup'
           /\ popup'.origin.asked = hotkey /\ popup'.origin.source = source
           /\ popup'.context.application = IF hotkey.window = NoWindow
                                           THEN <<>> ELSE AppName(hotkey.window)
  BY DEF ShowPopup, Opened, IsPopup

\* The popup is opened for the last window, if the hotkey had to find it, and
\* for a document of that window's application.
LEMMA OpenedOfTheWindow ==
    ASSUME NamesTellApart, NEW hotkey \in Asked, NEW source, NEW secrets,
           ShowPopup(hotkey, source, secrets),
           hotkey.sure => hotkey.window = hotkey.last /\ hotkey.last # NoWindow,
           \/ source = NoWindow
           \/ \E mute : source = FindDocument(AppName(hotkey.window), mute)
    PROVE  IsPopup' /\ ContextIsOfTheWindow'
  <1>1. /\ IsPopup'
        /\ popup'.origin.asked = hotkey /\ popup'.origin.source = source
        /\ popup'.context.application = IF hotkey.window = NoWindow
                                        THEN <<>> ELSE AppName(hotkey.window)
    BY Opening
  <1>2. ASSUME hotkey.sure, source # NoWindow PROVE Class[source] = Class[hotkey.last]
    <2>1. hotkey.window \in Shown /\ hotkey.window = hotkey.last
      BY <1>2 DEF Asked
    <2>2. PICK mute : source = FindDocument(AppName(hotkey.window), mute)
      BY <1>2
    <2> DEFINE hint == AppName(hotkey.window)
    <2> HIDE DEF hint
    <2>3. source = FindDocument(hint, mute) /\ FindDocument(hint, mute) # NoWindow
      BY <1>2, <2>2 DEF hint
    <2>4. PICK n \in DOMAIN Registry :
              /\ HasName(Registry[n], hint)
              /\ \E k \in DOMAIN Registry[n].windows : source = Registry[n].windows[k]
      <3>1. ASSUME NEW h, FindDocument(h, mute) # NoWindow
            PROVE  \E n \in DOMAIN Registry :
                       /\ HasName(Registry[n], h)
                       /\ \E k \in DOMAIN Registry[n].windows :
                              FindDocument(h, mute) = Registry[n].windows[k]
        BY <3>1, WalkFollowsName
      <3> QED
        BY <2>3, <3>1
    <2>5. \A k \in DOMAIN Registry[n].windows : Class[Registry[n].windows[k]] = Class[hotkey.window]
      <3>1. HasName(Registry[n], AppName(hotkey.window))
        BY <2>4 DEF hint
      <3> QED
        BY <2>1, <3>1 DEF NamesTellApart
    <2> QED
      BY <2>1, <2>4, <2>5
  <1> QED
    BY <1>1, <1>2 DEF ContextIsOfTheWindow

LookupIInv == TrackingIInv /\ IsPopup /\ ContextIsOfTheWindow

\* Every step of the lookup is, for the desktop, one of its own or a hotkey.
LEMMA DesktopSteps ==
    ASSUME TrackingIInv, [Next]_vars
    PROVE  TrackingIInv'
  <1>1. CASE Desktop
    BY <1>1, TrackingStep DEF Desktop
  <1>2. CASE Save
    BY <1>2, AskStep DEF Save, AddByForm, AddByCommand, Edit
  <1>3. ASSUME NEW target, DeleteByCommand(target) PROVE TrackingIInv'
    BY <1>3, AskStep DEF DeleteByCommand
  <1>4. ASSUME NEW unlocked, HotkeyAtOnce(unlocked) \/ UrlTimesOut(unlocked)
                             \/ \E mute : UrlFound(mute, unlocked)
        PROVE  TrackingIInv'
    BY <1>4, AskStep DEF HotkeyAtOnce, DetectAtOnce, UrlTimesOut, UrlFound
  <1>5. CASE HotkeyInBrowser
    BY <1>5, AskStep DEF HotkeyInBrowser
  <1>6. ASSUME Refresh \/ Hide \/ \E query : Type(query) PROVE TrackingIInv'
    BY <1>6, AskStep DEF Refresh, Hide, Type
  <1>7. CASE UNCHANGED vars
    BY <1>7, AskStep DEF vars
  <1> QED
    BY <1>1, <1>2, <1>3, <1>4, <1>5, <1>6, <1>7 DEF Next

\* Every step keeps the popup's window and context together.
LEMMA LookupStep ==
    ASSUME NamesTellApart, LookupIInv, [Next]_vars
    PROVE  LookupIInv'
  <1>1. TrackingIInv'
    BY DesktopSteps DEF LookupIInv
  <1>2. ASSUME popup' = popup PROVE IsPopup' /\ ContextIsOfTheWindow'
    BY <1>2 DEF LookupIInv, IsPopup, ContextIsOfTheWindow
  <1>3. ASSUME popup'.open = FALSE, IsPopup' PROVE ContextIsOfTheWindow'
    BY <1>3 DEF ContextIsOfTheWindow
  <1>4. CASE Desktop
    <2>1. (IsPopup' /\ popup'.open = FALSE) \/ popup' = popup
      BY <1>4 DEF Desktop, Closed, IsPopup
    <2> QED
      BY <1>1, <1>2, <1>3, <2>1 DEF LookupIInv
  <1>5. CASE Save \/ (\E target : DeleteByCommand(target)) \/ HotkeyInBrowser \/ UNCHANGED vars
    BY <1>1, <1>2, <1>5
    DEF LookupIInv, Save, AddByForm, AddByCommand, Edit, DeleteByCommand, HotkeyInBrowser, vars
  <1>6. ASSUME NEW unlocked, HotkeyAtOnce(unlocked) PROVE LookupIInv'
    <2>1. Found \in Asked
      BY DEF LookupIInv, TrackingIInv, TrackingTypeOK, Found, Asked, Sure
    <2>2. Found.sure => Found.window = Found.last /\ Found.last # NoWindow
      BY DEF LookupIInv, TrackingIInv, Found, Sure, LastIsReported, Named
    <2>3. ShowPopup(Found, NoWindow, Listed(unlocked))
      BY <1>6 DEF HotkeyAtOnce
    <2> QED
      BY <1>1, <2>1, <2>2, <2>3, OpenedOfTheWindow DEF LookupIInv
  <1>7. ASSUME NEW unlocked, UrlTimesOut(unlocked) \/ \E mute : UrlFound(mute, unlocked)
        PROVE  LookupIInv'
    <2>1. asked \in Asked
      BY <1>7 DEF LookupIInv, TrackingIInv, TrackingTypeOK, UrlTimesOut, UrlFound, Answered
    <2>2. asked.sure => asked.window = asked.last /\ asked.last # NoWindow
      BY <1>7 DEF LookupIInv, TrackingIInv, AskedOfTheLast, UrlTimesOut, UrlFound, Answered
    <2>3. \E source : /\ ShowPopup(asked, source, Listed(unlocked))
                      /\ \/ source = NoWindow
                         \/ \E mute : source = FindDocument(AppName(asked.window), mute)
      BY <1>7 DEF UrlTimesOut, UrlFound
    <2> QED
      BY <1>1, <2>1, <2>2, <2>3, OpenedOfTheWindow DEF LookupIInv
  <1>8. ASSUME Refresh \/ \E query : Type(query) PROVE LookupIInv'
    <2>1. /\ IsPopup'
          /\ popup'.open = popup.open /\ popup'.context = popup.context
          /\ popup'.origin = popup.origin
      BY <1>8 DEF Refresh, Type, LookupIInv, IsPopup
    <2> QED
      BY <1>1, <2>1 DEF LookupIInv, ContextIsOfTheWindow
  <1>9. CASE Hide
    <2>1. IsPopup' /\ popup'.open = FALSE
      BY <1>9 DEF Hide, Closed, IsPopup
    <2> QED
      BY <1>1, <1>3, <2>1 DEF LookupIInv
  <1> QED
    BY <1>4, <1>5, <1>6, <1>7, <1>8, <1>9 DEF Next

\* The desktop, the reports under way and what the daemon keeps of them have
\* their types, and the last report under way is of the last window unless
\* one was overtaken (kwin.rs:84-173, active_window.js).
THEOREM WindowsAreTracked == Spec => []TrackingIInv
  <1>1. Init => TrackingIInv
    BY TrackingInitInv DEF Init
  <1>2. TrackingIInv /\ [Next]_vars => TrackingIInv'
    BY DesktopSteps
  <1> QED
    BY <1>1, <1>2, PTL DEF Spec

\* Whenever nothing is under way and nothing was overtaken, what a started
\* daemon kept is the last window the user was in, the popup apart, however
\* many scripts report, and whenever each was started (kwin.rs:84-173).
THEOREM KeptWindowIsTheLast == Spec => [](Sure => cache = last /\ last # NoWindow)
  <1>1. TrackingIInv => (Sure => cache = last /\ last # NoWindow)
    BY DEF TrackingIInv, LastIsReported, Sure, Named
  <1> QED
    BY <1>1, WindowsAreTracked, PTL

\* On a desktop whose accessible applications can be told apart by name, the
\* popup's context is of the window the user was in, and the URL was read
\* from that application (daemon.rs detect_context, url.rs:86-110).
THEOREM PopupIsForTheWindow ==
    ASSUME NamesTellApart
    PROVE  Spec => []ContextIsOfTheWindow
  <1>1. Init => LookupIInv
    BY TrackingInitInv DEF Init, LookupIInv, Closed, IsPopup, ContextIsOfTheWindow
  <1>2. LookupIInv /\ [Next]_vars => LookupIInv'
    BY LookupStep
  <1>3. LookupIInv => ContextIsOfTheWindow
    BY DEF LookupIInv
  <1> QED
    BY <1>1, <1>2, <1>3, PTL DEF Spec

HIDE TrackingAssumption

(***************************************************************************)
(* The order of the list.                                                  *)
(***************************************************************************)
\* A set of integers with an upper bound has a greatest one.
LEMMA GreatestOf ==
    ASSUME NEW S, S \subseteq Int, S # {}, \E top \in Int : \A x \in S : x =< top
    PROVE  Max(S) \in S /\ \A y \in S : y =< Max(S)
  <1>0. PICK top \in Int : \A x \in S : x =< top
    OBVIOUS
  <1> DEFINE below == {top - x : x \in S}
  <1>1. below \subseteq Nat /\ below # {}
    <2>1. \A x \in S : top - x \in Nat
      BY <1>0
    <2> QED
      BY <2>1
  <1> DEFINE least == Min(below)
  <1>2. least \in below /\ \A d \in below : least =< d
    BY <1>1, LeastOf
  <1> HIDE DEF least
  <1>3. PICK x \in S : least = top - x
    BY <1>2
  <1>4. ASSUME NEW y \in S PROVE y =< x
    <2>1. x \in Int /\ y \in Int /\ top - y \in below
      OBVIOUS
    <2>2. top - x =< top - y
      BY <1>2, <1>3, <2>1
    <2> HIDE DEF below
    <2> QED
      BY <2>1, <2>2
  <1> QED
    BY <1>4 DEF Max

\* The tuples that Searcher::rank compares are ordered by Precedes (fuzzy.rs:142-153).
Keys == [1 .. 5 -> Int]

LEMMA PrecedesOrders ==
    /\ \A a \in Keys : ~Precedes(a, a)
    /\ \A a, b, c \in Keys : Precedes(a, b) /\ Precedes(b, c) => Precedes(a, c)
    /\ \A a, b \in Keys : a[5] # b[5] => Precedes(a, b) \/ Precedes(b, a)
    /\ \A a, b \in Keys : Precedes(a, b) => a[1] <= b[1]
  <1> DEFINE First(a, b, k) == a[k] < b[k] /\ \A l \in 1 .. k - 1 : a[l] = b[l]
  <1>1. ASSUME NEW a \in Keys, NEW b \in Keys
        PROVE  Precedes(a, b) <=> \E k \in 1 .. 5 : First(a, b, k)
    BY DEF Precedes, Keys
  <1>2. \A a \in Keys : \A k \in 1 .. 5 : a[k] \in Int
    BY DEF Keys
  <1>3. ASSUME NEW a \in Keys PROVE ~Precedes(a, a)
    BY <1>1, <1>2
  <1>4. ASSUME NEW a \in Keys, NEW b \in Keys, NEW c \in Keys, Precedes(a, b), Precedes(b, c)
        PROVE  Precedes(a, c)
    <2>1. PICK k \in 1 .. 5 : First(a, b, k)
      BY <1>1, <1>4
    <2>2. PICK m \in 1 .. 5 : First(b, c, m)
      BY <1>1, <1>4
    <2>3. CASE k < m
      <3>1. k \in 1 .. m - 1 /\ \A l \in 1 .. k - 1 : l \in 1 .. m - 1
        BY <2>3
      <3>2. b[k] = c[k] /\ \A l \in 1 .. k - 1 : b[l] = c[l]
        BY <2>2, <3>1
      <3>3. First(a, c, k)
        BY <2>1, <3>2
      <3> QED
        BY <1>1, <3>3
    <2>4. CASE k = m
      <3>1. a[k] < c[k]
        BY <1>2, <2>1, <2>2, <2>4
      <3>2. First(a, c, k)
        BY <2>1, <2>2, <2>4, <3>1
      <3> QED
        BY <1>1, <3>2
    <2>5. CASE k > m
      <3>1. m \in 1 .. k - 1 /\ \A l \in 1 .. m - 1 : l \in 1 .. k - 1
        BY <2>5
      <3>2. a[m] = b[m] /\ \A l \in 1 .. m - 1 : a[l] = b[l]
        BY <2>1, <3>1
      <3>3. First(a, c, m)
        BY <2>2, <3>2
      <3> QED
        BY <1>1, <3>3
    <2> QED
      BY <2>3, <2>4, <2>5
  <1>5. ASSUME NEW a \in Keys, NEW b \in Keys, a[5] # b[5]
        PROVE  Precedes(a, b) \/ Precedes(b, a)
    <2> DEFINE differ == {k \in 1 .. 5 : a[k] # b[k]}
               k == Min(differ)
    <2>1. differ \subseteq Nat /\ 5 \in differ
      BY <1>5
    <2>2. k \in differ /\ \A l \in differ : k =< l
      BY <2>1, LeastOf
    <2> HIDE DEF k
    <2>3. k \in 1 .. 5 /\ a[k] # b[k] /\ a[k] \in Int /\ b[k] \in Int
      BY <1>2, <2>2
    <2>4. \A l \in 1 .. k - 1 : a[l] = b[l] /\ b[l] = a[l]
      BY <2>2, <2>3
    <2>5. First(a, b, k) \/ First(b, a, k)
      BY <2>3, <2>4
    <2> QED
      BY <1>1, <2>3, <2>5
  <1>6. ASSUME NEW a \in Keys, NEW b \in Keys, Precedes(a, b) PROVE a[1] <= b[1]
    <2>1. PICK k \in 1 .. 5 : First(a, b, k)
      BY <1>1, <1>6
    <2>2. a[1] \in Int /\ b[1] \in Int
      BY <1>2
    <2>3. k = 1 \/ 1 \in 1 .. k - 1
      OBVIOUS
    <2> QED
      BY <2>1, <2>2, <2>3
  <1> QED
    BY <1>3, <1>4, <1>5, <1>6

\* Whatever is sorted, each of its elements has one place, and an earlier one
\* precedes a later one.
LEMMA Sorts ==
    ASSUME NEW kept, IsFiniteSet(kept), NEW key \in [kept -> Keys],
           \A i, j \in kept : i # j => key[i][5] # key[j][5]
    PROVE  LET order == InOrder(kept, key)
           IN  /\ Cardinality(kept) \in Nat
               /\ order \in [1 .. Cardinality(kept) -> kept]
               /\ \A i \in kept : \E n \in 1 .. Cardinality(kept) : order[n] = i
               /\ \A n, m \in 1 .. Cardinality(kept) :
                    n < m => Precedes(key[order[n]], key[order[m]])
  <1> DEFINE before(i) == {j \in kept : Precedes(key[j], key[i])}
             size == Cardinality(kept)
             place == [i \in kept |-> Cardinality(before(i)) + 1]
  <1>1. size \in Nat
    BY FS_CardinalityType
  <1>2. \A i, j \in kept :
            /\ key[i] \in Keys
            /\ i # j => Precedes(key[i], key[j]) \/ Precedes(key[j], key[i])
    BY PrecedesOrders
  <1>3. ASSUME NEW i \in kept
        PROVE  /\ IsFiniteSet(before(i)) /\ Cardinality(before(i)) \in Nat
               /\ Cardinality(before(i)) < size
    <2>1. before(i) \in SUBSET kept /\ i \notin before(i)
      BY PrecedesOrders
    <2>2. IsFiniteSet(before(i)) /\ Cardinality(before(i)) <= size
          /\ (size = Cardinality(before(i)) => kept = before(i))
      <3> HIDE DEF before
      <3> QED
        BY <2>1, FS_Subset
    <2>3. Cardinality(before(i)) \in Nat
      <3> HIDE DEF before
      <3> QED
        BY <2>2, FS_CardinalityType
    <2> HIDE DEF before
    <2> QED
      BY <1>1, <2>1, <2>2, <2>3
  <1>4. ASSUME NEW i \in kept, NEW j \in kept, Precedes(key[i], key[j])
        PROVE  Cardinality(before(i)) < Cardinality(before(j))
    <2>1. before(i) \in SUBSET before(j) /\ i \in before(j) /\ i \notin before(i)
      <3>1. \A k \in kept : Precedes(key[k], key[i]) => Precedes(key[k], key[j])
        BY <1>2, <1>4, PrecedesOrders
      <3> QED
        BY <1>4, <3>1, PrecedesOrders
    <2>2. Cardinality(before(i)) <= Cardinality(before(j))
          /\ (Cardinality(before(j)) = Cardinality(before(i)) => before(j) = before(i))
      <3>1. IsFiniteSet(before(j))
        BY <1>3
      <3> HIDE DEF before
      <3> QED
        BY <2>1, <3>1, FS_Subset
    <2>3. Cardinality(before(i)) \in Nat /\ Cardinality(before(j)) \in Nat
      BY <1>3
    <2> HIDE DEF before
    <2> QED
      BY <2>1, <2>2, <2>3
  <1>5. place \in [kept -> 1 .. size]
    <2> HIDE DEF before
    <2> QED
      BY <1>1, <1>3
  <1>6. \A i, j \in kept : i # j => place[i] # place[j]
    <2>1. SUFFICES ASSUME NEW i \in kept, NEW j \in kept, i # j PROVE place[i] # place[j]
      OBVIOUS
    <2>2. Cardinality(before(i)) \in Nat /\ Cardinality(before(j)) \in Nat
      BY <1>3
    <2>3. Cardinality(before(i)) # Cardinality(before(j))
      <3>1. CASE Precedes(key[i], key[j])
        <4>1. Cardinality(before(i)) < Cardinality(before(j))
          BY <1>4, <3>1
        <4> HIDE DEF before
        <4> QED
          BY <2>2, <4>1
      <3>2. CASE Precedes(key[j], key[i])
        <4>1. Cardinality(before(j)) < Cardinality(before(i))
          BY <1>4, <3>2
        <4> HIDE DEF before
        <4> QED
          BY <2>2, <4>1
      <3> QED
        BY <1>2, <2>1, <3>1, <3>2
    <2> HIDE DEF before
    <2> QED
      BY <2>2, <2>3
  <1>7. \A n \in 1 .. size : \E i \in kept : place[i] = n
    <2> HIDE DEF place
    <2>1. place \in Injection(kept, 1 .. size)
      BY <1>5, <1>6 DEF Injection, IsInjective
    <2>2. IsFiniteSet(1 .. size) /\ Cardinality(1 .. size) = size
      BY <1>1, FS_Interval
    <2>3. place \in Surjection(kept, 1 .. size)
      BY <2>1, <2>2, FS_Injection
    <2> QED
      BY <2>3 DEF Surjection
  <1> DEFINE order == InOrder(kept, key)
  <1>8. order = [n \in 1 .. size |-> CHOOSE i \in kept : Cardinality(before(i)) = n - 1]
    BY DEF InOrder
  <1>9. ASSUME NEW n \in 1 .. size PROVE order[n] \in kept /\ place[order[n]] = n
    <2>1. PICK i \in kept : place[i] = n
      BY <1>7
    <2>2. Cardinality(before(i)) = n - 1
      <3>1. Cardinality(before(i)) \in Nat
        BY <1>3
      <3>2. n \in Int /\ place[i] = Cardinality(before(i)) + 1
        BY <1>1
      <3> HIDE DEF before, place
      <3> QED
        BY <2>1, <3>1, <3>2
    <2>3. order[n] = CHOOSE k \in kept : Cardinality(before(k)) = n - 1
      BY <1>8
    <2>4. order[n] \in kept /\ Cardinality(before(order[n])) = n - 1
      <3> HIDE DEF before, order
      <3> QED
        BY <2>2, <2>3
    <2> HIDE DEF before, order
    <2> QED
      BY <1>1, <2>4
  <1>10. order \in [1 .. size -> kept]
    <2> HIDE DEF place, before
    <2>1. order = [n \in 1 .. size |-> order[n]]
      BY <1>8
    <2> HIDE DEF order
    <2> QED
      BY <1>9, <2>1
  <1>11. ASSUME NEW i \in kept PROVE \E n \in 1 .. size : order[n] = i
    <2> HIDE DEF place, order
    <2>1. place[i] \in 1 .. size
      BY <1>5
    <2>2. place[order[place[i]]] = place[i] /\ order[place[i]] \in kept
      BY <1>9, <2>1
    <2> QED
      BY <1>6, <2>1, <2>2
  <1>12. ASSUME NEW n \in 1 .. size, NEW m \in 1 .. size, n < m
         PROVE  Precedes(key[order[n]], key[order[m]])
    <2>1. /\ order[n] \in kept /\ place[order[n]] = n
          /\ order[m] \in kept /\ place[order[m]] = m
      BY <1>9
    <2> DEFINE i == order[n]
               j == order[m]
    <2>2. i \in kept /\ j \in kept /\ place[i] = n /\ place[j] = m
      BY <2>1
    <2> HIDE DEF i, j
    <2>3. i # j
      <3> HIDE DEF place
      <3> QED
        BY <1>1, <1>12, <2>2
    <2>4. ASSUME Precedes(key[j], key[i]) PROVE FALSE
      <3>1. Cardinality(before(j)) < Cardinality(before(i))
        BY <1>4, <2>2, <2>4
      <3>2. Cardinality(before(j)) \in Nat /\ Cardinality(before(i)) \in Nat
        BY <1>3, <2>2
      <3> HIDE DEF before
      <3> QED
        BY <1>12, <2>2, <3>1, <3>2
    <2> QED
      BY <1>2, <2>2, <2>3, <2>4 DEF i, j
  <1> HIDE DEF place, before, order
  <1> QED
    BY <1>1, <1>10, <1>11, <1>12 DEF order

(***************************************************************************)
(* What a secret scores.                                                   *)
(***************************************************************************)
\* What the form and the command line save.
Metadata ==
    {Built(id, name, written, application, now) :
        id \in Ids, name \in Names, written \in Writings,
        application \in Applications, now \in Times}

\* A secret of the vault by its fields.
LEMMA MetadataFields ==
    ASSUME NEW secret \in Metadata
    PROVE  /\ secret.id \in Ids /\ secret.name \in Names /\ secret.name \in Int
           /\ secret.application \in Applications /\ secret.application \in Seq(STRING)
           /\ secret.updated \in Times /\ secret.updated \in Int
           /\ \E w \in Writings : secret.domain = Filed(w.text) /\ secret.site = w.site
  <1>1. PICK id \in Ids, name \in Names, w \in Writings, a \in Applications, now \in Times :
            secret = Built(id, name, w, a, now)
    BY DEF Metadata
  <1>2. secret = [id |-> id, name |-> name, domain |-> Filed(w.text),
                  application |-> a, updated |-> now, site |-> w.site]
    BY <1>1 DEF Built
  <1> QED
    BY <1>2, LookupAssumption

\* A host scores one of the four matches, an application none or one, and the
\* application counts only where the host does not (fuzzy.rs:113-128, domain.rs:86-106).
LEMMA Scores ==
    ASSUME NEW secret, NEW context
    PROVE  LET byHost == HostScore(secret.domain, context.host)
               byName == ApplicationScore(secret.application, context.application)
           IN  /\ byHost \in 0 .. 3 /\ byName \in {0, 1}
               /\ DomainScore(secret, context) \in 0 .. 3
               /\ DomainScore(secret, context) = IF byHost = 0 /\ byName = 1 THEN 1 ELSE byHost
  <1> DEFINE byHost == HostScore(secret.domain, context.host)
             byName == ApplicationScore(secret.application, context.application)
  <1>1. ASSUME NEW a, NEW b PROVE MatchHosts(a, b) \in 0 .. 3
    <2> DEFINE matches ==
            {match \in Unrelated .. Exact :
                \/ match = Unrelated
                \/ /\ NoHost \notin {a, b}
                   /\ \/ match = Exact /\ a = b
                      \/ match = Parent /\ IsParentDomain(a, b)
                      \/ /\ match = Registrable
                         /\ SameOwner(RegistrableDomain(a), RegistrableDomain(b))}
    <2>1. MatchHosts(a, b) = Max(matches)
      BY DEF MatchHosts
    <2>2. matches \subseteq 0 .. 3 /\ 0 \in matches
      BY DEF Unrelated, Exact
    <2> HIDE DEF matches
    <2>3. /\ matches \subseteq Int /\ matches # {}
          /\ \E top \in Int : \A x \in matches : x =< top
      <3>1. \A x \in matches : x =< 3
        BY <2>2
      <3>2. \E top \in Int : \A x \in matches : x =< top
        BY <3>1
      <3>3. matches \subseteq Int /\ matches # {}
        BY <2>2
      <3> QED
        BY <3>2, <3>3
    <2>4. Max(matches) \in matches
      BY <2>3, GreatestOf
    <2> QED
      BY <2>1, <2>2, <2>4
  <1>2. byHost \in 0 .. 3
    BY <1>1 DEF HostScore, MatchDomain, Unrelated
  <1>3. byName \in {0, 1}
    BY DEF ApplicationScore, Unrelated, Registrable
  <1> HIDE DEF byHost, byName
  <1>4. DomainScore(secret, context) = Max({byHost, byName})
    BY DEF DomainScore, byHost, byName
  <1> DEFINE both == {byHost, byName}
  <1>5. both \subseteq Int /\ both # {} /\ \E top \in Int : \A x \in both : x =< top
    <2>1. 3 \in Int /\ \A x \in both : x =< 3
      BY <1>2, <1>3
    <2> QED
      BY <1>2, <1>3, <2>1
  <1>6. Max(both) \in both /\ \A y \in both : y =< Max(both)
    <2> HIDE DEF both
    <2> QED
      BY <1>5, GreatestOf
  <1>7. DomainScore(secret, context) \in {byHost, byName}
        /\ byHost =< DomainScore(secret, context) /\ byName =< DomainScore(secret, context)
    BY <1>4, <1>6
  <1>8. DomainScore(secret, context) = IF byHost = 0 /\ byName = 1 THEN 1 ELSE byHost
    BY <1>2, <1>3, <1>7
  <1>9. DomainScore(secret, context) \in 0 .. 3
    BY <1>2, <1>8
  <1> QED
    BY <1>2, <1>3, <1>8, <1>9 DEF byHost, byName

\* A secret has a score for every query (fuzzy.rs:94-111).
LEMMA FuzzyIsANumber ==
    ASSUME NEW secret \in Metadata, NEW query \in Queries \cup {NoQuery}
    PROVE  FuzzyScore(secret, query) \in Int
  <1>1. CASE query = NoQuery
    BY <1>1 DEF FuzzyScore
  <1>2. CASE query # NoQuery
    <2> DEFINE byName == Fuzzy(<<"name", secret.name>>, query)
               byDomain == Fuzzy(<<"domain", secret.domain>>, query)
               byApplication == Fuzzy(<<"application", secret.application>>, query)
               scores == {Fuzzy(field, query) : field \in Haystacks(secret)}
               top == byName + byDomain + byApplication + 2
    <2>1. /\ <<"name", secret.name>> \in Fields
          /\ <<"domain", secret.domain>> \in Fields
          /\ <<"application", secret.application>> \in Fields
      BY MetadataFields DEF Fields
    <2>2. /\ byName \in Int /\ byName >= -1
          /\ byDomain \in Int /\ byDomain >= -1
          /\ byApplication \in Int /\ byApplication >= -1
      BY <1>2, <2>1, FuzzyAssumption DEF NoMatch
    <2>3. scores \subseteq {byName, byDomain, byApplication} /\ byName \in scores
      BY DEF Haystacks
    <2>4. FuzzyScore(secret, query) = Max(scores)
      BY <1>2 DEF FuzzyScore
    <2> HIDE DEF byName, byDomain, byApplication, scores
    <2>5. scores \subseteq Int /\ scores # {} /\ \E x \in Int : \A y \in scores : y =< x
      <3>1. top \in Int /\ \A y \in scores : y =< top
        BY <2>2, <2>3
      <3> QED
        BY <2>2, <2>3, <3>1
    <2>6. Max(scores) \in scores
      BY <2>5, GreatestOf
    <2> QED
      BY <2>4, <2>5, <2>6
  <1> QED
    BY <1>1, <1>2

(***************************************************************************)
(* What is listed.                                                         *)
(***************************************************************************)
\* The scores rank compares, and the places of what it finds and keeps.
Near(secrets, context) == [i \in DOMAIN secrets |-> DomainScore(secrets[i], context)]

FoundBy(secrets, query) == {i \in DOMAIN secrets : FuzzyScore(secrets[i], query) # NoMatch}

Kept(secrets, query, context) ==
    Retained(FoundBy(secrets, query), Near(secrets, context), context.host)

\* The rows are what was retained of what the query finds, the closest to the
\* context first (fuzzy.rs:113-153).
LEMMA Ranking ==
    ASSUME NEW secrets \in Seq(Metadata), NEW query \in Queries \cup {NoQuery}, NEW context
    PROVE  LET rows == Rank(secrets, query, context)
           IN  /\ rows \in Seq(Metadata)
               /\ ToSet(rows) = {secrets[i] : i \in Kept(secrets, query, context)}
               /\ \A n, m \in DOMAIN rows :
                    n < m => DomainScore(rows[n], context) >= DomainScore(rows[m], context)
  <1> DEFINE all == DOMAIN secrets
             near == [i \in DOMAIN secrets |-> DomainScore(secrets[i], context)]
             fuzzy == [i \in DOMAIN secrets |-> FuzzyScore(secrets[i], query)]
             found == {i \in DOMAIN secrets : FuzzyScore(secrets[i], query) # NoMatch}
             kept == Retained(found, near, context.host)
             key == [i \in kept |->
                        <<-near[i], -fuzzy[i], secrets[i].name, -secrets[i].updated, i>>]
             order == InOrder(kept, key)
             rows == Rank(secrets, query, context)
             size == Cardinality(kept)
  <1>1. Len(secrets) \in Nat /\ all = 1 .. Len(secrets) /\ \A i \in all : secrets[i] \in Metadata
    BY ElementOfSeq, LenProperties
  <1>2. kept \subseteq all
    BY DEF Retained
  <1>3. rows = [n \in DOMAIN order |-> secrets[order[n]]]
    <2>1. found = {i \in DOMAIN secrets : fuzzy[i] # NoMatch}
      OBVIOUS
    <2>2. Ranked(secrets, near, fuzzy, context.host) =
              [n \in DOMAIN order |-> secrets[order[n]]]
      BY <2>1 DEF Ranked, Sorted
    <2> QED
      BY <2>2 DEF Rank
  <1>4. ASSUME NEW i \in all
        PROVE  /\ i \in Int /\ near[i] = DomainScore(secrets[i], context) /\ near[i] \in Int
               /\ fuzzy[i] \in Int /\ secrets[i].name \in Int /\ secrets[i].updated \in Int
    <2>1. i \in Int /\ secrets[i] \in Metadata
      BY <1>1
    <2>2. DomainScore(secrets[i], context) \in 0 .. 3
      BY Scores
    <2>3. FuzzyScore(secrets[i], query) \in Int
      BY <2>1, FuzzyIsANumber
    <2>4. secrets[i].name \in Int /\ secrets[i].updated \in Int
      BY <2>1, MetadataFields
    <2>5. near[i] = DomainScore(secrets[i], context) /\ fuzzy[i] = FuzzyScore(secrets[i], query)
      OBVIOUS
    <2> HIDE DEF near, fuzzy
    <2> QED
      BY <2>1, <2>2, <2>3, <2>4, <2>5
  <1>5. key \in [kept -> Keys] /\ \A i \in kept : key[i][5] = i /\ key[i][1] = -near[i]
    <2> HIDE DEF near, fuzzy, kept, all
    <2>1. ASSUME NEW a \in Int, NEW b \in Int, NEW c \in Int, NEW d \in Int, NEW e \in Int
          PROVE  /\ <<a, b, c, d, e>> \in Keys
                 /\ <<a, b, c, d, e>>[5] = e /\ <<a, b, c, d, e>>[1] = a
      BY DEF Keys
    <2>2. ASSUME NEW i \in kept PROVE key[i] \in Keys /\ key[i][5] = i /\ key[i][1] = -near[i]
      <3>1. i \in all
        BY <1>2
      <3>2. /\ -near[i] \in Int /\ -fuzzy[i] \in Int /\ secrets[i].name \in Int
            /\ -secrets[i].updated \in Int /\ i \in Int
        BY <1>4, <3>1
      <3>3. key[i] = <<-near[i], -fuzzy[i], secrets[i].name, -secrets[i].updated, i>>
        OBVIOUS
      <3> HIDE DEF key
      <3> DEFINE a == -near[i]
                 b == -fuzzy[i]
                 c == secrets[i].name
                 d == -secrets[i].updated
      <3>4. a \in Int /\ b \in Int /\ c \in Int /\ d \in Int /\ i \in Int
        BY <3>2
      <3>5. key[i] = <<a, b, c, d, i>> /\ a = -near[i]
        BY <3>3
      <3> HIDE DEF a, b, c, d
      <3>6. <<a, b, c, d, i>> \in Keys /\ <<a, b, c, d, i>>[5] = i /\ <<a, b, c, d, i>>[1] = a
        BY <3>4, <2>1
      <3> QED
        BY <3>5, <3>6
    <2>3. key = [i \in kept |-> key[i]]
      OBVIOUS
    <2> HIDE DEF key
    <2> QED
      BY <2>2, <2>3
  <1>6. IsFiniteSet(kept)
    <2> HIDE DEF kept
    <2>1. IsFiniteSet(1 .. Len(secrets))
      <3>1. \A n \in Nat : IsFiniteSet(1 .. n)
        BY FS_Interval
      <3> QED
        BY <1>1, <3>1
    <2>2. kept \in SUBSET (1 .. Len(secrets))
      BY <1>1, <1>2
    <2> QED
      BY <2>1, <2>2, FS_Subset
  <1>7. /\ size \in Nat
        /\ order \in [1 .. size -> kept]
        /\ \A i \in kept : \E n \in 1 .. size : order[n] = i
        /\ \A n, m \in 1 .. size : n < m => Precedes(key[order[n]], key[order[m]])
    <2>1. \A i, j \in kept : i # j => key[i][5] # key[j][5]
      BY <1>5
    <2> HIDE DEF kept, key
    <2> QED
      BY <1>5, <1>6, <2>1, Sorts
  <1> HIDE DEF order, rows, near, fuzzy, size
  <1>8. order \in [1 .. size -> DOMAIN secrets]
    <2> HIDE DEF kept
    <2> QED
      BY <1>2, <1>7
  <1>9. rows = [n \in 1 .. size |-> secrets[order[n]]]
    BY <1>3, <1>7
  <1>10. /\ rows \in Seq(Metadata) /\ DOMAIN rows = 1 .. size
         /\ ToSet(rows) = {secrets[i] : i \in kept}
    <2> HIDE DEF kept, key, found
    <2>1. /\ rows \in Seq(Metadata) /\ DOMAIN rows = 1 .. size
          /\ ToSet(rows) = {secrets[order[n]] : n \in 1 .. size}
      <3>1. size \in Nat /\ \A n \in 1 .. size : secrets[order[n]] \in Metadata
        BY <1>1, <1>7, <1>8
      <3>2. rows \in Seq(Metadata)
        <4>1. rows \in [1 .. size -> Metadata]
          BY <1>9, <3>1
        <4> QED
          BY <3>1, <4>1, SeqDef
      <3>3. DOMAIN rows = 1 .. size /\ ToSet(rows) = {secrets[order[n]] : n \in 1 .. size}
        BY <1>9 DEF ToSet
      <3> QED
        BY <3>2, <3>3
    <2>2. {secrets[order[n]] : n \in 1 .. size} = {secrets[i] : i \in kept}
      BY <1>7
    <2> QED
      BY <2>1, <2>2
  <1>11. ASSUME NEW n \in 1 .. size, NEW m \in 1 .. size, n < m
         PROVE  DomainScore(rows[n], context) >= DomainScore(rows[m], context)
    <2> DEFINE i == order[n]
               j == order[m]
    <2>1. i \in kept /\ j \in kept /\ Precedes(key[i], key[j])
      BY <1>7, <1>11
    <2>2. rows[n] = secrets[i] /\ rows[m] = secrets[j]
      BY <1>9
    <2> HIDE DEF i, j
    <2>3. -near[i] <= -near[j]
      <3>1. key[i] \in Keys /\ key[j] \in Keys /\ key[i][1] = -near[i] /\ key[j][1] = -near[j]
        BY <1>5, <2>1
      <3> HIDE DEF key, near
      <3> QED
        BY <2>1, <3>1, PrecedesOrders
    <2>4. /\ near[i] \in Int /\ near[j] \in Int
          /\ near[i] = DomainScore(secrets[i], context)
          /\ near[j] = DomainScore(secrets[j], context)
      BY <1>2, <1>4, <2>1
    <2> HIDE DEF near, key, kept
    <2> QED
      BY <2>2, <2>3, <2>4
  <1> HIDE DEF kept
  <1> QED
    BY <1>10, <1>11 DEF rows, kept, near, found, Kept, Near, FoundBy

(***************************************************************************)
(* The list and what it is for.                                            *)
(***************************************************************************)
\* Without capitals there is nothing to lower, and nothing is lowered away.
LEMMA LowerTwice ==
    /\ \A text : Lower(Lower(text)) = Lower(text)
    /\ \A text \in Seq(STRING) : text # <<>> => Lower(text) # <<>>
  <1>1. ASSUME NEW text PROVE Lower(Lower(text)) = Lower(text)
    <2> DEFINE low == Lower(text)
    <2>1. /\ DOMAIN low = DOMAIN text
          /\ \A i \in DOMAIN text :
                 low[i] = IF text[i] \in DOMAIN LowerCase THEN LowerCase[text[i]] ELSE text[i]
          /\ low = [i \in DOMAIN text |-> low[i]]
      BY DEF Lower
    <2> HIDE DEF low
    <2>2. \A i \in DOMAIN low : low[i] \notin DOMAIN LowerCase
      BY <2>1, SearchAssumption
    <2>3. Lower(low) = [i \in DOMAIN text |-> low[i]]
      BY <2>1, <2>2 DEF Lower
    <2> QED
      BY <2>1, <2>3 DEF low
  <1>2. ASSUME NEW text \in Seq(STRING), text # <<>> PROVE Lower(text) # <<>>
    <2>1. DOMAIN Lower(text) = DOMAIN text
      BY DEF Lower
    <2>2. DOMAIN text # {}
      <3>1. Len(text) \in Nat \ {0} /\ DOMAIN text = 1 .. Len(text)
        BY <1>2, LenProperties, EmptySeq
      <3>2. 1 \in 1 .. Len(text)
        BY <3>1
      <3> QED
        BY <3>1, <3>2
    <2> QED
      BY <2>1, <2>2
  <1> QED
    BY <1>1, <1>2

\* The secrets' metadata, no two with one id.
VaultInv ==
    /\ vault \in Seq(Metadata)
    /\ \A i, j \in DOMAIN vault : vault[i].id = vault[j].id => i = j

\* A list on show is what its query ranks, in the context of its origin.
ListInv ==
    /\ popup.secrets \in Seq(Metadata)
    /\ popup.query \in Queries \cup {NoQuery}
    /\ popup.origin \in Origin
    /\ popup.open =>
           /\ popup.context.host = HostOf(popup.origin.page)
           /\ Lower(popup.context.application) = popup.context.application
    /\ \/ popup.rows = Rank(popup.secrets, popup.query, popup.context)
       \/ ~popup.open /\ popup.rows = <<>>

\* What a secret was meant for is what it scores in the popup's context.
LEMMA MeaningIsScored ==
    ASSUME HostsTellSites, ListInv, popup.open, NEW secret \in Metadata
    PROVE  Meant(secret) = DomainScore(secret, popup.context)
  <1> DEFINE page == popup.origin.page
             site == SiteOf(page)
             context == popup.context
             byHost == HostScore(secret.domain, context.host)
             byName == ApplicationScore(secret.application, context.application)
  <1>1. page \in Pages \cup {NoPage} /\ context.host = HostOf(page)
        /\ Lower(context.application) = context.application
    BY DEF ListInv, Origin
  <1>2. PICK w \in Writings : secret.domain = Filed(w.text) /\ secret.site = w.site
    BY MetadataFields
  <1>3. byHost = IF NoSite \in {site, secret.site} THEN Unrelated
                 ELSE Closeness(secret.site, site)
    BY <1>1, <1>2 DEF HostsTellSites
  <1>4. (/\ secret.application # <<>>
         /\ Lower(secret.application) = context.application) <=> byName = 1
    <2>1. secret.application \in Seq(STRING)
      BY MetadataFields
    <2>2. secret.application # <<>> => Lower(secret.application) # <<>>
      BY <2>1, LowerTwice
    <2> QED
      BY <1>1, <2>2 DEF ApplicationScore, Unrelated, Registrable
  <1>5. DomainScore(secret, context) = IF byHost = 0 /\ byName = 1 THEN 1 ELSE byHost
    BY Scores
  <1> HIDE DEF byHost, byName
  <1> QED
    BY <1>3, <1>4, <1>5 DEF Meant, Unrelated, Registrable

\* What an open popup lists is what the properties say of it.
LEMMA ListIsOfTheSite ==
    ASSUME HostsTellSites, ListInv
    PROVE  /\ ToSet(popup.rows) \subseteq ToSet(popup.secrets)
           /\ SiteIsOffered /\ OnlyRelatedAreOffered
  <1> DEFINE secrets == popup.secrets
             context == popup.context
             rows == popup.rows
             near == Near(secrets, context)
             found == FoundBy(secrets, popup.query)
             kept == Kept(secrets, popup.query, context)
  <1>1. secrets \in Seq(Metadata) /\ popup.query \in Queries \cup {NoQuery}
    BY DEF ListInv
  <1>2. \A i \in DOMAIN secrets : secrets[i] \in Metadata
    BY <1>1, ElementOfSeq, LenProperties
  <1>3. ASSUME rows = Rank(secrets, popup.query, context)
        PROVE  /\ rows \in Seq(Metadata)
               /\ ToSet(rows) = {secrets[i] : i \in kept}
               /\ \A n, m \in DOMAIN rows :
                    n < m => DomainScore(rows[n], context) >= DomainScore(rows[m], context)
    <2> DEFINE s == popup.secrets
               q == popup.query
               c == popup.context
    <2> HIDE DEF s, q, c
    <2>1. s \in Seq(Metadata) /\ q \in Queries \cup {NoQuery}
      BY <1>1 DEF s, q
    <2>2. /\ Rank(s, q, c) \in Seq(Metadata)
          /\ ToSet(Rank(s, q, c)) = {s[i] : i \in Kept(s, q, c)}
          /\ \A n, m \in DOMAIN Rank(s, q, c) :
               n < m => DomainScore(Rank(s, q, c)[n], c) >= DomainScore(Rank(s, q, c)[m], c)
      BY <2>1, Ranking
    <2> QED
      BY <1>3, <2>2 DEF s, q, c
  <1>4. kept \subseteq found /\ found \subseteq DOMAIN secrets
    BY DEF Retained, Kept, FoundBy
  <1>5. ToSet(rows) \subseteq ToSet(secrets)
    <2>1. CASE rows = <<>>
      BY <2>1 DEF ToSet
    <2>2. CASE rows = Rank(secrets, popup.query, context)
      BY <1>3, <1>4, <2>2 DEF ToSet
    <2> QED
      BY <2>1, <2>2 DEF ListInv
  <1> SUFFICES ASSUME popup.open PROVE SiteIsOffered /\ OnlyRelatedAreOffered
    BY <1>5 DEF SiteIsOffered, OnlyRelatedAreOffered, OnSite
  <1>6. rows = Rank(secrets, popup.query, context)
    BY DEF ListInv
  <1>7. /\ rows \in Seq(Metadata)
        /\ ToSet(rows) = {secrets[i] : i \in kept}
        /\ \A n, m \in DOMAIN rows :
             n < m => DomainScore(rows[n], context) >= DomainScore(rows[m], context)
    BY <1>3, <1>6
  <1>8. \A secret \in Metadata : Meant(secret) = DomainScore(secret, context)
    BY MeaningIsScored
  <1>9. \A i \in DOMAIN secrets : near[i] = Meant(secrets[i])
    BY <1>2, <1>8 DEF Near
  <1>10. found = {i \in DOMAIN secrets : IsFound(secrets[i])}
    BY DEF IsFound, FoundBy
  <1>11. OnSite <=> context.host # NoHost
    BY DEF ListInv, Origin, HostsTellSites, OnSite
  <1> HIDE DEF near, found, rows, secrets
  <1>12. \A n \in DOMAIN rows : rows[n] \in Metadata
    BY <1>7, ElementOfSeq, LenProperties
  <1>13. ToSet(secrets) = {secrets[i] : i \in DOMAIN secrets}
    BY DEF ToSet
  <1>14. SiteIsOffered
    <2> SUFFICES ASSUME OnSite PROVE SiteIsOffered
      BY DEF SiteIsOffered
    <2>1. ASSUME NEW secret \in ToSet(secrets), Meant(secret) # Unrelated, IsFound(secret)
          PROVE  secret \in ToSet(rows)
      <3>1. PICK i \in DOMAIN secrets : secret = secrets[i]
        BY <1>13
      <3>2. i \in found /\ near[i] # Unrelated
        BY <1>9, <1>10, <2>1, <3>1
      <3>3. i \in kept
        BY <3>2 DEF Retained, Kept, near, found
      <3> QED
        BY <1>7, <3>1, <3>3
    <2>2. ASSUME NEW n \in DOMAIN rows, NEW m \in DOMAIN rows, n < m
          PROVE  Meant(rows[n]) >= Meant(rows[m])
      BY <1>7, <1>8, <1>12, <2>2
    <2> QED
      BY <2>1, <2>2 DEF SiteIsOffered, rows, secrets
  <1>15. OnlyRelatedAreOffered
    <2>1. CASE context.host # NoHost /\ \E i \in found : near[i] # Unrelated
      <3>1. kept = {i \in found : near[i] # Unrelated} /\ kept # {}
        BY <2>1 DEF Retained, Kept, near, found
      <3> HIDE DEF kept
      <3> DEFINE all == {s \in ToSet(secrets) : IsFound(s)}
                 related == {s \in all : Meant(s) # Unrelated}
      <3>2. ToSet(rows) = related
        <4>1. ToSet(rows) \subseteq related
          BY <1>4, <1>7, <1>9, <1>10, <1>13, <3>1
        <4>2. related \subseteq ToSet(rows)
          BY <1>7, <1>9, <1>10, <1>13, <3>1
        <4> QED
          BY <4>1, <4>2
      <3>3. related # {}
        <4>1. PICK i \in kept : TRUE
          BY <3>1
        <4>2. secrets[i] \in ToSet(rows)
          BY <1>7
        <4> QED
          BY <3>2, <4>2
      <3> QED
        BY <1>11, <2>1, <3>2, <3>3 DEF OnlyRelatedAreOffered, rows, secrets
    <2>2. CASE ~(context.host # NoHost /\ \E i \in found : near[i] # Unrelated)
      <3>1. kept = found
        BY <2>2 DEF Retained, Kept, near, found
      <3> HIDE DEF kept
      <3>2. ToSet(rows) = {s \in ToSet(secrets) : IsFound(s)}
        BY <1>7, <1>10, <1>13, <3>1
      <3>3. OnSite => \A s \in ToSet(rows) : Meant(s) = Unrelated
        BY <1>4, <1>7, <1>9, <1>11, <2>2, <3>1
      <3> QED
        BY <3>2, <3>3 DEF OnlyRelatedAreOffered, rows, secrets
    <2> QED
      BY <2>1, <2>2
  <1> QED
    BY <1>14, <1>15

(***************************************************************************)
(* Every step keeps them.                                                  *)
(***************************************************************************)
\* A secret is added (commands.rs:90-111, popup.rs save).
LEMMA VaultAppends ==
    ASSUME VaultInv, NEW secret \in Metadata, secret.id \notin UsedIds,
           vault' = Append(vault, secret)
    PROVE  VaultInv'
  <1>1. vault \in Seq(Metadata) /\ \A i, j \in DOMAIN vault : vault[i].id = vault[j].id => i = j
    BY DEF VaultInv
  <1>2. Len(vault) \in Nat /\ DOMAIN vault = 1 .. Len(vault)
    BY <1>1, LenProperties
  <1>3. /\ vault' \in Seq(Metadata) /\ Len(vault') = Len(vault) + 1
        /\ \A i \in 1 .. Len(vault) : vault'[i] = vault[i]
        /\ vault'[Len(vault) + 1] = secret
    BY <1>1, AppendProperties
  <1>4. DOMAIN vault' = 1 .. Len(vault) + 1
    BY <1>3, LenProperties
  <1>5. \A i \in 1 .. Len(vault) : vault[i].id # secret.id
    BY <1>2 DEF UsedIds
  <1>6. ASSUME NEW i \in DOMAIN vault', NEW j \in DOMAIN vault', vault'[i].id = vault'[j].id
        PROVE  i = j
    <2>1. \A k \in DOMAIN vault' : k \in 1 .. Len(vault) \/ k = Len(vault) + 1
      BY <1>2, <1>4
    <2> QED
      BY <1>1, <1>2, <1>3, <1>5, <1>6, <2>1
  <1> QED
    BY <1>3, <1>6 DEF VaultInv

\* A secret is saved again (popup.rs save).
LEMMA VaultEdited ==
    ASSUME VaultInv, NEW i \in DOMAIN vault, NEW secret \in Metadata,
           secret.id = vault[i].id, vault' = [vault EXCEPT ![i] = secret]
    PROVE  VaultInv'
  <1>1. vault \in Seq(Metadata) /\ \A j, k \in DOMAIN vault : vault[j].id = vault[k].id => j = k
    BY DEF VaultInv
  <1>2. Len(vault) \in Nat /\ vault \in [1 .. Len(vault) -> Metadata]
    BY <1>1, LenProperties
  <1>3. vault' \in [1 .. Len(vault) -> Metadata]
    BY <1>2
  <1>4. vault' \in Seq(Metadata)
    BY <1>2, <1>3, SeqDef
  <1>5. DOMAIN vault' = DOMAIN vault /\ \A j \in DOMAIN vault : vault'[j].id = vault[j].id
    OBVIOUS
  <1> QED
    BY <1>1, <1>4, <1>5 DEF VaultInv

\* A secret is deleted (commands.rs, popup.rs).
LEMMA VaultShrinks ==
    ASSUME VaultInv, NEW n \in DOMAIN vault, vault' = RemoveAt(vault, n)
    PROVE  VaultInv'
  <1>1. vault \in Seq(Metadata) /\ \A j, k \in DOMAIN vault : vault[j].id = vault[k].id => j = k
    BY DEF VaultInv
  <1>2. Len(vault) \in Nat /\ DOMAIN vault = 1 .. Len(vault) /\ n \in 1 .. Len(vault)
    BY <1>1, LenProperties
  <1>3. /\ vault' \in Seq(Metadata) /\ Len(vault') = Len(vault) - 1
        /\ \A i \in 1 .. Len(vault) - 1 : vault'[i] = vault[IF i < n THEN i ELSE i + 1]
    BY <1>1, <1>2, ReportHandled
  <1>4. DOMAIN vault' = 1 .. Len(vault) - 1
    BY <1>3, LenProperties
  <1>5. ASSUME NEW i \in DOMAIN vault', NEW j \in DOMAIN vault', vault'[i].id = vault'[j].id
        PROVE  i = j
    <2> DEFINE from(k) == IF k < n THEN k ELSE k + 1
    <2>1. from(i) \in DOMAIN vault /\ from(j) \in DOMAIN vault
      BY <1>2, <1>4
    <2>2. vault'[i] = vault[from(i)] /\ vault'[j] = vault[from(j)]
      BY <1>3, <1>4
    <2>3. from(i) = from(j)
      <3> HIDE DEF from
      <3> QED
        BY <1>1, <1>5, <2>1, <2>2
    <2> QED
      BY <1>2, <1>4, <2>3
  <1> QED
    BY <1>3, <1>5 DEF VaultInv

\* A form files a domain as it was filed (editor.rs build).
LEMMA EditedIsMetadata ==
    ASSUME HostsTellSites, VaultInv, NEW name \in Names, NEW now \in Times,
           NEW i \in DOMAIN vault
    PROVE  LET secret == Built(vault[i].id, name,
                               [site |-> vault[i].site, text |-> vault[i].domain],
                               vault[i].application, now)
           IN  secret \in Metadata /\ secret.id = vault[i].id
  <1>3. vault[i] \in Metadata
    BY ElementOfSeq, LenProperties DEF VaultInv
  <1>4. PICK w \in Writings : vault[i].domain = Filed(w.text) /\ vault[i].site = w.site
    BY <1>3, MetadataFields
  <1>5. Filed(vault[i].domain) = Filed(w.text)
    BY <1>4 DEF HostsTellSites
  <1>6. Built(vault[i].id, name, w, vault[i].application, now) \in Metadata
    BY <1>3, MetadataFields DEF Metadata
  <1>7. Built(vault[i].id, name, w, vault[i].application, now) =
            Built(vault[i].id, name, [site |-> vault[i].site, text |-> vault[i].domain],
                  vault[i].application, now)
    BY <1>4, <1>5 DEF Built
  <1> QED
    BY <1>6, <1>7 DEF Built

\* Every step keeps what is saved.
LEMMA VaultStep ==
    ASSUME HostsTellSites, VaultInv, [Next]_vars
    PROVE  VaultInv'
  <1>1. ASSUME vault' = vault PROVE VaultInv'
    BY <1>1 DEF VaultInv
  <1>2. CASE Save
    <2>1. PICK name \in Names, now \in Times :
              \/ \E id \in Ids, w \in Writings, a \in Applications :
                     \/ AddByForm(id, name, w, a, now)
                     \/ AddByCommand(id, name, w, a, now)
              \/ \E i \in 1 .. Cardinality(Ids) : Edit(i, name, now)
      BY <1>2 DEF Save
    <2>2. ASSUME NEW id \in Ids, NEW w \in Writings, NEW a \in Applications,
                 AddByForm(id, name, w, a, now) \/ AddByCommand(id, name, w, a, now)
          PROVE  VaultInv'
      <3> DEFINE secret == Built(id, name, w, a, now)
      <3>1. id \notin UsedIds /\ vault' = Append(vault, secret)
        BY <2>2 DEF AddByForm, AddByCommand, Built
      <3>2. secret \in Metadata /\ secret.id = id
        BY DEF Metadata, Built
      <3> HIDE DEF secret
      <3> QED
        BY <3>1, <3>2, VaultAppends
    <2>3. ASSUME NEW i, Edit(i, name, now) PROVE VaultInv'
      <3> DEFINE secret == Built(vault[i].id, name,
                                 [site |-> vault[i].site, text |-> vault[i].domain],
                                 vault[i].application, now)
      <3>1. i \in DOMAIN vault /\ vault' = [vault EXCEPT ![i] = secret]
        BY <2>3 DEF Edit
      <3>2. secret \in Metadata /\ secret.id = vault[i].id
        BY <3>1, EditedIsMetadata
      <3> HIDE DEF secret
      <3> QED
        BY <3>1, <3>2, VaultEdited
    <2> QED
      BY <2>1, <2>2, <2>3
  <1>3. ASSUME NEW target, DeleteByCommand(target) PROVE VaultInv'
    <2> DEFINE n == CHOOSE i \in Targets(target) : TRUE
    <2>1. vault' = RemoveAt(vault, n) /\ Targets(target) # {}
      BY <1>3, FS_EmptySet DEF DeleteByCommand
    <2>2. Targets(target) \subseteq DOMAIN vault
      BY DEF Targets
    <2>3. n \in DOMAIN vault
      BY <2>1, <2>2
    <2> HIDE DEF n
    <2> QED
      BY <2>1, <2>3, VaultShrinks
  <1>4. CASE Desktop \/ HotkeyInBrowser \/ Refresh \/ Hide \/ UNCHANGED vars
    BY <1>1, <1>4 DEF Desktop, HotkeyInBrowser, Refresh, Hide, vars
  <1>5. ASSUME NEW unlocked, \/ HotkeyAtOnce(unlocked) \/ UrlTimesOut(unlocked)
                             \/ \E mute : UrlFound(mute, unlocked)
                             \/ \E query : Type(query)
        PROVE  VaultInv'
    BY <1>1, <1>5 DEF HotkeyAtOnce, UrlTimesOut, UrlFound, Type
  <1> QED
    BY <1>2, <1>3, <1>4, <1>5 DEF Next

\* The window whose document is found is one, and its page is one (url.rs:86-110).
LEMMA SourceIsAWindow ==
    ASSUME TrackingTypeOK, NEW hint, NEW mute, NEW source,
           source \in {NoWindow, FindDocument(hint, mute)}
    PROVE  source \in Windows \cup {NoWindow} /\ PageOf(source) \in Pages \cup {NoPage}
  <1>1. source \in Windows \cup {NoWindow}
    <2>1. CASE source = NoWindow
      BY <2>1
    <2>2. CASE source # NoWindow
      <3>1. PICK n \in DOMAIN Registry :
                \E k \in DOMAIN Registry[n].windows : source = Registry[n].windows[k]
        BY <2>2, WalkFollowsName
      <3>2. Registry[n] \in [name : Seq(STRING), windows : Seq(Windows)]
        <4>1. n \in 1 .. Len(Registry)
          BY TrackingAssumption, LenProperties
        <4> QED
          BY TrackingAssumption, <4>1, ElementOfSeq
      <3>3. Registry[n].windows \in Seq(Windows)
        BY <3>2
      <3>4. \A k \in DOMAIN Registry[n].windows : Registry[n].windows[k] \in Windows
        BY <3>3, ElementOfSeq, LenProperties
      <3> QED
        BY <3>1, <3>4
    <2> QED
      BY <2>1, <2>2
  <1> QED
    BY <1>1 DEF PageOf, TrackingTypeOK

\* A popup that opens lists what it ranks, for where it opens.
LEMMA OpenedList ==
    ASSUME NEW hotkey \in Asked, NEW source \in Windows \cup {NoWindow},
           PageOf(source) \in Pages \cup {NoPage}, NEW secrets \in Seq(Metadata),
           ShowPopup(hotkey, source, secrets)
    PROVE  IsPopup' /\ ListInv'
  <1> DEFINE application == IF hotkey.window = NoWindow THEN <<>> ELSE AppName(hotkey.window)
             page == PageOf(source)
             context == [host |-> HostOf(page), application |-> application]
  <1>1. popup' = [open |-> TRUE, context |-> context, secrets |-> secrets, query |-> NoQuery,
                  rows |-> Rank(secrets, NoQuery, context),
                  origin |-> [asked |-> hotkey, source |-> source, page |-> page]]
    BY DEF ShowPopup, Opened
  <1>2. Lower(application) = application
    <2>1. Lower(<<>>) = <<>>
      BY DEF Lower
    <2>2. \A w : Lower(AppName(w)) = AppName(w)
      BY LowerTwice DEF AppName
    <2> QED
      BY <2>1, <2>2
  <1> HIDE DEF application, page
  <1>3. IsPopup'
    BY <1>1 DEF IsPopup
  <1>4. popup'.origin \in Origin
    BY <1>1 DEF Origin, page
  <1>5. /\ popup'.secrets \in Seq(Metadata) /\ popup'.query \in Queries \cup {NoQuery}
        /\ popup'.context.host = HostOf(popup'.origin.page)
        /\ Lower(popup'.context.application) = popup'.context.application
        /\ popup'.rows = Rank(popup'.secrets, popup'.query, popup'.context)
    BY <1>1, <1>2
  <1> QED
    BY <1>3, <1>4, <1>5 DEF ListInv

OfferIInv == TrackingIInv /\ IsPopup /\ VaultInv /\ ListInv

\* A popup that is not on show is in order.
LEMMA ClosedList ==
    ASSUME NEW kept
    PROVE  LET p == [Closed EXCEPT !.context = kept]
           IN  /\ ~p.open /\ p.rows = <<>> /\ p.secrets \in Seq(Metadata)
               /\ p.query \in Queries \cup {NoQuery} /\ p.origin \in Origin
               /\ p = [open |-> p.open, context |-> p.context, secrets |-> p.secrets,
                       query |-> p.query, rows |-> p.rows, origin |-> p.origin]
  <1> DEFINE p == [Closed EXCEPT !.context = kept]
  <1>1. p = [open |-> FALSE, context |-> kept, secrets |-> <<>>, query |-> NoQuery,
             rows |-> <<>>, origin |-> Nowhere]
    <2> DEFINE before == [host |-> NoHost, application |-> <<>>]
               nothing == <<>>
               shut == FALSE
    <2>1. Closed = [open |-> shut, context |-> before, secrets |-> nothing, query |-> NoQuery,
                    rows |-> nothing, origin |-> Nowhere]
      BY DEF Closed
    <2> HIDE DEF before, nothing, shut
    <2>2. p = [open |-> shut, context |-> kept, secrets |-> nothing, query |-> NoQuery,
               rows |-> nothing, origin |-> Nowhere]
      BY <2>1
    <2> QED
      BY <2>2 DEF nothing, shut
  <1>2. <<>> \in Seq(Metadata)
    BY EmptySeq
  <1>3. Nowhere \in Origin
    BY DEF Nowhere, Origin, Asked
  <1> HIDE DEF p
  <1>4. /\ ~p.open /\ p.rows = <<>> /\ p.secrets \in Seq(Metadata)
        /\ p.query \in Queries \cup {NoQuery} /\ p.origin \in Origin
    BY <1>1, <1>2, <1>3
  <1>5. p = [open |-> p.open, context |-> p.context, secrets |-> p.secrets,
             query |-> p.query, rows |-> p.rows, origin |-> p.origin]
    BY <1>1
  <1> QED
    BY <1>4, <1>5 DEF p

\* Every step keeps the list what its query ranks.
LEMMA OfferStep ==
    ASSUME HostsTellSites, OfferIInv, [Next]_vars
    PROVE  OfferIInv'
  <1>1. TrackingIInv' /\ VaultInv'
    BY DesktopSteps, VaultStep DEF OfferIInv
  <1>2. TrackingTypeOK /\ IsPopup /\ VaultInv /\ ListInv
    BY DEF OfferIInv, TrackingIInv
  <1>3. ASSUME popup' = popup PROVE IsPopup' /\ ListInv'
    BY <1>2, <1>3 DEF IsPopup, ListInv
  <1>4. ASSUME NEW kept, popup' = [Closed EXCEPT !.context = kept] PROVE IsPopup' /\ ListInv'
    BY <1>4, ClosedList DEF IsPopup, ListInv
  <1>5. CASE Desktop
    <2>1. popup' = popup \/ popup' = [Closed EXCEPT !.context = Closed.context]
      BY <1>5 DEF Desktop, Closed
    <2> QED
      BY <1>1, <1>3, <1>4, <2>1 DEF OfferIInv
  <1>6. CASE Save \/ (\E target : DeleteByCommand(target)) \/ HotkeyInBrowser \/ UNCHANGED vars
    BY <1>1, <1>3, <1>6
    DEF OfferIInv, Save, AddByForm, AddByCommand, Edit, DeleteByCommand, HotkeyInBrowser, vars
  <1>7. \A unlocked : Listed(unlocked) \in Seq(Metadata)
    BY <1>2, EmptySeq DEF Listed, VaultInv
  <1>8. ASSUME NEW unlocked, HotkeyAtOnce(unlocked) PROVE IsPopup' /\ ListInv'
    <2>1. Found \in Asked
      BY <1>2 DEF TrackingTypeOK, Found, Asked, Sure
    <2>2. ShowPopup(Found, NoWindow, Listed(unlocked))
      BY <1>8 DEF HotkeyAtOnce
    <2>3. NoWindow \in Windows \cup {NoWindow} /\ PageOf(NoWindow) \in Pages \cup {NoPage}
      BY DEF PageOf
    <2> QED
      BY <1>7, <2>1, <2>2, <2>3, OpenedList
  <1>9. ASSUME NEW unlocked, UrlTimesOut(unlocked) \/ \E mute : UrlFound(mute, unlocked)
        PROVE  IsPopup' /\ ListInv'
    <2>1. asked \in Asked
      BY <1>2, <1>9 DEF TrackingTypeOK, UrlTimesOut, UrlFound, Answered
    <2>2. PICK source, mute : /\ ShowPopup(asked, source, Listed(unlocked))
                              /\ source \in {NoWindow, FindDocument(AppName(asked.window), mute)}
      BY <1>9 DEF UrlTimesOut, UrlFound
    <2>3. source \in Windows \cup {NoWindow} /\ PageOf(source) \in Pages \cup {NoPage}
      BY <1>2, <2>2, SourceIsAWindow
    <2> QED
      BY <1>7, <2>1, <2>2, <2>3, OpenedList
  <1>10. CASE Refresh
    <2>1. popup' = [open |-> popup.open, context |-> popup.context, secrets |-> vault,
                    query |-> popup.query, rows |-> Rank(vault, popup.query, popup.context),
                    origin |-> popup.origin]
      BY <1>2, <1>10 DEF Refresh, IsPopup
    <2>2. /\ popup'.open = popup.open /\ popup'.context = popup.context
          /\ popup'.secrets = vault /\ popup'.query = popup.query
          /\ popup'.origin = popup.origin
          /\ popup'.rows = Rank(vault, popup.query, popup.context)
      BY <2>1
    <2>3. IsPopup'
      BY <2>1 DEF IsPopup
    <2>4. popup'.rows = Rank(popup'.secrets, popup'.query, popup'.context)
      BY <2>2
    <2>5. /\ popup'.secrets \in Seq(Metadata)
          /\ popup'.query \in Queries \cup {NoQuery} /\ popup'.origin \in Origin
          /\ popup'.open =>
                 /\ popup'.context.host = HostOf(popup'.origin.page)
                 /\ Lower(popup'.context.application) = popup'.context.application
      BY <1>2, <2>2 DEF ListInv, VaultInv
    <2> QED
      BY <1>1, <2>3, <2>4, <2>5 DEF ListInv, OfferIInv
  <1>11. ASSUME NEW query \in Queries, Type(query) PROVE IsPopup' /\ ListInv'
    <2>1. popup' = [open |-> popup.open, context |-> popup.context, secrets |-> popup.secrets,
                    query |-> query, rows |-> Rank(popup.secrets, query, popup.context),
                    origin |-> popup.origin]
      BY <1>2, <1>11 DEF Type, IsPopup
    <2>2. /\ popup'.open = popup.open /\ popup'.context = popup.context
          /\ popup'.secrets = popup.secrets /\ popup'.query = query
          /\ popup'.origin = popup.origin
          /\ popup'.rows = Rank(popup.secrets, query, popup.context)
      BY <2>1
    <2>3. IsPopup'
      BY <2>1 DEF IsPopup
    <2>4. popup'.rows = Rank(popup'.secrets, popup'.query, popup'.context)
      BY <2>2
    <2>5. /\ popup'.secrets \in Seq(Metadata)
          /\ popup'.query \in Queries \cup {NoQuery} /\ popup'.origin \in Origin
          /\ popup'.open =>
                 /\ popup'.context.host = HostOf(popup'.origin.page)
                 /\ Lower(popup'.context.application) = popup'.context.application
      BY <1>2, <2>2 DEF ListInv
    <2> QED
      BY <2>3, <2>4, <2>5 DEF ListInv
  <1>12. CASE Hide
    BY <1>1, <1>4, <1>12 DEF Hide, OfferIInv
  <1> QED
    BY <1>1, <1>5, <1>6, <1>8, <1>9, <1>10, <1>11, <1>12 DEF Next, OfferIInv

\* The inductive invariant gives the types.
LEMMA OfferTypes ==
    ASSUME HostsTellSites, OfferIInv
    PROVE  LookupTypeOK
  <1>1. vault \in Seq(Metadata) /\ \A i, j \in DOMAIN vault : vault[i].id = vault[j].id => i = j
    BY DEF OfferIInv, VaultInv
  <1>2. Len(vault) \in Nat /\ DOMAIN vault = 1 .. Len(vault)
        /\ \A i \in DOMAIN vault : vault[i] \in Metadata
    BY <1>1, ElementOfSeq, LenProperties
  <1>3. ASSUME NEW i \in DOMAIN vault
        PROVE  /\ vault[i].id \in Ids /\ vault[i].name \in Names
               /\ vault[i].domain = <<>> \/ vault[i].domain = NormalizeHost(vault[i].domain)
               /\ vault[i].application \in Applications
               /\ vault[i].updated \in Times
               /\ vault[i].site \in Sites \cup {NoSite}
    <2>1. vault[i] \in Metadata
      BY <1>2
    <2>2. PICK w \in Writings : vault[i].domain = Filed(w.text) /\ vault[i].site = w.site
      BY <2>1, MetadataFields
    <2>3. w.site \in Sites \cup {NoSite}
      BY DEF Writings
    <2>4. Filed(vault[i].domain) = vault[i].domain
      BY <2>2 DEF HostsTellSites
    <2>5. vault[i].domain = <<>> \/ vault[i].domain = NormalizeHost(vault[i].domain)
      BY <2>4 DEF Filed, OrEmpty
    <2> QED
      BY <2>1, <2>2, <2>3, <2>5, MetadataFields
  <1>4. Cardinality(UsedIds) = Len(vault)
    <2> DEFINE ids == [i \in 1 .. Len(vault) |-> vault[i].id]
    <2>1. ids \in Bijection(1 .. Len(vault), UsedIds)
      BY <1>1, <1>2 DEF Bijection, Injection, Surjection, IsInjective, UsedIds
    <2>2. IsFiniteSet(1 .. Len(vault)) /\ Cardinality(1 .. Len(vault)) = Len(vault)
      <3>1. \A n \in Nat : IsFiniteSet(1 .. n) /\ Cardinality(1 .. n) = n
        BY FS_Interval
      <3> QED
        BY <1>2, <3>1
    <2>3. ExistsBijection(1 .. Len(vault), UsedIds)
      BY <2>1 DEF ExistsBijection
    <2> QED
      BY <2>2, <2>3, FS_Bijection
  <1>5. popup.origin \in Origin /\ ToSet(popup.rows) \subseteq ToSet(popup.secrets)
    BY ListIsOfTheSite DEF OfferIInv, ListInv
  <1> QED
    BY <1>3, <1>4, <1>5 DEF LookupTypeOK, OfferIInv, TrackingIInv

\* A desktop without a daemon has no list, and no secrets yet.
LEMMA OfferInit == Init => OfferIInv
  <1> SUFFICES ASSUME Init PROVE OfferIInv
    OBVIOUS
  <1>1. TrackingIInv
    BY TrackingInitInv DEF Init
  <1>2. popup = [Closed EXCEPT !.context = Closed.context]
    BY DEF Init, Closed
  <1>3. IsPopup /\ ListInv
    BY <1>2, ClosedList DEF IsPopup, ListInv
  <1>4. VaultInv
    BY EmptySeq DEF Init, VaultInv
  <1> QED
    BY <1>1, <1>3, <1>4 DEF OfferIInv

\* Where every way of writing a host is filed for its site, what is saved and
\* listed has its types: no two secrets with one id, domains as they are
\* filed, rows that are secrets (domain.rs:39-85, commands.rs, popup.rs).
THEOREM LookupTypes ==
    ASSUME HostsTellSites
    PROVE  Spec => []LookupTypeOK
  <1>1. OfferIInv /\ [Next]_vars => OfferIInv'
    BY OfferStep
  <1>2. OfferIInv => LookupTypeOK
    BY OfferTypes
  <1> QED
    BY <1>1, <1>2, OfferInit, PTL DEF Spec

\* However the hosts of a secret and of the page are written, what the query
\* finds of the site is on the list, the closest first (fuzzy.rs:113-153).
THEOREM SiteComesFirst ==
    ASSUME HostsTellSites
    PROVE  Spec => []SiteIsOffered
  <1>1. OfferIInv /\ [Next]_vars => OfferIInv'
    BY OfferStep
  <1>2. OfferIInv => SiteIsOffered
    BY ListIsOfTheSite DEF OfferIInv
  <1> QED
    BY <1>1, <1>2, OfferInit, PTL DEF Spec

\* Over a page with a site, the list is what the query finds that has to do with
\* the page, by its site or by the browser it is bound to; if that is nothing,
\* and over any other window, it is all that the query finds (fuzzy.rs:130-141).
THEOREM OnlyRelatedAreListed ==
    ASSUME HostsTellSites
    PROVE  Spec => []OnlyRelatedAreOffered
  <1>1. OfferIInv /\ [Next]_vars => OfferIInv'
    BY OfferStep
  <1>2. OfferIInv => OnlyRelatedAreOffered
    BY ListIsOfTheSite DEF OfferIInv
  <1> QED
    BY <1>1, <1>2, OfferInit, PTL DEF Spec
=================================================================================
