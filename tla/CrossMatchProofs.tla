---------------------------- MODULE CrossMatchProofs ----------------------------
(***************************************************************************)
(* Proofs about CrossMatch, for any triggers, those matched on arrival     *)
(* among them, and any bounds: NoMissedMatch and NeverDoublyStale.         *)
(*                                                                         *)
(* Both rest on one argument.  The clusterer stores a sky map before it    *)
(* reads the triggers, the GCN consumer stores a trigger before it reads   *)
(* the sky map.  So whoever stores last is still Coming to write a match   *)
(* from the latest it has stored, until it has done so.                    *)
(***************************************************************************)
EXTENDS CrossMatch, TLAPS

Label == { "idle", "store_fits", "store_contours", "rescan", "store_trigger", "superevents",
           "fits", "contours", "candidates", "mocs", "store_mocs", "associated", "upsert" }

\* The triggers of a job: their documents as they were read, later what the match is
\* computed from.
Document == [notice : Nat, localized : BOOLEAN]
Input    == [position : Nat, moc : Nat]

Todo == UNION {[S -> Document \cup Input] : S \in SUBSET Trigger}

Job == [ kind : {"none", "rescan", "single"}, next : Trigger \cup {"none"},
         localized : BOOLEAN, fits : Nat, contours : Nat,
         todo : Todo, missing : SUBSET Trigger, associated : BOOLEAN ]

Match == [ computed : {TRUE}, fits : Nat, contours : Nat, position : Nat, moc : Nat,
           associated : BOOLEAN ]

TypeOK ==
  /\ pc \in [Actor -> Label] /\ job \in [Actor -> Job]
  /\ summary \in BOOLEAN /\ fits \in Nat /\ contours \in Nat
  /\ trigger \in [Trigger -> Document] /\ moc \in [Trigger -> Nat]
  /\ match \in [Trigger -> Match \cup {NoMatch}]
  /\ requests \in Nat

\* What the triggers of a job hold, by how far it is.
TodoOK(a) ==
  /\ pc[a] \in {"idle", "store_fits", "store_contours", "rescan", "store_trigger", "superevents"} =>
       DOMAIN job[a].todo = {}
  /\ pc[a] \in {"fits", "contours", "mocs"} =>
       \A t \in DOMAIN job[a].todo : job[a].todo[t] \in Document
  /\ pc[a] \in {"store_mocs", "associated", "upsert"} =>
       \A t \in DOMAIN job[a].todo : job[a].todo[t] \in Input
  /\ pc[a] = "store_mocs" => job[a].missing \subseteq DOMAIN job[a].todo
  /\ pc[a] = "upsert" => job[a].next \in DOMAIN job[a].todo

\* Where the three may be, and what they have in hand there.  Nobody computes from a
\* sky map that is not there; a document with a sky map has its summary.
Places ==
  /\ pc["gcn"] \notin {"store_fits", "store_contours", "rescan", "candidates", "store_mocs"}
  /\ pc["gcn"] \in {"store_trigger", "superevents"} => job["gcn"].next \in Trigger
  /\ pc["gcn"] \in {"fits", "contours"} => job["gcn"].kind = "single"
  /\ pc["clusterer"] \notin {"store_trigger", "superevents"}
  /\ pc["clusterer"] \in {"fits", "contours"} => job["clusterer"].kind = "rescan"
  /\ pc["operator"] \notin
       {"store_fits", "store_contours", "rescan", "store_trigger", "superevents"}
  /\ requests = 0 => pc["operator"] = "idle"
  /\ fits > 0 \/ pc["clusterer"] = "store_fits" => summary
  /\ \A a \in Actor :
       pc[a] \in {"store_contours", "rescan", "contours", "candidates", "mocs", "store_mocs",
                 "associated", "upsert"} => fits > 0
  /\ \A t \in Trigger : (trigger[t].localized => trigger[t].notice > 0)
                     /\ (match[t].computed => fits > 0)

\* What the clusterer and the GCN consumer have read is the latest: each of them is
\* the only one to write it.
Current ==
  /\ pc["clusterer"] \in {"contours", "candidates", "mocs", "store_mocs", "associated", "upsert"} =>
       job["clusterer"].fits = fits
  /\ pc["gcn"] \in {"fits", "contours", "mocs"} =>
       \A t \in DOMAIN job["gcn"].todo : job["gcn"].todo[t] = trigger[t]
  /\ pc["gcn"] \in {"associated", "upsert"} =>
       \A t \in DOMAIN job["gcn"].todo : job["gcn"].todo[t].position = trigger[t].notice

\* The clusterer is going to write the match of t.
ClustererComing(t) ==
  LET todo == job["clusterer"].todo
  IN  \/ pc["clusterer"] \in {"store_fits", "store_contours", "rescan", "fits", "contours",
                              "candidates"}
      \/ pc["clusterer"] = "mocs" /\ t \in DOMAIN todo /\ todo[t].localized
      \/ pc["clusterer"] \in {"store_mocs", "associated", "upsert"} /\ t \in DOMAIN todo

\* The GCN consumer is going to write the match of t.
GcnComing(t) ==
  \/ pc["gcn"] = "superevents" /\ job["gcn"].next = t
  \/ /\ pc["gcn"] \in {"fits", "contours", "mocs", "associated", "upsert"}
     /\ t \in DOMAIN job["gcn"].todo

Coming(t) == ClustererComing(t) \/ GcnComing(t)

\* The match of t is there, and as new as NeverDoublyStale wants it.
Fresh(t) ==
  /\ match[t].computed
  /\ requests = 0 => match[t].fits = fits \/ match[t].position = trigger[t].notice

Settled ==
  \A t \in AutoMatched : fits > 0 /\ trigger[t].localized => Fresh(t) \/ Coming(t)

IInv == TypeOK /\ (\A a \in Actor : TodoOK(a)) /\ Places /\ Current /\ Settled

-------------------------------------------------------------------------------
(* Each action keeps the invariant. *)

LEMMA TodoFacts ==
  ASSUME NEW f \in Todo
  PROVE  DOMAIN f \subseteq Trigger /\ f \in [DOMAIN f -> Document \cup Input]
  BY DEF Todo

LEMMA TodoIntro ==
  ASSUME NEW S \in SUBSET Trigger, NEW f \in [S -> Document \cup Input]
  PROVE  f \in Todo
  BY DEF Todo

LEMMA EmptyTodo == <<>> \in Todo /\ DOMAIN <<>> = {}
<1>1. DOMAIN <<>> = {} /\ <<>> \in [{} -> Document \cup Input]
  OBVIOUS
<1> QED
  BY <1>1, TodoIntro

LEMMA NoJobOK == NoJob \in Job
  BY EmptyTodo DEF NoJob, Job

\* The changes of a job that its type survives.
WithFits(j, n) == [j EXCEPT !.fits = n]

WithTodo(j, f, S) == [[j EXCEPT !.todo = f] EXCEPT !.missing = S]

WithNext(j, t, b) == [[j EXCEPT !.next = t] EXCEPT !.associated = b]

LEMMA JobChange ==
  ASSUME NEW j \in Job
  PROVE  /\ \A n \in Nat : WithFits(j, n) \in Job
         /\ \A f \in Todo, S \in SUBSET Trigger :
              /\ WithTodo(j, f, S) \in Job /\ WithTodo(j, f, S).todo = f
              /\ WithTodo(j, f, S).missing = S /\ WithTodo(j, f, S).fits = j.fits
         /\ \A t \in Trigger, b \in BOOLEAN :
              /\ WithNext(j, t, b) \in Job /\ WithNext(j, t, b).todo = j.todo
              /\ WithNext(j, t, b).next = t /\ WithNext(j, t, b).fits = j.fits
<1> DEFINE Missing == SUBSET Trigger
<1>1. j \in [ kind : {"none", "rescan", "single"}, next : Trigger \cup {"none"},
              localized : BOOLEAN, fits : Nat, contours : Nat,
              todo : Todo, missing : Missing, associated : BOOLEAN ]
  BY DEF Job
<1> HIDE DEF Missing
<1>2. Job = [ kind : {"none", "rescan", "single"}, next : Trigger \cup {"none"},
              localized : BOOLEAN, fits : Nat, contours : Nat,
              todo : Todo, missing : Missing, associated : BOOLEAN ]
  BY DEF Job, Missing
<1>3. \A n \in Nat : WithFits(j, n) \in Job
  BY <1>1, <1>2 DEF WithFits
<1>4. ASSUME NEW f \in Todo, NEW S \in Missing
      PROVE  /\ WithTodo(j, f, S) \in Job /\ WithTodo(j, f, S).todo = f
             /\ WithTodo(j, f, S).missing = S /\ WithTodo(j, f, S).fits = j.fits
  BY <1>1, <1>2 DEF WithTodo
<1>5. ASSUME NEW t \in Trigger, NEW b \in BOOLEAN
      PROVE  /\ WithNext(j, t, b) \in Job /\ WithNext(j, t, b).todo = j.todo
             /\ WithNext(j, t, b).next = t /\ WithNext(j, t, b).fits = j.fits
  BY <1>1, <1>2 DEF WithNext
<1> QED
  BY <1>3, <1>4, <1>5 DEF Missing

\* What a step that gives the job of one actor other triggers changes.
LEMMA TodoChange ==
  ASSUME job \in [Actor -> Job], NEW a \in Actor, NEW f \in Todo,
         job' = [job EXCEPT ![a].todo = f]
  PROVE  /\ job' \in [Actor -> Job]
         /\ \A b \in Actor \ {a} : job'[b] = job[b]
         /\ job'[a].todo = f
         /\ job'[a].kind = job[a].kind /\ job'[a].next = job[a].next /\ job'[a].fits = job[a].fits
<1>1. job[a] \in Job
  OBVIOUS
<1> DEFINE j == [job[a] EXCEPT !.todo = f]
<1>2. /\ j \in Job /\ j.todo = f
      /\ j.kind = job[a].kind /\ j.next = job[a].next /\ j.fits = job[a].fits
  BY <1>1 DEF Job
<1>3. job' = [job EXCEPT ![a] = j]
  OBVIOUS
<1> QED
  BY <1>2, <1>3

LEMMA InitIInv == Init => IInv
<1> SUFFICES ASSUME Init PROVE IInv
  OBVIOUS
<1>1. TypeOK
  BY NoJobOK DEF Init, TypeOK, Label, Document
<1>2. \A a \in Actor : TodoOK(a)
  BY EmptyTodo DEF Init, TodoOK, Actor, NoJob, Label
<1>3. Places
  BY DEF Init, Places, NoMatch, Actor
<1>c. Current
  BY DEF Init, Current, Actor
<1>4. Settled
  BY AutoMatchedAssumption DEF Init, Settled
<1> QED
  BY <1>1, <1>2, <1>3, <1>4, <1>c DEF IInv

LEMMA ReadFitsStep ==
  ASSUME IInv, NEW a \in Actor, ReadFits(a)
  PROVE  IInv'
<1> USE DEF IInv
<1>1. TypeOK'
  <2>1. CASE fits = 0
    BY <2>1, NoJobOK DEF TypeOK, ReadFits, Done, Goto, stored, bounds, Label
  <2>2. CASE fits # 0
    <3> DEFINE k == WithFits(job[a], fits)
    <3>1. k \in Job /\ job' = [job EXCEPT ![a] = k]
      BY <2>2, JobChange DEF ReadFits, TypeOK, WithFits
    <3> HIDE DEF k
    <3> QED
      BY <2>2, <3>1 DEF TypeOK, ReadFits, Goto, stored, bounds, Label
  <2> QED
    BY <2>1, <2>2
<1>2. \A b \in Actor : TodoOK(b)'
  <2>1. /\ \A b \in Actor \ {a} : pc'[b] = pc[b] /\ job'[b] = job[b]
        /\ \/ pc'[a] = "idle" /\ job'[a] = NoJob
           \/ pc[a] = "fits" /\ pc'[a] = "contours" /\ job'[a].todo = job[a].todo
    BY DEF TypeOK, ReadFits, Done, Goto, Job
  <2> QED
    BY <2>1, EmptyTodo DEF TodoOK, NoJob
<1>3. Places'
  BY DEF TypeOK, ReadFits, Done, Goto, stored, bounds, Job, Label, Places, Actor
<1>c. Current'
  BY DEF TypeOK, ReadFits, Done, Goto, stored, bounds, Job, Label, Current, Actor
<1>4. Settled'
  BY DEF TypeOK, ReadFits, Done, Goto, stored, bounds, Job, Label, Places, Current, Actor, Settled,
         Fresh, Coming, ClustererComing, GcnComing
<1> QED
  BY <1>1, <1>2, <1>3, <1>4, <1>c

LEMMA ReadMocsStep ==
  ASSUME IInv, NEW a \in Actor, ReadMocs(a)
  PROVE  IInv'
<1> USE DEF IInv
<1> DEFINE old == job[a].todo
           localized == {t \in DOMAIN old : old[t].localized}
           used(t) == IF moc[t] # 0 THEN moc[t] ELSE old[t].notice
           missing == IF a = "gcn" THEN {} ELSE {t \in localized : moc[t] = 0}
           new == [t \in localized |-> [position |-> old[t].notice, moc |-> used(t)]]
<1>0. /\ old \in Todo /\ localized \subseteq Trigger
      /\ \A t \in localized : old[t] \in Document /\ used(t) \in Nat
  BY TodoFacts DEF TypeOK, Job, TodoOK, ReadMocs, Document, Label
<1>1. /\ pc[a] = "mocs"
      /\ pc' = [pc EXCEPT ![a] = IF missing = {} THEN "associated" ELSE "store_mocs"]
      /\ job' = [job EXCEPT ![a].todo = new, ![a].missing = missing]
      /\ UNCHANGED <<stored, bounds>>
  BY DEF ReadMocs, Goto
<1>2. new \in [localized -> Input] /\ new \in Todo /\ DOMAIN new = localized
  <2>1. new \in [localized -> Input]
    BY <1>0 DEF Input, Document
  <2> QED BY <2>1, <1>0, TodoIntro
<1>3. \A t \in localized : new[t].position = old[t].notice
  OBVIOUS
<1>4. missing \subseteq localized /\ (a = "gcn" => missing = {})
  OBVIOUS
<1> HIDE DEF new, missing
<1> DEFINE j == WithTodo(job[a], new, missing)
<1>5. j \in Job /\ j.todo = new /\ j.missing = missing /\ j.fits = job[a].fits
  <2>1. job[a] \in Job /\ missing \in SUBSET Trigger
    BY <1>0, <1>4 DEF TypeOK
  <2> QED
    BY <1>2, <2>1, JobChange
<1>6. job' = [job EXCEPT ![a] = j]
  BY <1>1 DEF WithTodo
<1> HIDE DEF j
<1>7. /\ job' \in [Actor -> Job] /\ \A b \in Actor \ {a} : job'[b] = job[b]
      /\ job'[a].todo = new /\ job'[a].missing = missing /\ job'[a].fits = job[a].fits
  BY <1>5, <1>6 DEF TypeOK
<1>8. /\ \A b \in Actor \ {a} : pc'[b] = pc[b]
      /\ pc[a] = "mocs" /\ pc'[a] \in {"associated", "store_mocs"}
      /\ a = "gcn" => pc'[a] = "associated"
      /\ pc' \in [Actor -> Label]
      /\ UNCHANGED <<summary, fits, contours, trigger, moc, match, requests>>
  BY <1>1, <1>4 DEF TypeOK, stored, bounds, Label
<1>9. TypeOK'
  BY <1>7, <1>8 DEF TypeOK
<1>10. \A b \in Actor : TodoOK(b)'
  BY <1>2, <1>4, <1>7, <1>8 DEF TodoOK, Label
<1>11. Places'
  BY <1>7, <1>8 DEF Places, Actor
<1>12. Current'
  BY <1>0, <1>2, <1>3, <1>7, <1>8 DEF Current, Actor
<1>13. Settled'
  BY <1>0, <1>2, <1>3, <1>7, <1>8
     DEF Places, Current, Settled, Actor, Fresh, Coming, ClustererComing, GcnComing
<1> QED
  BY <1>9, <1>10, <1>11, <1>12, <1>13

LEMMA StoreMissingMocStep ==
  ASSUME IInv, NEW a \in Actor, StoreMissingMoc(a)
  PROVE  IInv'
<1> USE DEF IInv
<1>1. PICK t \in job[a].missing :
        /\ Goto(a, IF job[a].missing = {t} THEN "associated" ELSE "store_mocs")
        /\ job' = [job EXCEPT ![a].missing = @ \ {t}]
        /\ \/ moc' = [moc EXCEPT ![t] = job[a].todo[t].moc] /\ UNCHANGED failures
           \/ failures < bound.failures /\ failures' = failures + 1 /\ UNCHANGED moc
  BY DEF StoreMissingMoc
<1>2. /\ pc[a] = "store_mocs" /\ a # "gcn"
      /\ UNCHANGED <<summary, fits, contours, trigger, match, requests>>
  BY DEF StoreMissingMoc, Places
<1>3. t \in Trigger /\ job[a].todo[t] \in Input
  BY <1>1, <1>2, TodoFacts DEF TypeOK, Job, TodoOK
<1>4. moc' \in [Trigger -> Nat]
  BY <1>1, <1>3 DEF TypeOK, Input
<1> DEFINE left == job[a].missing \ {t}
           j == [job[a] EXCEPT !.missing = left]
<1>5. j \in Job /\ j.todo = job[a].todo /\ j.missing = left /\ j.fits = job[a].fits
  BY DEF TypeOK, Job
<1>6. job' = [job EXCEPT ![a] = j]
  BY <1>1
<1> HIDE DEF j
<1>7. /\ job' \in [Actor -> Job] /\ \A b \in Actor \ {a} : job'[b] = job[b]
      /\ job'[a].todo = job[a].todo /\ job'[a].fits = job[a].fits
      /\ job'[a].missing \subseteq job[a].missing
  BY <1>5, <1>6 DEF TypeOK
<1>8. /\ \A b \in Actor \ {a} : pc'[b] = pc[b]
      /\ pc'[a] \in {"associated", "store_mocs"} /\ pc' \in [Actor -> Label]
  BY <1>1 DEF Goto, TypeOK, Label
<1>9. TypeOK'
  BY <1>2, <1>4, <1>7, <1>8 DEF TypeOK
<1>10. \A b \in Actor : TodoOK(b)'
  BY <1>2, <1>7, <1>8 DEF TodoOK, Label
<1>11. Places'
  BY <1>2, <1>7, <1>8 DEF Places, Actor
<1>12. Current'
  BY <1>2, <1>7, <1>8 DEF Current, Actor
<1>13. Settled'
  BY <1>2, <1>7, <1>8
     DEF Places, Current, Settled, Actor, Fresh, Coming, ClustererComing, GcnComing
<1> QED
  BY <1>9, <1>10, <1>11, <1>12, <1>13

LEMMA ReadContoursStep ==
  ASSUME IInv, NEW a \in Actor, ReadContours(a)
  PROVE  IInv'
<1> USE DEF IInv
<1>1. TypeOK'
  BY DEF TypeOK, ReadContours, Goto, stored, bounds, Job, Label
<1>2. \A b \in Actor : TodoOK(b)'
  BY DEF TypeOK, ReadContours, Goto, stored, bounds, Job, Label, TodoOK
<1>3. Places'
  BY DEF TypeOK, ReadContours, Goto, stored, bounds, Job, Label, Places, Actor
<1>c. Current'
  BY DEF TypeOK, ReadContours, Goto, stored, bounds, Job, Label, Current, Actor
<1>4. Settled'
  BY DEF TypeOK, ReadContours, Goto, stored, bounds, Job, Label, Places, Current, Actor, Settled,
         Fresh, Coming, ClustererComing, GcnComing
<1> QED
  BY <1>1, <1>2, <1>3, <1>4, <1>c

LEMMA ReadCandidatesStep ==
  ASSUME IInv, NEW a \in Actor, ReadCandidates(a)
  PROVE  IInv'
<1> USE DEF IInv
<1> DEFINE new == [t \in Known |-> trigger[t]]
<1>0. new \in [Known -> Document \cup Input] /\ Known \in SUBSET Trigger
  BY DEF Known, TypeOK
<1>1. /\ new \in Todo /\ DOMAIN new = Known
      /\ \A t \in Known : new[t] = trigger[t] /\ new[t] \in Document
  BY <1>0, TodoIntro DEF Known, TypeOK
<1>2. Known = {t \in Trigger : trigger[t].notice > 0}
  BY DEF Known
<1>3. pc[a] = "candidates" /\ job' = [job EXCEPT ![a].todo = new]
  BY DEF ReadCandidates
<1> HIDE DEF new
<1>4. /\ job' \in [Actor -> Job] /\ \A b \in Actor \ {a} : job'[b] = job[b]
      /\ job'[a].todo = new /\ job'[a].fits = job[a].fits
  BY <1>1, <1>3, TodoChange DEF TypeOK
<1>5. /\ \A b \in Actor \ {a} : pc'[b] = pc[b]
      /\ pc'[a] = "mocs"
      /\ UNCHANGED <<summary, fits, contours, trigger, moc, match, requests>>
  BY DEF ReadCandidates, Goto, TypeOK, stored, bounds
<1>6. TypeOK'
  BY <1>4, <1>5 DEF TypeOK, Label, ReadCandidates, Goto
<1>7. \A b \in Actor : TodoOK(b)'
  BY <1>1, <1>4, <1>5 DEF TodoOK, Label
<1>8. Places'
  BY <1>3, <1>4, <1>5 DEF Places, Actor
<1>c. Current'
  BY <1>3, <1>4, <1>5 DEF Current, Places, Actor
<1>9. Settled'
  BY <1>1, <1>2, <1>3, <1>4, <1>5, AutoMatchedAssumption
     DEF Places, Current, Settled, Actor, Fresh, Coming, ClustererComing, GcnComing
<1> QED
  BY <1>6, <1>7, <1>8, <1>9, <1>c

LEMMA ReadAssociatedStep ==
  ASSUME IInv, NEW a \in Actor, ReadAssociated(a)
  PROVE  IInv'
<1> USE DEF IInv
<1>1. CASE job[a].todo = <<>>
  <2>1. DOMAIN job[a].todo = {} /\ Done(a) /\ pc[a] = "associated" /\ UNCHANGED <<stored, bounds>>
    BY <1>1, EmptyTodo DEF ReadAssociated
  <2>2. TypeOK'
    BY <2>1, NoJobOK DEF TypeOK, Done, Goto, stored, bounds, Label
  <2>3. \A b \in Actor : TodoOK(b)'
    BY <2>1, EmptyTodo DEF TypeOK, Done, Goto, stored, bounds, TodoOK, NoJob, Label
  <2>4. Places'
    BY <2>1 DEF TypeOK, Done, Goto, stored, bounds, Places, Actor
  <2>c. Current'
    BY <2>1 DEF TypeOK, Done, Goto, stored, bounds, Current, Actor
  <2>5. Settled'
    BY <2>1 DEF TypeOK, Done, Goto, stored, bounds, Places, Current, Actor, Settled,
                Fresh, Coming, ClustererComing, GcnComing
  <2> QED
    BY <2>2, <2>3, <2>4, <2>5, <2>c
<1>2. CASE job[a].todo # <<>>
  <2>1. PICK t \in DOMAIN job[a].todo :
               /\ Goto(a, "upsert")
               /\ job' = [job EXCEPT ![a].next = t, ![a].associated = Associated(a, t)]
    BY <1>2 DEF ReadAssociated
  <2>2. t \in Trigger /\ Associated(a, t) \in BOOLEAN
    BY <2>1, TodoFacts DEF TypeOK, Job, Associated, Match, NoMatch
  <2>3. /\ job' \in [Actor -> Job] /\ \A b \in Actor \ {a} : job'[b] = job[b]
        /\ job'[a].todo = job[a].todo /\ job'[a].next = t /\ job'[a].fits = job[a].fits
    <3> DEFINE j == WithNext(job[a], t, Associated(a, t))
    <3>1. job[a] \in Job
      BY DEF TypeOK
    <3>2. j \in Job /\ j.todo = job[a].todo /\ j.next = t /\ j.fits = job[a].fits
      BY <2>2, <3>1, JobChange
    <3>3. job' = [job EXCEPT ![a] = j]
      BY <2>1 DEF WithNext
    <3> HIDE DEF j
    <3> QED
      BY <3>2, <3>3 DEF TypeOK
  <2>4. /\ \A b \in Actor \ {a} : pc'[b] = pc[b]
        /\ pc[a] = "associated" /\ pc'[a] = "upsert"
        /\ UNCHANGED <<summary, fits, contours, trigger, moc, match, requests>>
    BY <2>1 DEF ReadAssociated, Goto, TypeOK, stored, bounds
  <2>5. TypeOK'
    BY <2>1, <2>3, <2>4 DEF TypeOK, Label, Goto
  <2>6. \A b \in Actor : TodoOK(b)'
    BY <2>1, <2>3, <2>4 DEF TodoOK, Label
  <2>7. Places'
    BY <2>3, <2>4 DEF Places, Actor
  <2>c. Current'
    BY <2>3, <2>4 DEF Current, Actor
  <2>8. Settled'
    BY <2>3, <2>4 DEF Places, Current, Settled, Actor, Fresh, Coming, ClustererComing, GcnComing
  <2> QED
    BY <2>5, <2>6, <2>7, <2>8, <2>c
<1> QED
  BY <1>1, <1>2

LEMMA UpsertStep ==
  ASSUME IInv, NEW a \in Actor, Upsert(a)
  PROVE  IInv'
<1> USE DEF IInv
<1> DEFINE old == job[a].todo
           t == job[a].next
           rest == DOMAIN old \ {t}
           new == [u \in rest |-> old[u]]
           written == [ computed |-> TRUE, fits |-> job[a].fits, contours |-> job[a].contours,
                        position |-> old[t].position, moc |-> old[t].moc,
                        associated |-> job[a].associated ]
<1>1. /\ pc[a] = "upsert" /\ job' = [job EXCEPT ![a].todo = new]
      /\ match' = [match EXCEPT ![t] = written]
  BY DEF Upsert
<1>2. old \in Todo /\ rest \subseteq Trigger /\ t \in Trigger
      /\ t \in DOMAIN old /\ \A u \in DOMAIN old : old[u] \in Input
  BY <1>1, TodoFacts DEF TypeOK, Job, TodoOK, Actor, Label
<1>3. new \in Todo /\ DOMAIN new = rest /\ \A u \in rest : new[u] = old[u]
  BY <1>2, TodoIntro
<1>4. written \in Match /\ written.computed /\ written.fits = job[a].fits
      /\ written.position = old[t].position
  BY <1>2 DEF TypeOK, Job, Match, Input
<1> HIDE DEF new, written
<1>5. /\ job' \in [Actor -> Job] /\ \A b \in Actor \ {a} : job'[b] = job[b]
      /\ job'[a].todo = new /\ job'[a].fits = job[a].fits
  BY <1>1, <1>3, TodoChange DEF TypeOK
<1>6. /\ \A b \in Actor \ {a} : pc'[b] = pc[b]
      /\ pc'[a] = "associated"
      /\ UNCHANGED <<summary, fits, contours, trigger, moc, requests>>
      /\ match'[t] = written /\ \A u \in Trigger \ {t} : match'[u] = match[u]
  BY <1>1, <1>2 DEF Upsert, Goto, TypeOK, bounds
<1>7. TypeOK'
  BY <1>1, <1>4, <1>5, <1>6 DEF TypeOK, Label, Upsert, Goto
<1>8. \A b \in Actor : TodoOK(b)'
  BY <1>1, <1>2, <1>3, <1>5, <1>6 DEF TodoOK, Label
<1>9. Places'
  BY <1>1, <1>4, <1>5, <1>6 DEF Places, Actor
<1>c. Current'
  BY <1>1, <1>2, <1>3, <1>5, <1>6 DEF Current, Actor
<1>10. ASSUME NEW u \in AutoMatched, fits' > 0, trigger'[u].localized
       PROVE  Fresh(u)' \/ Coming(u)'
  <2>0. u \in Trigger /\ (Fresh(u) \/ Coming(u))
    BY <1>6, <1>10, AutoMatchedAssumption DEF Settled
  <2>1. CASE u # t
    BY <1>1, <1>2, <1>3, <1>5, <1>6, <2>0, <2>1
       DEF Actor, Fresh, Coming, ClustererComing, GcnComing
  <2>2. CASE u = t /\ a = "clusterer"
    BY <1>1, <1>4, <1>6, <2>2 DEF Current, Fresh
  <2>3. CASE u = t /\ a = "gcn"
    BY <1>1, <1>2, <1>4, <1>6, <2>3 DEF Current, Fresh
  <2>4. CASE u = t /\ a = "operator"
    BY <1>1, <1>4, <1>6, <2>4 DEF Places, Fresh
  <2> QED
    BY <2>1, <2>2, <2>3, <2>4 DEF Actor
<1>11. Settled'
  BY <1>10 DEF Settled
<1> QED
  BY <1>7, <1>8, <1>9, <1>11, <1>c

\* A rescan begins, of the clusterer or of the operator.
LEMMA RescanStep ==
  ASSUME IInv, NEW a \in Actor, Rescan(a), UNCHANGED stored,
         a = "clusterer" => pc[a] = "rescan" /\ requests' = requests,
         a = "operator" => pc[a] = "idle" /\ requests' = requests + 1,
         a # "gcn"
  PROVE  IInv'
<1> USE DEF IInv
<1>1. TypeOK'
  BY DEF TypeOK, Rescan, Goto, stored, Job, Label, Actor
<1>2. \A b \in Actor : TodoOK(b)'
  <2>1. /\ \A b \in Actor : job'[b].todo = job[b].todo
        /\ \A b \in Actor \ {a} : pc'[b] = pc[b] /\ job'[b] = job[b]
        /\ pc[a] \in {"rescan", "idle"} /\ pc'[a] = "fits"
    BY DEF TypeOK, Rescan, Goto, Actor, Job
  <2> QED
    BY <2>1 DEF TodoOK
<1>3. Places'
  BY DEF TypeOK, Rescan, Goto, stored, Job, Label, Places, Actor
<1>c. Current'
  BY DEF TypeOK, Rescan, Goto, stored, Job, Label, Current, Actor
<1>4. Settled'
  BY DEF TypeOK, Rescan, Goto, stored, Job, Label, Places, Current, Actor, Settled,
         Fresh, Coming, ClustererComing, GcnComing
<1> QED
  BY <1>1, <1>2, <1>3, <1>4, <1>c

\* The match of one trigger begins, of the GCN consumer or of the operator.
LEMMA SingleStep ==
  ASSUME IInv, NEW a \in Actor, NEW t \in Trigger, Single(a, t), UNCHANGED stored,
         a = "gcn" => pc[a] = "superevents" /\ job[a].next = t /\ requests' = requests,
         a = "operator" => pc[a] = "idle" /\ requests' = requests + 1,
         a # "clusterer"
  PROVE  IInv'
<1> USE DEF IInv
<1> DEFINE new == [u \in {t} |-> trigger[u]]
<1>0. new \in [{t} -> Document \cup Input] /\ {t} \in SUBSET Trigger
  BY DEF TypeOK
<1>1. new \in Todo /\ DOMAIN new = {t} /\ new[t] = trigger[t] /\ new[t] \in Document
  BY <1>0, TodoIntro DEF TypeOK
<1>2. job' = [job EXCEPT ![a].kind = "single", ![a].todo = new]
  BY DEF Single
<1> HIDE DEF new
<1> DEFINE j == [[job[a] EXCEPT !.kind = "single"] EXCEPT !.todo = new]
<1>2a. j \in Job /\ j.todo = new /\ j.kind = "single"
  BY <1>1 DEF TypeOK, Job
<1>2b. job' = [job EXCEPT ![a] = j]
  BY <1>2
<1> HIDE DEF j
<1>3. /\ job' \in [Actor -> Job] /\ \A b \in Actor \ {a} : job'[b] = job[b]
      /\ job'[a].todo = new /\ job'[a].kind = "single"
  BY <1>2a, <1>2b DEF TypeOK
<1>4. /\ \A b \in Actor \ {a} : pc'[b] = pc[b]
      /\ pc'[a] = "fits"
      /\ UNCHANGED <<summary, fits, contours, trigger, moc, match>>
  BY DEF Single, Goto, TypeOK, stored
<1>5. TypeOK'
  BY <1>3, <1>4 DEF TypeOK, Label, Single, Goto, Actor
<1>6. \A b \in Actor : TodoOK(b)'
  BY <1>1, <1>3, <1>4 DEF TodoOK, Label
<1>7. Places'
  BY <1>3, <1>4 DEF Places, Actor, TypeOK
<1>c. Current'
  BY <1>1, <1>3, <1>4 DEF Current, Places, Actor
<1>8. Settled'
  BY <1>1, <1>3, <1>4 DEF Places, TypeOK, Settled, Actor, Fresh, Coming, ClustererComing, GcnComing
<1> QED
  BY <1>5, <1>6, <1>7, <1>8, <1>c

LEMMA AttachSkymapStep ==
  ASSUME IInv, AttachSkymap
  PROVE  IInv'
<1> USE DEF IInv
<1>1. TypeOK'
  BY DEF TypeOK, AttachSkymap, Goto, bounds, Label
<1>2. \A b \in Actor : TodoOK(b)'
  BY DEF TypeOK, AttachSkymap, Goto, TodoOK, Actor, Label
<1>3. Places'
  BY DEF TypeOK, AttachSkymap, Goto, bounds, Places, Actor
<1>c. Current'
  BY DEF TypeOK, AttachSkymap, Goto, Current, Actor
<1>4. Settled'
  BY DEF TypeOK, AttachSkymap, Goto, bounds, Settled, Actor,
         Fresh, Coming, ClustererComing, GcnComing
<1> QED
  BY <1>1, <1>2, <1>3, <1>4, <1>c

LEMMA StoreFitsStep ==
  ASSUME IInv, StoreFits
  PROVE  IInv'
<1> USE DEF IInv
<1>1. TypeOK'
  BY DEF TypeOK, StoreFits, Goto, bounds, Label, Actor
<1>2. \A b \in Actor : TodoOK(b)'
  BY DEF TypeOK, StoreFits, Goto, TodoOK, Actor, Label
<1>3. Places'
  BY DEF TypeOK, StoreFits, Goto, bounds, Places, Actor
<1>c. Current'
  BY DEF TypeOK, StoreFits, Goto, Current, Actor
<1>4. Settled'
  BY DEF TypeOK, StoreFits, Goto, bounds, Settled, Actor,
         Fresh, Coming, ClustererComing, GcnComing
<1> QED
  BY <1>1, <1>2, <1>3, <1>4, <1>c

LEMMA StoreContoursStep ==
  ASSUME IInv, StoreContours
  PROVE  IInv'
<1> USE DEF IInv
<1>1. TypeOK'
  BY DEF TypeOK, StoreContours, Goto, bounds, Label
<1>2. \A b \in Actor : TodoOK(b)'
  BY DEF TypeOK, StoreContours, Goto, TodoOK, Actor, Label
<1>3. Places'
  BY DEF TypeOK, StoreContours, Goto, bounds, Places, Actor
<1>c. Current'
  BY DEF TypeOK, StoreContours, Goto, Current, Actor
<1>4. Settled'
  BY DEF TypeOK, StoreContours, Goto, bounds, Settled, Actor,
         Fresh, Coming, ClustererComing, GcnComing
<1> QED
  BY <1>1, <1>2, <1>3, <1>4, <1>c

LEMMA ReceiveNoticeStep ==
  ASSUME IInv, NEW t \in Trigger, NEW localized \in BOOLEAN, ReceiveNotice(t, localized)
  PROVE  IInv'
<1> USE DEF IInv
<1>1. moc' \in [Trigger -> Nat]
  BY DEF TypeOK, ReceiveNotice, Document
<1>2. TypeOK'
  <2>1. job' \in [Actor -> Job]
    <3> DEFINE j == [[job["gcn"] EXCEPT !.next = t] EXCEPT !.localized = localized]
    <3>1. j \in Job
      BY DEF TypeOK, Job, Actor
    <3>2. job' = [job EXCEPT !["gcn"] = j]
      BY DEF ReceiveNotice
    <3> HIDE DEF j
    <3> QED
      BY <3>1, <3>2 DEF TypeOK
  <2>2. /\ pc' = [pc EXCEPT !["gcn"] = "store_trigger"]
        /\ UNCHANGED <<summary, fits, contours, trigger, match, requests>>
    BY DEF ReceiveNotice, Goto
  <2> QED
    BY <1>1, <2>1, <2>2 DEF TypeOK, Label
<1>3. \A b \in Actor : TodoOK(b)'
  <2>1. /\ \A b \in Actor \ {"gcn"} : pc'[b] = pc[b] /\ job'[b] = job[b]
        /\ pc["gcn"] = "idle" /\ pc'["gcn"] = "store_trigger"
        /\ job'["gcn"].todo = job["gcn"].todo
    BY DEF TypeOK, ReceiveNotice, Goto, Actor, Job
  <2> QED
    BY <2>1 DEF TodoOK, Actor
<1>4. Places'
  BY DEF TypeOK, ReceiveNotice, Goto, Places, Actor, Job
<1>c. Current'
  BY DEF TypeOK, ReceiveNotice, Goto, Current, Actor
<1>5. Settled'
  BY DEF TypeOK, ReceiveNotice, Goto, Settled, Actor,
         Fresh, Coming, ClustererComing, GcnComing
<1> QED
  BY <1>2, <1>3, <1>4, <1>5, <1>c

LEMMA StoreTriggerStep ==
  ASSUME IInv, StoreTrigger
  PROVE  IInv'
<1> USE DEF IInv
<1> DEFINE t == job["gcn"].next
           document == [notice |-> trigger[t].notice + 1, localized |-> job["gcn"].localized]
<1>1. /\ t \in Trigger /\ document \in Document /\ document.notice > 0
      /\ document.localized = job["gcn"].localized
  BY DEF StoreTrigger, Places, TypeOK, Document, Job, Actor
<1>2. /\ trigger' = [trigger EXCEPT ![t] = document]
      /\ pc["gcn"] = "store_trigger"
      /\ UNCHANGED <<summary, fits, contours, moc, match, requests>>
  BY DEF StoreTrigger, bounds
<1> HIDE DEF document
<1>3. /\ trigger' \in [Trigger -> Document] /\ trigger'[t] = document
      /\ \A u \in Trigger \ {t} : trigger'[u] = trigger[u]
  BY <1>1, <1>2 DEF TypeOK
<1>4. CASE t \in AutoMatched /\ job["gcn"].localized
  <2>1. /\ job' = job /\ pc' = [pc EXCEPT !["gcn"] = "superevents"]
    BY <1>4 DEF StoreTrigger, Goto
  <2>2. TypeOK'
    BY <1>2, <1>3, <2>1 DEF TypeOK, Label
  <2>3. \A b \in Actor : TodoOK(b)'
    <3>1. /\ \A b \in Actor \ {"gcn"} : pc'[b] = pc[b]
          /\ pc'["gcn"] = "superevents" /\ "gcn" \in Actor
      BY <2>1 DEF TypeOK, Actor
    <3>2. TodoOK("gcn")'
      BY <1>2, <2>1, <3>1 DEF TodoOK
    <3>3. \A b \in Actor \ {"gcn"} : TodoOK(b)'
      BY <2>1, <3>1 DEF TodoOK
    <3> QED
      BY <3>2, <3>3
  <2>4. Places'
    BY <1>1, <1>2, <1>3, <2>1 DEF TypeOK, Places, Actor
  <2>c. Current'
    BY <1>2, <2>1 DEF TypeOK, Current, Actor
  <2>5. Settled'
    BY <1>1, <1>2, <1>3, <2>1, AutoMatchedAssumption
       DEF TypeOK, Settled, Actor, Fresh, Coming, ClustererComing, GcnComing
  <2> QED
    BY <2>2, <2>3, <2>4, <2>5, <2>c
<1>5. CASE ~ (t \in AutoMatched /\ job["gcn"].localized)
  <2>1. /\ job' = [job EXCEPT !["gcn"] = NoJob] /\ pc' = [pc EXCEPT !["gcn"] = "idle"]
    BY <1>5 DEF StoreTrigger, Done, Goto
  <2>2. TypeOK'
    BY <1>2, <1>3, <2>1, NoJobOK DEF TypeOK, Label
  <2>3. \A b \in Actor : TodoOK(b)'
    BY <2>1, EmptyTodo DEF TypeOK, TodoOK, Actor, NoJob, Label
  <2>4. Places'
    BY <1>1, <1>2, <1>3, <2>1 DEF TypeOK, Places, Actor
  <2>c. Current'
    BY <1>2, <2>1 DEF TypeOK, Current, Actor
  <2>5. Settled'
    BY <1>1, <1>2, <1>3, <1>5, <2>1, AutoMatchedAssumption
       DEF TypeOK, Settled, Actor, Fresh, Coming, ClustererComing, GcnComing
  <2> QED
    BY <2>2, <2>3, <2>4, <2>5, <2>c
<1> QED
  BY <1>4, <1>5

LEMMA FindSupereventsStep ==
  ASSUME IInv, FindSuperevents
  PROVE  IInv'
<1> USE DEF IInv
<1>1. CASE summary
  <2>1. /\ job["gcn"].next \in Trigger /\ "gcn" \in Actor
        /\ pc["gcn"] = "superevents" /\ Single("gcn", job["gcn"].next)
        /\ UNCHANGED stored /\ requests' = requests
    BY <1>1 DEF FindSuperevents, Places, Actor, bounds
  <2> QED
    BY <2>1, SingleStep
<1>2. CASE ~ summary
  <2>1. Done("gcn") /\ UNCHANGED <<stored, bounds>> /\ "gcn" \in Actor
    BY <1>2 DEF FindSuperevents, Actor
  <2>2. fits = 0
    BY <1>2 DEF Places, TypeOK
  <2>3. TypeOK'
    BY <2>1, NoJobOK DEF TypeOK, Done, Goto, stored, bounds, Label
  <2>4. \A b \in Actor : TodoOK(b)'
    BY <2>1, EmptyTodo DEF TypeOK, Done, Goto, stored, TodoOK, NoJob, Label
  <2>5. Places'
    BY <2>1 DEF TypeOK, Done, Goto, stored, bounds, Places, Actor
  <2>c. Current'
    BY <2>1 DEF TypeOK, Done, Goto, stored, Current, Actor
  <2>6. Settled'
    BY <2>1, <2>2 DEF TypeOK, stored, Settled
  <2> QED
    BY <2>3, <2>4, <2>5, <2>6, <2>c
<1> QED
  BY <1>1, <1>2

LEMMA PatchStep ==
  ASSUME IInv, NEW t \in Trigger, NEW b \in BOOLEAN, Patch(t, b)
  PROVE  IInv'
<1> USE DEF IInv
<1>1. match[t] \in Match
  BY DEF Patch, TypeOK, NoMatch
<1>1a. match' = [match EXCEPT ![t] = [match[t] EXCEPT !.associated = b]]
  BY DEF Patch
<1> DEFINE patched == [match[t] EXCEPT !.associated = b]
<1>2. patched \in Match /\ patched.computed /\ patched.fits = match[t].fits
      /\ patched.position = match[t].position
  BY <1>1 DEF Match
<1> HIDE DEF patched
<1>3. /\ match' \in [Trigger -> Match \cup {NoMatch}] /\ match'[t] = patched /\ match[t].computed
      /\ \A u \in Trigger \ {t} : match'[u] = match[u]
  BY <1>1, <1>1a, <1>2 DEF TypeOK, Patch, patched
<1>4. UNCHANGED <<pc, job, summary, fits, contours, trigger, moc, requests>>
  BY DEF Patch
<1>5. TypeOK'
  BY <1>3, <1>4 DEF TypeOK
<1>6. \A a \in Actor : TodoOK(a)'
  BY <1>4 DEF TodoOK, Label
<1>7. Places'
  BY <1>2, <1>3, <1>4 DEF Places
<1>c. Current'
  BY <1>4 DEF Current
<1>8. Settled'
  BY <1>2, <1>3, <1>4, AutoMatchedAssumption
     DEF Settled, Fresh, Coming, ClustererComing, GcnComing
<1> QED
  BY <1>5, <1>6, <1>7, <1>8, <1>c

-------------------------------------------------------------------------------
LEMMA NextIInv ==
  ASSUME IInv, [Next]_vars
  PROVE  IInv'
<1>1. ASSUME NEW a \in Actor, Compute(a)
      PROVE  IInv'
  BY <1>1, ReadFitsStep, ReadContoursStep, ReadCandidatesStep, ReadMocsStep, StoreMissingMocStep,
     ReadAssociatedStep, UpsertStep DEF Compute
<1>2. CASE RescanAttached
  <2>1. /\ "clusterer" \in Actor /\ pc["clusterer"] = "rescan" /\ Rescan("clusterer")
        /\ UNCHANGED stored /\ requests' = requests
    BY <1>2 DEF RescanAttached, Actor, bounds
  <2> QED
    BY <2>1, RescanStep
<1>3. CASE Scan
  <2>1. /\ "operator" \in Actor /\ pc["operator"] = "idle" /\ Rescan("operator")
        /\ UNCHANGED stored /\ requests' = requests + 1
    BY <1>3 DEF Scan, Actor
  <2> QED
    BY <2>1, RescanStep
<1>4. ASSUME NEW t \in Trigger, CreateMatch(t)
      PROVE  IInv'
  <2>1. /\ "operator" \in Actor /\ pc["operator"] = "idle" /\ Single("operator", t)
        /\ UNCHANGED stored /\ requests' = requests + 1
    BY <1>4 DEF CreateMatch, Actor
  <2> QED
    BY <2>1, SingleStep
<1>5. CASE AttachSkymap \/ StoreFits \/ StoreContours \/ StoreTrigger \/ FindSuperevents
  BY <1>5, AttachSkymapStep, StoreFitsStep, StoreContoursStep, StoreTriggerStep, FindSupereventsStep
<1>6. ASSUME NEW t \in Trigger, NEW b \in BOOLEAN, ReceiveNotice(t, b) \/ Patch(t, b)
      PROVE  IInv'
  BY <1>6, ReceiveNoticeStep, PatchStep
<1>7. CASE UNCHANGED vars
  BY <1>7 DEF IInv, vars, stored, bounds, TypeOK, TodoOK, Places, Current, Settled, Fresh, Coming,
              ClustererComing, GcnComing
<1> QED
  BY <1>1, <1>2, <1>3, <1>4, <1>5, <1>6, <1>7 DEF Next, Clusterer, GcnConsumer, Actor

\* The places of the three, what they hold there, and that every trigger with a
\* position is matched from the latest input or somebody is coming to do so.
THEOREM CrossMatchInvariant == Spec => []IInv
<1>1. Init => IInv
  BY InitIInv
<1>2. IInv /\ [Next]_vars => IInv'
  BY NextIInv
<1> QED
  BY <1>1, <1>2, PTL DEF Spec

\* Nobody is coming when all are idle.
LEMMA QuietIsFresh ==
  ASSUME IInv, Quiescent, fits > 0, NEW t \in AutoMatched, trigger[t].localized
  PROVE  Fresh(t)
  BY AutoMatchedAssumption
     DEF IInv, Quiescent, Actor, Settled, Coming, ClustererComing, GcnComing

\* NoMissedMatch: gw-clusterer's rescan (archive_superevent_from) and the GCN consumer's
\* match on arrival (handle_alert) together leave no GRB with a position unmatched.
THEOREM NothingMissed == Spec => []NoMissedMatch
<1>1. IInv => NoMissedMatch
  BY QuietIsFresh DEF NoMissedMatch, Fresh
<1> QED
  BY <1>1, CrossMatchInvariant, PTL

\* NeverDoublyStale: of the matches the two processes compute by themselves, the last
\* written is not based on both an old sky map and an old notice.
THEOREM NothingDoublyStale == Spec => []NeverDoublyStale
<1>1. ASSUME IInv, Quiescent, requests = 0, NEW t \in AutoMatched, match[t].computed,
             trigger[t].localized
      PROVE  match[t].fits = fits \/ match[t].position = trigger[t].notice
  <2>1. fits > 0
    BY <1>1, AutoMatchedAssumption DEF IInv, Places
  <2> QED
    BY <1>1, <2>1, QuietIsFresh DEF Fresh
<1>2. IInv => NeverDoublyStale
  BY <1>1 DEF NeverDoublyStale
<1> QED
  BY <1>2, CrossMatchInvariant, PTL

===============================================================================
