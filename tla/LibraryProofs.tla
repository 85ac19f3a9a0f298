---------------------------- MODULE LibraryProofs ----------------------------
(***************************************************************************)
(* Proofs about Library, for any number of states, question sets,          *)
(* versions, examples, jobs, reports, calibrations and crashes.            *)
(***************************************************************************)
EXTENDS Library, SequenceTheorems, TLAPS

----------------------------------------------------------------------------
(* The inductive invariant: what the rows refer to exists, and what a      *)
(* thread keeps between two of its transactions still holds when it is     *)
(* used.                                                                   *)

RowsRefer ==
    /\ \A j \in DOMAIN ejob : ejob[j].ver \in DOMAIN ver
    /\ \A k \in DOMAIN report : report[k].ver \in DOMAIN ver /\ report[k].job \in DOMAIN ejob

\* A status of "trusted" that was read stays a sign that the version has evidence.
HookGood(j) == hook[j].pc # "idle" =>
    /\ j \in DOMAIN ejob /\ ejob[j].status = "running"
    /\ hook[j].status = "trusted" => ver[ejob[j].ver].status # "draft"
    /\ hook[j].pc = "save" => hook[j].examples = ejob[j].items
    /\ hook[j].pc \in {"apply", "ref"} =>
          /\ hook[j].rid \in DOMAIN report
          /\ report[hook[j].rid].job = j /\ report[hook[j].rid].ver = ejob[j].ver
    /\ hook[j].pc = "complete" => hook[j].failed \/ ejob[j].ref > 0
HookInv == \A j \in 1..MaxJobs : HookGood(j)

CalGood(c) == cal[c].pc # "idle" =>
    /\ cal[c].ver \in DOMAIN ver /\ cal[c].job \in DOMAIN ejob
    /\ cal[c].examples = ejob[cal[c].job].items
    /\ cal[c].status = "trusted" => ver[cal[c].ver].status # "draft"
    /\ cal[c].pc = "apply" =>
          cal[c].rid \in DOMAIN report /\ report[cal[c].rid].ver = cal[c].ver
CalInv == \A c \in Calibrators : CalGood(c)

Evidence(v) == \E k \in DOMAIN report : report[k].ver = v /\ report[k].passes
PromInv == prom # 0 => /\ prom \in DOMAIN ver /\ ver[prom].latest # 0 /\ Evidence(prom)

Inv ==
    /\ RowsRefer /\ HookInv /\ CalInv /\ PromInv
    /\ AnswersMeetTheirLabels /\ EvidenceIsOwn /\ TrustedOnEvidence /\ RefIsOwnReport

----------------------------------------------------------------------------
(* Type correctness.                                                       *)

LEMMA NoneTyped == NoHook \in Hooks /\ NoCal \in Calibrations
  BY LibraryAssumption DEF NoHook, NoCal, Hooks, Calibrations, HookPCs, CalPCs, Statuses

\* What a row of a table is made of.
LEMMA RowTyped ==
    /\ \A r \in Versions : r.status \in Statuses /\ r.temps \in Nat /\ r.latest \in Nat
    /\ \A r \in JobRows : r.ver \in Nat /\ r.items \in Seq(States) /\ r.ref \in Int
    /\ \A r \in Hooks : /\ r.status \in Statuses /\ r.temps \in Nat /\ r.pc \in HookPCs
                        /\ r.examples \in Seq(States) /\ r.rid \in 0..MaxReports
                        /\ r.failed \in BOOLEAN
    /\ \A r \in Calibrations : /\ r.status \in Statuses /\ r.temps \in Nat /\ r.pc \in CalPCs
                               /\ r.ver \in Nat /\ r.job \in Nat
                               /\ r.examples \in Seq(States) /\ r.rid \in 0..MaxReports
<1>1. \A r \in Versions : r.status \in Statuses /\ r.temps \in Nat /\ r.latest \in Nat
  BY DEF Versions
<1>2. \A r \in JobRows : r.ver \in Nat /\ r.items \in Seq(States) /\ r.ref \in Int
  BY DEF JobRows
<1>3. \A r \in Hooks : /\ r.status \in Statuses /\ r.temps \in Nat /\ r.pc \in HookPCs
                       /\ r.examples \in Seq(States) /\ r.rid \in 0..MaxReports
                       /\ r.failed \in BOOLEAN
  BY Zenon DEF Hooks
<1>4. \A r \in Calibrations : /\ r.status \in Statuses /\ r.temps \in Nat /\ r.pc \in CalPCs
                              /\ r.ver \in Nat /\ r.job \in Nat
                              /\ r.examples \in Seq(States) /\ r.rid \in 0..MaxReports
  BY Zenon DEF Calibrations
<1> QED BY <1>1, <1>2, <1>3, <1>4

\* apply_report changes one row, and of it only what a report decides.
LEMMA AppliedShape ==
    ASSUME ver \in Seq(Versions), report \in Seq(Reports),
           NEW v \in DOMAIN ver, NEW status \in Statuses, NEW rid \in DOMAIN report
    PROVE  LET new == Applied(v, status, rid) IN
           /\ new \in Seq(Versions) /\ DOMAIN new = DOMAIN ver /\ Len(new) = Len(ver)
           /\ \A u \in DOMAIN ver \ {v} : new[u] = ver[u]
           /\ new[v].status = IF status = "trusted" /\ report[rid].passes THEN ver[v].status
                              ELSE "evaluated"
           /\ new[v].thresholds = report[rid].temps /\ new[v].latest = rid
           /\ new[v].questions = ver[v].questions
<1> DEFINE s == IF status = "trusted" /\ report[rid].passes THEN ver[v].status ELSE "evaluated"
           row == [ver[v] EXCEPT !.status = s, !.thresholds = report[rid].temps, !.latest = rid]
<1>1. ver[v] \in Versions /\ report[rid] \in Reports /\ rid \in Nat
  BY ElementOfSeq
<1>2. report[rid].temps \in Nat /\ s \in Statuses
  BY <1>1, RowTyped DEF Reports, Statuses
<1>3. /\ row \in Versions /\ row.status = s /\ row.thresholds = report[rid].temps
      /\ row.latest = rid /\ row.questions = ver[v].questions
  <2> HIDE DEF s
  <2> QED BY <1>1, <1>2 DEF Versions
<1>4. Applied(v, status, rid) = [ver EXCEPT ![v] = row]
  BY DEF Applied
<1> HIDE DEF s, row
<1>5. [ver EXCEPT ![v] = row] \in Seq(Versions) /\ Len([ver EXCEPT ![v] = row]) = Len(ver)
  BY <1>3, ExceptSeq
<1> QED BY <1>3, <1>4, <1>5 DEF s

----------------------------------------------------------------------------
(* What no step takes back: rows stay, a report never changes, a job keeps *)
(* its version and its items, and evidence once there stays.               *)

Grows ==
    /\ \A v \in DOMAIN ver :
          /\ v \in DOMAIN ver'
          /\ ver[v].status # "draft" => ver'[v].status # "draft"
          /\ ver[v].latest # 0 => ver'[v].latest # 0
    /\ \A k \in DOMAIN report : k \in DOMAIN report' /\ report'[k] = report[k]
    /\ \A j \in DOMAIN ejob :
          j \in DOMAIN ejob' /\ ejob'[j].ver = ejob[j].ver /\ ejob'[j].items = ejob[j].items

\* EvidenceIsOwn and TrustedOnEvidence for one version, RefIsOwnReport for one job.
VersionGood(v) ==
    /\ ver[v].status = "draft" <=> ver[v].latest = 0
    /\ ver[v].latest # 0 => /\ ver[v].latest \in DOMAIN report
                            /\ report[ver[v].latest].ver = v
                            /\ ver[v].thresholds = report[ver[v].latest].temps
    /\ ver[v].status = "trusted" => Evidence(v)
RefGood(j) ==
    /\ ejob[j].ref > 0 => /\ ejob[j].ref \in DOMAIN report
                          /\ report[ejob[j].ref].job = j
                          /\ report[ejob[j].ref].ver = ejob[j].ver
    /\ ejob[j].status = "completed" => ejob[j].ref > 0 \/ ejob[j].error

LEMMA InvParts ==
    Inv <=> /\ RowsRefer /\ HookInv /\ CalInv /\ PromInv /\ AnswersMeetTheirLabels
            /\ \A v \in DOMAIN ver : VersionGood(v)
            /\ \A j \in DOMAIN ejob : RefGood(j)
  BY DEF Inv, EvidenceIsOwn, TrustedOnEvidence, RefIsOwnReport, VersionGood, RefGood, Evidence

\* A step that lets the tables grow keeps what it does not touch; what it touches
\* has to be good again.
LEMMA InvFrame ==
    ASSUME TypeOK, Inv, Grows,
           \A j \in DOMAIN ejob' : j \in DOMAIN ejob \/ ejob'[j].ver \in DOMAIN ver,
           \A k \in DOMAIN report' :
               k \in DOMAIN report \/ /\ report'[k].ver \in DOMAIN ver
                                      /\ report'[k].job \in DOMAIN ejob
                                      /\ report'[k].examples = ejob[report'[k].job].items,
           \A j \in 1..MaxJobs :
               \/ HookGood(j)'
               \/ hook'[j] = hook[j] /\ (j \in DOMAIN ejob => ejob'[j] = ejob[j]),
           \A c \in Calibrators : CalGood(c)' \/ cal'[c] = cal[c],
           PromInv' \/ prom' = prom,
           \A v \in DOMAIN ver' : VersionGood(v)' \/ (v \in DOMAIN ver /\ ver'[v] = ver[v]),
           \A j \in DOMAIN ejob' : RefGood(j)' \/ (j \in DOMAIN ejob /\ ejob'[j] = ejob[j])
    PROVE  Inv'
<1>0. /\ RowsRefer /\ HookInv /\ CalInv /\ PromInv /\ AnswersMeetTheirLabels
      /\ \A v \in DOMAIN ver : VersionGood(v)
      /\ \A j \in DOMAIN ejob : RefGood(j)
  BY InvParts
<1>1. RowsRefer'
  BY <1>0 DEF RowsRefer, Grows
<1>2. AnswersMeetTheirLabels'
  BY <1>0 DEF RowsRefer, AnswersMeetTheirLabels, Grows
<1>3. HookInv'
  <2> SUFFICES ASSUME NEW j \in 1..MaxJobs PROVE HookGood(j)'
    BY DEF HookInv
  <2>1. CASE hook'[j] = hook[j] /\ (j \in DOMAIN ejob => ejob'[j] = ejob[j])
    <3>1. HookGood(j)
      BY <1>0 DEF HookInv
    <3>2. j \in DOMAIN ejob => ejob[j].ver \in DOMAIN ver
      BY <1>0 DEF RowsRefer
    <3> QED BY <2>1, <3>1, <3>2 DEF HookGood, Grows
  <2> QED BY <2>1
<1>4. CalInv'
  <2> SUFFICES ASSUME NEW c \in Calibrators PROVE CalGood(c)'
    BY DEF CalInv
  <2>1. CASE cal'[c] = cal[c]
    BY <1>0, <2>1 DEF CalInv, CalGood, Grows
  <2> QED BY <2>1
<1>5. PromInv'
  BY <1>0 DEF PromInv, Evidence, Grows
<1>6. ASSUME NEW v \in DOMAIN ver' PROVE VersionGood(v)'
  <2>1. CASE v \in DOMAIN ver /\ ver'[v] = ver[v]
    <3>1. VersionGood(v)
      BY <1>0, <2>1
    <3>2. Evidence(v) => Evidence(v)'
      BY DEF Evidence, Grows
    <3> QED BY <2>1, <3>1, <3>2 DEF VersionGood, Grows
  <2> QED BY <2>1
<1>7. ASSUME NEW j \in DOMAIN ejob' PROVE RefGood(j)'
  <2>1. CASE j \in DOMAIN ejob /\ ejob'[j] = ejob[j]
    <3>1. RefGood(j)
      BY <1>0, <2>1
    <3> QED BY <2>1, <3>1 DEF RefGood, Grows
  <2> QED BY <2>1
<1>8. EvidenceIsOwn' /\ TrustedOnEvidence'
  BY <1>6 DEF EvidenceIsOwn, TrustedOnEvidence, VersionGood, Evidence
<1>9. RefIsOwnReport'
  BY <1>7 DEF RefIsOwnReport, RefGood
<1> QED BY <1>1, <1>2, <1>3, <1>4, <1>5, <1>8, <1>9 DEF Inv

----------------------------------------------------------------------------
(* The steps, one lemma per group of actions.                              *)

\* One row of a table, or one thread's frame, is replaced.
LEMMA RowReplaced ==
    ASSUME NEW S, NEW s \in Seq(S), NEW i \in DOMAIN s, NEW r \in S
    PROVE  /\ [s EXCEPT ![i] = r] \in Seq(S)
           /\ Len([s EXCEPT ![i] = r]) = Len(s) /\ DOMAIN [s EXCEPT ![i] = r] = DOMAIN s
           /\ [s EXCEPT ![i] = r][i] = r
           /\ \A k \in DOMAIN s \ {i} : [s EXCEPT ![i] = r][k] = s[k]
  BY ExceptSeq

\* A row is added at the end.
LEMMA RowAdded ==
    ASSUME NEW S, NEW s \in Seq(S), NEW r \in S
    PROVE  /\ Append(s, r) \in Seq(S) /\ Len(Append(s, r)) = Len(s) + 1
           /\ DOMAIN Append(s, r) = DOMAIN s \cup {Len(s) + 1}
           /\ Append(s, r)[Len(s) + 1] = r
           /\ \A k \in DOMAIN s : k # Len(s) + 1 /\ Append(s, r)[k] = s[k]
<1>1. /\ Append(s, r) \in Seq(S) /\ Len(Append(s, r)) = Len(s) + 1
      /\ Append(s, r)[Len(s) + 1] = r /\ \A k \in 1..Len(s) : Append(s, r)[k] = s[k]
  BY AppendProperties
<1>2. DOMAIN Append(s, r) = 1..(Len(s) + 1) /\ DOMAIN s = 1..Len(s) /\ Len(s) \in Nat
  BY <1>1, LenProperties
<1> QED BY <1>1, <1>2

\* laya_save_schema: a new draft, about which nothing is known.
LEMMA SaveSchemaStep ==
    ASSUME TypeOK, Inv, NEW q \in Questions, SaveSchema(q)
    PROVE  TypeOK' /\ Inv'
<1>1. Draft(q) \in Versions /\ Draft(q).status = "draft" /\ Draft(q).latest = 0
  BY DEF Draft, Versions, Statuses
<1>2. /\ ver' = Append(ver, Draft(q)) /\ ver \in Seq(Versions)
      /\ UNCHANGED <<dataset, report, ejob, hook, cal, prom, edits, fits, crashes>>
  BY DEF SaveSchema, TypeOK, tools, history
<1>3. /\ ver' \in Seq(Versions) /\ Len(ver') = Len(ver) + 1
      /\ DOMAIN ver' = DOMAIN ver \cup {Len(ver) + 1} /\ ver'[Len(ver) + 1] = Draft(q)
      /\ \A v \in DOMAIN ver : ver'[v] = ver[v]
  BY <1>1, <1>2, RowAdded
<1>4. TypeOK'
  BY <1>2, <1>3 DEF TypeOK
<1>5. Grows
  BY <1>2, <1>3 DEF Grows
<1>6. ASSUME NEW v \in DOMAIN ver', v \notin DOMAIN ver PROVE VersionGood(v)'
  BY <1>1, <1>3, <1>6 DEF VersionGood
<1>7. Inv'
  BY <1>2, <1>3, <1>5, <1>6, InvFrame
<1> QED BY <1>4, <1>7

\* laya_save_dataset: nothing refers to the dataset itself.
LEMMA SaveDatasetStep ==
    ASSUME TypeOK, Inv, NEW n \in 1..MaxExamples, NEW s \in [1..n -> States],
           NEW append \in BOOLEAN, SaveDataset(s, append)
    PROVE  TypeOK' /\ Inv'
<1>1. s \in Seq(States) /\ dataset \o s \in Seq(States)
  BY IsASeq, LibraryAssumption, ConcatProperties DEF TypeOK
<1>2. dataset' \in Seq(States) /\ edits' \in 0..MaxEdits
  BY <1>1, LibraryAssumption DEF SaveDataset, TypeOK
<1>3. UNCHANGED <<ver, report, ejob, hook, cal, prom, fits, crashes>>
  BY DEF SaveDataset, tools
<1>4. TypeOK' /\ Grows
  BY <1>2, <1>3 DEF TypeOK, Grows
<1> QED BY <1>3, <1>4, InvFrame

\* laya_evaluate: a job over the dataset as it is.
LEMMA EvaluateStep ==
    ASSUME TypeOK, Inv, NEW v \in DOMAIN ver, Evaluate(v)
    PROVE  TypeOK' /\ Inv'
<1> DEFINE row == [status |-> "running", ver |-> v, items |-> dataset, ref |-> 0, error |-> FALSE]
<1>1. /\ row \in JobRows /\ row.ver = v /\ row.ref = 0 /\ row.status = "running"
  BY LenProperties DEF JobRows, TypeOK
<1>2. /\ ejob' = Append(ejob, row) /\ ejob \in Seq(JobRows) /\ Len(ejob) < MaxJobs
      /\ UNCHANGED <<ver, dataset, report, hook, cal, prom, edits, fits, crashes>>
  BY DEF Evaluate, TypeOK, tools, history
<1> HIDE DEF row
<1>3. /\ ejob' \in Seq(JobRows) /\ Len(ejob') = Len(ejob) + 1
      /\ DOMAIN ejob' = DOMAIN ejob \cup {Len(ejob) + 1} /\ ejob'[Len(ejob) + 1] = row
      /\ \A j \in DOMAIN ejob : ejob'[j] = ejob[j]
  BY <1>1, <1>2, RowAdded
<1>4. TypeOK'
  BY <1>2, <1>3, LibraryAssumption DEF TypeOK
<1>5. Grows
  BY <1>2, <1>3 DEF Grows
<1>6. ASSUME NEW j \in DOMAIN ejob', j \notin DOMAIN ejob PROVE RefGood(j)'
  BY <1>1, <1>3, <1>6 DEF RefGood
<1>7. Inv'
  BY <1>1, <1>2, <1>3, <1>5, <1>6, InvFrame
<1> QED BY <1>4, <1>7

\* The examples a job was submitted with, when the dataset still has them.
LEMMA EvaluatedTyped ==
    ASSUME TypeOK, NEW j \in DOMAIN ejob, ~DatasetChanged(j)
    PROVE  Evaluated(j) \in Seq(States) /\ Evaluated(j) = ejob[j].items
  BY ElementOfSeq, RowTyped DEF DatasetChanged, TypeOK

\* The first half of laya_calibrate.
LEMMA CalibrateStep ==
    ASSUME TypeOK, Inv, NEW c \in Calibrators, NEW v \in DOMAIN ver, NEW j \in DOMAIN ejob,
           Calibrate(c, v, j)
    PROVE  TypeOK' /\ Inv'
<1> DEFINE fr == [NoCal EXCEPT !.pc = "temps", !.ver = v, !.job = j, !.examples = Evaluated(j)]
<1>1. Evaluated(j) \in Seq(States) /\ Evaluated(j) = ejob[j].items
  BY EvaluatedTyped DEF Calibrate
<1>2. v \in Nat /\ j \in Nat
  BY LenProperties DEF TypeOK
<1>3. /\ fr \in Calibrations /\ fr.ver = v /\ fr.job = j /\ fr.examples = ejob[j].items
      /\ fr.status = "draft" /\ fr.pc = "temps"
  <2> HIDE DEF Evaluated
  <2> QED BY <1>1, <1>2, NoneTyped DEF NoCal, Calibrations, CalPCs
<1>4. /\ cal' = [cal EXCEPT ![c] = fr]
      /\ UNCHANGED <<ver, dataset, report, ejob, hook, prom, edits, fits, crashes>>
  BY DEF Calibrate, history
<1> HIDE DEF fr
<1>5. TypeOK' /\ Grows
  BY <1>3, <1>4 DEF TypeOK, Grows
<1>6. CalGood(c)' /\ \A d \in Calibrators \ {c} : cal'[d] = cal[d]
  BY <1>3, <1>4 DEF TypeOK, CalGood
<1> QED BY <1>4, <1>5, <1>6, InvFrame

\* laya_promote_schema: the report it read passes, and stays.
LEMMA PromoteStep ==
    ASSUME TypeOK, Inv, PromoteWrite \/ \E v \in DOMAIN ver : PromoteRead(v)
    PROVE  TypeOK' /\ Inv'
<1>1. ASSUME NEW v \in DOMAIN ver, PromoteRead(v) PROVE TypeOK' /\ Inv'
  <2>1. /\ prom' = v /\ Promotable(v)
        /\ UNCHANGED <<ver, dataset, report, ejob, hook, cal, edits, fits, crashes>>
    BY <1>1 DEF PromoteRead, history
  <2>2. VersionGood(v)
    BY InvParts
  <2>3. PromInv'
    BY <2>1, <2>2 DEF VersionGood, Promotable, PromInv, Evidence
  <2>4. v \in 0..Len(ver)
    BY LenProperties DEF TypeOK
  <2>5. TypeOK' /\ Grows
    BY <2>1, <2>4 DEF TypeOK, Grows
  <2> QED BY <2>1, <2>3, <2>5, InvFrame
<1>2. CASE PromoteWrite
  <2> DEFINE row == [ver[prom] EXCEPT !.status = "trusted"]
  <2>1. /\ prom \in DOMAIN ver /\ ver[prom].latest # 0 /\ Evidence(prom) /\ VersionGood(prom)
    BY <1>2, InvParts DEF PromoteWrite, LoopFree, NoPromotion, PromInv
  <2>2. ver[prom] \in Versions
    BY <2>1, ElementOfSeq DEF TypeOK
  <2>3. /\ row \in Versions /\ row.status = "trusted" /\ row.latest = ver[prom].latest
        /\ row.thresholds = ver[prom].thresholds
    BY <2>2 DEF Versions, Statuses
  <2>4. /\ ver' = [ver EXCEPT ![prom] = row] /\ prom' = 0
        /\ UNCHANGED <<dataset, report, ejob, hook, cal, edits, fits, crashes>>
    BY <1>2 DEF PromoteWrite, NoPromotion, history
  <2> HIDE DEF row
  <2>5. /\ ver' \in Seq(Versions) /\ Len(ver') = Len(ver) /\ DOMAIN ver' = DOMAIN ver
        /\ ver'[prom] = row /\ \A v \in DOMAIN ver \ {prom} : ver'[v] = ver[v]
    BY <2>1, <2>3, <2>4, RowReplaced DEF TypeOK
  <2>6. TypeOK'
    BY <2>4, <2>5 DEF TypeOK
  <2>7. Grows
    BY <2>1, <2>3, <2>4, <2>5 DEF Grows
  <2>8. ASSUME NEW v \in DOMAIN ver', v = prom PROVE VersionGood(v)'
    BY <2>1, <2>3, <2>4, <2>5, <2>8 DEF VersionGood, Evidence
  <2>9. PromInv'
    BY <2>4 DEF PromInv
  <2> QED BY <2>4, <2>5, <2>6, <2>7, <2>8, <2>9, InvFrame
<1> QED BY <1>1, <1>2

\* apply_report with a report about the version and a status that was read after
\* the version had evidence, if it was "trusted".
LEMMA AppliedGood ==
    ASSUME TypeOK, Inv, NEW v \in DOMAIN ver, NEW status \in Statuses, NEW rid \in DOMAIN report,
           report[rid].ver = v, status = "trusted" => ver[v].status # "draft",
           ver' = Applied(v, status, rid), report' = report, ejob' = ejob
    PROVE  /\ ver' \in Seq(Versions) /\ Len(ver') = Len(ver) /\ Grows
           /\ \A u \in DOMAIN ver' : VersionGood(u)' \/ (u \in DOMAIN ver /\ ver'[u] = ver[u])
<1>1. /\ ver' \in Seq(Versions) /\ DOMAIN ver' = DOMAIN ver /\ Len(ver') = Len(ver)
      /\ \A u \in DOMAIN ver \ {v} : ver'[u] = ver[u]
      /\ ver'[v].status = IF status = "trusted" /\ report[rid].passes THEN ver[v].status
                          ELSE "evaluated"
      /\ ver'[v].thresholds = report[rid].temps /\ ver'[v].latest = rid
  BY AppliedShape DEF TypeOK
<1>2. rid # 0
  BY LenProperties DEF TypeOK
<1>3. Grows
  BY <1>1, <1>2 DEF Grows
<1>4. VersionGood(v)
  BY InvParts
<1>5. ASSUME NEW u \in DOMAIN ver', u = v PROVE VersionGood(u)'
  <2>1. Evidence(v) => Evidence(u)'
    BY <1>5 DEF Evidence
  <2>2. ver'[v].status = "trusted" => Evidence(v)
    BY <1>1, <1>4 DEF VersionGood
  <2>3. ver'[v].status # "draft"
    BY <1>1
  <2> QED BY <1>1, <1>2, <1>5, <2>1, <2>2, <2>3 DEF VersionGood
<1> QED BY <1>1, <1>3, <1>5

\* save_report adds a report about a version and a job that are there.
LEMMA SavedGood ==
    ASSUME TypeOK, Inv, Len(report) < MaxReports, NEW v \in DOMAIN ver, NEW j \in DOMAIN ejob,
           NEW temps \in Nat, NEW examples \in Seq(States), NEW passes \in BOOLEAN,
           examples = ejob[j].items, ver' = ver, ejob' = ejob,
           report' = SavedReport(v, j, temps, examples, passes)
    PROVE  /\ report' \in Seq(Reports) /\ Len(report') = Len(report) + 1 /\ Grows
           /\ Len(report') \in DOMAIN report' /\ Len(report') \in 0..MaxReports
           /\ report'[Len(report')].ver = v /\ report'[Len(report')].job = j
           /\ \A k \in DOMAIN report' : k \in DOMAIN report \/
                 /\ report'[k].ver \in DOMAIN ver /\ report'[k].job \in DOMAIN ejob
                 /\ report'[k].examples = ejob[report'[k].job].items
<1> DEFINE row == [ver |-> v, job |-> j, temps |-> temps, examples |-> examples, passes |-> passes]
<1>1. v \in Nat /\ j \in Nat
  BY LenProperties DEF TypeOK
<1>2. row \in Reports /\ row.ver = v /\ row.job = j /\ row.examples = examples
  BY <1>1 DEF Reports
<1>3. report' = Append(report, row) /\ report \in Seq(Reports)
  BY DEF SavedReport, TypeOK
<1> HIDE DEF row
<1>4. /\ report' \in Seq(Reports) /\ Len(report') = Len(report) + 1
      /\ DOMAIN report' = DOMAIN report \cup {Len(report) + 1} /\ report'[Len(report) + 1] = row
      /\ \A k \in DOMAIN report : report'[k] = report[k]
  BY <1>2, <1>3, RowAdded
<1>5. Len(report') \in 0..MaxReports
  BY <1>3, <1>4, LenProperties, LibraryAssumption DEF TypeOK
<1>6. Grows
  BY <1>4 DEF Grows
<1> QED BY <1>2, <1>4, <1>5, <1>6

\* The rest of laya_calibrate, in its thread.
LEMMA CalibrationStep ==
    ASSUME TypeOK, Inv, NEW c \in Calibrators,
           \/ CalibrateTemps(c) \/ CalibrateApply(c) \/ CalibrateFails(c)
           \/ \E passes \in BOOLEAN : CalibrateSave(c, passes)
    PROVE  TypeOK' /\ Inv'
<1>0. /\ cal[c] \in Calibrations /\ cal \in [Calibrators -> Calibrations] /\ CalGood(c)
  BY InvParts DEF TypeOK, CalInv
<1>c. /\ cal[c].status \in Statuses /\ cal[c].temps \in Nat /\ cal[c].examples \in Seq(States)
      /\ cal[c].rid \in 0..MaxReports /\ cal[c].ver \in Nat /\ cal[c].job \in Nat
  BY <1>0, RowTyped
<1>1. CASE CalibrateTemps(c)
  <2> DEFINE v == cal[c].ver
             row == [ver[v] EXCEPT !.temps = fits']
             fr == [cal[c] EXCEPT !.pc = "save", !.temps = fits', !.status = ver[v].status]
  <2>1. /\ v \in DOMAIN ver /\ cal[c].job \in DOMAIN ejob
        /\ cal[c].examples = ejob[cal[c].job].items /\ VersionGood(v)
    BY <1>0, <1>1, InvParts DEF CalibrateTemps, CalGood
  <2>2. fits' \in 0..MaxFits /\ fits' \in Nat
    BY <1>1, LibraryAssumption DEF CalibrateTemps, TypeOK
  <2>3. ver[v] \in Versions /\ ver[v].status \in Statuses
    BY <2>1, ElementOfSeq, RowTyped DEF TypeOK
  <2>4. /\ row \in Versions /\ row.status = ver[v].status /\ row.latest = ver[v].latest
        /\ row.thresholds = ver[v].thresholds
    BY <2>2, <2>3 DEF Versions
  <2>5. /\ fr \in Calibrations /\ fr.pc = "save" /\ fr.ver = v /\ fr.job = cal[c].job
        /\ fr.examples = cal[c].examples /\ fr.status = ver[v].status
    BY <1>0, <2>2, <2>3 DEF Calibrations, CalPCs
  <2>6. /\ ver' = [ver EXCEPT ![v] = row] /\ cal' = [cal EXCEPT ![c] = fr]
        /\ UNCHANGED <<dataset, report, ejob, hook, prom, edits, crashes>>
    BY <1>1 DEF CalibrateTemps
  <2> HIDE DEF row, fr
  <2>7. /\ ver' \in Seq(Versions) /\ Len(ver') = Len(ver) /\ DOMAIN ver' = DOMAIN ver
        /\ ver'[v] = row /\ \A u \in DOMAIN ver \ {v} : ver'[u] = ver[u]
    BY <2>1, <2>4, <2>6, RowReplaced DEF TypeOK
  <2>8. TypeOK'
    BY <2>2, <2>5, <2>6, <2>7 DEF TypeOK
  <2>9. Grows
    BY <2>4, <2>6, <2>7 DEF Grows
  <2>10. ASSUME NEW u \in DOMAIN ver', u = v PROVE VersionGood(u)'
    BY <2>1, <2>4, <2>6, <2>7, <2>10 DEF VersionGood, Evidence
  <2>11. CalGood(c)' /\ \A d \in Calibrators \ {c} : cal'[d] = cal[d]
    BY <1>0, <2>1, <2>4, <2>5, <2>6, <2>7 DEF CalGood, Statuses
  <2> QED BY <2>6, <2>7, <2>8, <2>9, <2>10, <2>11, InvFrame
<1>2. ASSUME NEW passes \in BOOLEAN, CalibrateSave(c, passes) PROVE TypeOK' /\ Inv'
  <2> DEFINE fr == [cal[c] EXCEPT !.pc = "apply", !.rid = Len(report')]
  <2>1. /\ cal[c].ver \in DOMAIN ver /\ cal[c].job \in DOMAIN ejob
        /\ cal[c].examples = ejob[cal[c].job].items
        /\ cal[c].status = "trusted" => ver[cal[c].ver].status # "draft"
    BY <1>0, <1>2 DEF CalibrateSave, CalGood
  <2>2. /\ report' = SavedReport(cal[c].ver, cal[c].job, cal[c].temps, cal[c].examples, passes)
        /\ Len(report) < MaxReports /\ cal' = [cal EXCEPT ![c] = fr]
        /\ UNCHANGED <<ver, dataset, ejob, hook, prom, edits, fits, crashes>>
    BY <1>2 DEF CalibrateSave, history
  <2>3. /\ report' \in Seq(Reports) /\ Len(report') = Len(report) + 1 /\ Grows
        /\ Len(report') \in DOMAIN report' /\ Len(report') \in 0..MaxReports
        /\ report'[Len(report')].ver = cal[c].ver
        /\ \A k \in DOMAIN report' : k \in DOMAIN report \/
              /\ report'[k].ver \in DOMAIN ver /\ report'[k].job \in DOMAIN ejob
              /\ report'[k].examples = ejob[report'[k].job].items
    BY <1>c, <2>1, <2>2, SavedGood
  <2>4. /\ fr \in Calibrations /\ fr.pc = "apply" /\ fr.ver = cal[c].ver /\ fr.job = cal[c].job
        /\ fr.examples = cal[c].examples /\ fr.status = cal[c].status /\ fr.rid = Len(report')
    BY <1>0, <2>3 DEF Calibrations, CalPCs
  <2> HIDE DEF fr
  <2>5. TypeOK'
    BY <2>2, <2>3, <2>4 DEF TypeOK
  <2>6. CalGood(c)' /\ \A d \in Calibrators \ {c} : cal'[d] = cal[d]
    BY <1>0, <2>1, <2>2, <2>3, <2>4 DEF CalGood
  <2> QED BY <2>2, <2>3, <2>5, <2>6, InvFrame
<1>3. CASE CalibrateApply(c)
  <2>1. /\ cal[c].ver \in DOMAIN ver /\ cal[c].rid \in DOMAIN report
        /\ report[cal[c].rid].ver = cal[c].ver
        /\ cal[c].status = "trusted" => ver[cal[c].ver].status # "draft"
    BY <1>0, <1>3 DEF CalibrateApply, CalGood
  <2>2. /\ ver' = Applied(cal[c].ver, cal[c].status, cal[c].rid)
        /\ cal' = [cal EXCEPT ![c] = NoCal]
        /\ UNCHANGED <<dataset, report, ejob, hook, prom, edits, fits, crashes>>
    BY <1>3 DEF CalibrateApply, history
  <2>3. /\ ver' \in Seq(Versions) /\ Len(ver') = Len(ver) /\ Grows
        /\ \A u \in DOMAIN ver' : VersionGood(u)' \/ (u \in DOMAIN ver /\ ver'[u] = ver[u])
    BY <1>c, <2>1, <2>2, AppliedGood
  <2>4. TypeOK'
    BY <2>2, <2>3, NoneTyped DEF TypeOK
  <2>5. CalGood(c)' /\ \A d \in Calibrators \ {c} : cal'[d] = cal[d]
    BY <1>0, <2>2 DEF CalGood, NoCal
  <2> QED BY <2>2, <2>3, <2>4, <2>5, InvFrame
<1>4. CASE CalibrateFails(c)
  <2>1. /\ cal' = [cal EXCEPT ![c] = NoCal]
        /\ UNCHANGED <<ver, dataset, report, ejob, hook, prom, edits, fits, crashes>>
    BY <1>4 DEF CalibrateFails, history
  <2>2. TypeOK' /\ Grows
    BY <2>1, NoneTyped DEF TypeOK, Grows
  <2>3. CalGood(c)' /\ \A d \in Calibrators \ {c} : cal'[d] = cal[d]
    BY <1>0, <2>1 DEF CalGood, NoCal
  <2> QED BY <2>1, <2>2, <2>3, InvFrame
<1> QED BY <1>1, <1>2, <1>3, <1>4

\* A step of a hook that changes only its own frame.
LEMMA HookOnly ==
    ASSUME TypeOK, Inv, NEW j \in 1..MaxJobs, NEW g \in Hooks, hook' = [hook EXCEPT ![j] = g],
           UNCHANGED <<ver, dataset, report, ejob, cal, prom, edits, fits, crashes>>, HookGood(j)'
    PROVE  TypeOK' /\ Inv'
<1>1. TypeOK' /\ Grows /\ \A i \in (1..MaxJobs) \ {j} : hook'[i] = hook[i]
  BY DEF TypeOK, Grows
<1> QED BY <1>1, InvFrame

\* A step that changes the job's row and its hook's frame.
LEMMA HookAndJob ==
    ASSUME TypeOK, Inv, NEW j \in DOMAIN ejob, NEW g \in Hooks, hook' = [hook EXCEPT ![j] = g],
           NEW row \in JobRows, ejob' = [ejob EXCEPT ![j] = row],
           row.ver = ejob[j].ver, row.items = ejob[j].items,
           UNCHANGED <<ver, dataset, report, cal, prom, edits, fits, crashes>>,
           HookGood(j)', RefGood(j)'
    PROVE  TypeOK' /\ Inv'
<1>1. /\ ejob' \in Seq(JobRows) /\ Len(ejob') = Len(ejob) /\ DOMAIN ejob' = DOMAIN ejob
      /\ ejob'[j] = row /\ \A i \in DOMAIN ejob \ {j} : ejob'[i] = ejob[i]
  BY RowReplaced DEF TypeOK
<1>2. j \in 1..MaxJobs
  BY LenProperties, LibraryAssumption DEF TypeOK
<1>3. hook' \in [1..MaxJobs -> Hooks] /\ \A i \in (1..MaxJobs) \ {j} : hook'[i] = hook[i]
  BY <1>2 DEF TypeOK
<1>4. TypeOK'
  BY <1>1, <1>3 DEF TypeOK
<1>5. Grows
  BY <1>1 DEF Grows
<1> QED BY <1>1, <1>2, <1>3, <1>4, <1>5, InvFrame

\* The job service and the hook of an evaluate job.
LEMMA HookStep ==
    ASSUME TypeOK, Inv, NEW j \in DOMAIN ejob, JobFails(j) \/ Hook(j)
    PROVE  TypeOK' /\ Inv'
<1> USE DEF tools, history
<1>0. j \in 1..MaxJobs /\ j \in Nat
  BY LenProperties, LibraryAssumption DEF TypeOK
<1>h. hook \in [1..MaxJobs -> Hooks] /\ hook[j] \in Hooks /\ HookGood(j)
  BY <1>0, InvParts DEF TypeOK, HookInv
<1>r. ejob[j] \in JobRows /\ ejob[j].ver \in DOMAIN ver /\ RefGood(j)
  BY ElementOfSeq, InvParts DEF TypeOK, RowsRefer
<1>f. /\ hook[j].status \in Statuses /\ hook[j].temps \in Nat /\ hook[j].examples \in Seq(States)
      /\ hook[j].rid \in 0..MaxReports /\ hook[j].failed \in BOOLEAN
  BY <1>h, RowTyped
<1>p. {"examples", "save", "apply", "ref", "raised", "complete"} \subseteq HookPCs
  BY DEF HookPCs
<1>1. CASE JobFails(j)
  <2> DEFINE row == [ejob[j] EXCEPT !.status = "failed"]
  <2>1. /\ row \in JobRows /\ row.ver = ejob[j].ver /\ row.items = ejob[j].items
        /\ row.status = "failed" /\ row.ref = ejob[j].ref
    BY <1>r DEF JobRows
  <2>2. /\ ejob' = [ejob EXCEPT ![j] = row] /\ hook[j].pc = "idle" /\ hook' = hook
        /\ UNCHANGED <<ver, dataset, report, cal, prom, edits, fits, crashes>>
    BY <1>1 DEF JobFails
  <2> HIDE DEF row
  <2>3. hook' = [hook EXCEPT ![j] = hook[j]]
    BY <1>h, <2>2
  <2>4. ejob'[j] = row
    BY <2>2 DEF TypeOK
  <2>5. HookGood(j)' /\ RefGood(j)'
    BY <1>r, <2>1, <2>2, <2>4 DEF HookGood, RefGood
  <2> QED BY <1>h, <2>1, <2>2, <2>3, <2>5, HookAndJob
<1>2. CASE HookSchema(j)
  <2> DEFINE v == ver[ejob[j].ver]
             g == [NoHook EXCEPT !.pc = "examples", !.status = v.status, !.temps = v.temps]
  <2>1. v.status \in Statuses /\ v.temps \in Nat
    BY <1>r, ElementOfSeq, RowTyped DEF TypeOK
  <2>2. g \in Hooks /\ g.pc = "examples" /\ g.status = v.status
    <3> HIDE DEF v
    <3> QED BY <1>p, <2>1, NoneTyped DEF NoHook, Hooks
  <2>3. /\ hook' = [hook EXCEPT ![j] = g] /\ ejob[j].status = "running"
        /\ UNCHANGED <<ver, dataset, report, ejob, cal, prom, edits, fits, crashes>>
    BY <1>2 DEF HookSchema
  <2> HIDE DEF g
  <2>4. hook'[j] = g
    BY <1>0, <1>h, <2>3
  <2>5. HookGood(j)'
    BY <2>2, <2>3, <2>4 DEF HookGood
  <2> QED BY <1>0, <2>2, <2>3, <2>5, HookOnly
<1>3. CASE HookExamples(j)
  <2> DEFINE g == IF DatasetChanged(j) THEN [hook[j] EXCEPT !.pc = "raised"]
                  ELSE [hook[j] EXCEPT !.pc = "save", !.examples = Evaluated(j)]
  <2>1. /\ g \in Hooks /\ g.status = hook[j].status
        /\ g.pc = "raised" \/ (g.pc = "save" /\ g.examples = ejob[j].items)
    <3>1. CASE DatasetChanged(j)
      BY <1>h, <3>1 DEF Hooks, HookPCs
    <3>2. CASE ~DatasetChanged(j)
      <4>1. Evaluated(j) \in Seq(States) /\ Evaluated(j) = ejob[j].items
        BY <3>2, EvaluatedTyped
      <4> HIDE DEF Evaluated
      <4> QED BY <1>h, <3>2, <4>1 DEF Hooks, HookPCs
    <3> QED BY <3>1, <3>2
  <2>2. /\ hook' = [hook EXCEPT ![j] = g] /\ hook[j].pc = "examples"
        /\ UNCHANGED <<ver, dataset, report, ejob, cal, prom, edits, fits, crashes>>
    BY <1>3 DEF HookExamples
  <2> HIDE DEF g
  <2>3. hook'[j] = g
    BY <1>0, <1>h, <2>2
  <2>4. HookGood(j)'
    BY <1>h, <2>1, <2>2, <2>3 DEF HookGood
  <2> QED BY <1>0, <2>1, <2>2, <2>4, HookOnly
<1>4. ASSUME NEW passes \in BOOLEAN, HookSave(j, passes) PROVE TypeOK' /\ Inv'
  <2> DEFINE g == [hook[j] EXCEPT !.pc = "apply", !.rid = Len(report')]
  <2>1. /\ report' = SavedReport(ejob[j].ver, j, hook[j].temps, hook[j].examples, passes)
        /\ Len(report) < MaxReports /\ hook' = [hook EXCEPT ![j] = g] /\ hook[j].pc = "save"
        /\ UNCHANGED <<ver, dataset, ejob, cal, prom, edits, fits, crashes>>
    BY <1>4 DEF HookSave
  <2>2. /\ hook[j].examples = ejob[j].items /\ ejob[j].status = "running"
        /\ hook[j].status = "trusted" => ver[ejob[j].ver].status # "draft"
    BY <1>h, <2>1 DEF HookGood
  <2>3. /\ report' \in Seq(Reports) /\ Len(report') = Len(report) + 1 /\ Grows
        /\ Len(report') \in DOMAIN report' /\ Len(report') \in 0..MaxReports
        /\ report'[Len(report')].ver = ejob[j].ver /\ report'[Len(report')].job = j
        /\ \A k \in DOMAIN report' : k \in DOMAIN report \/
              /\ report'[k].ver \in DOMAIN ver /\ report'[k].job \in DOMAIN ejob
              /\ report'[k].examples = ejob[report'[k].job].items
    BY <1>f, <1>r, <2>1, <2>2, SavedGood
  <2>4. g \in Hooks /\ g.pc = "apply" /\ g.rid = Len(report') /\ g.status = hook[j].status
    BY <1>h, <2>3 DEF Hooks, HookPCs
  <2> HIDE DEF g
  <2>5. hook'[j] = g /\ hook' \in [1..MaxJobs -> Hooks]
        /\ \A i \in (1..MaxJobs) \ {j} : hook'[i] = hook[i]
    BY <1>0, <1>h, <2>1, <2>4
  <2>6. TypeOK'
    BY <2>1, <2>3, <2>5 DEF TypeOK
  <2>7. HookGood(j)'
    BY <2>1, <2>2, <2>3, <2>4, <2>5 DEF HookGood
  <2> QED BY <2>1, <2>3, <2>5, <2>6, <2>7, InvFrame
<1>5. CASE HookApply(j)
  <2> DEFINE g == [hook[j] EXCEPT !.pc = "ref"]
  <2>1. /\ ver' = Applied(ejob[j].ver, hook[j].status, hook[j].rid) /\ hook[j].pc = "apply"
        /\ hook' = [hook EXCEPT ![j] = g]
        /\ UNCHANGED <<dataset, report, ejob, cal, prom, edits, fits, crashes>>
    BY <1>5 DEF HookApply
  <2>2. /\ hook[j].rid \in DOMAIN report /\ report[hook[j].rid].ver = ejob[j].ver
        /\ report[hook[j].rid].job = j /\ ejob[j].status = "running"
        /\ hook[j].status = "trusted" => ver[ejob[j].ver].status # "draft"
    BY <1>h, <2>1 DEF HookGood
  <2>3. /\ ver' \in Seq(Versions) /\ Len(ver') = Len(ver) /\ Grows
        /\ \A u \in DOMAIN ver' : VersionGood(u)' \/ (u \in DOMAIN ver /\ ver'[u] = ver[u])
    BY <1>f, <1>r, <2>1, <2>2, AppliedGood
  <2>4. g \in Hooks /\ g.pc = "ref" /\ g.rid = hook[j].rid /\ g.status = hook[j].status
    BY <1>h DEF Hooks, HookPCs
  <2> HIDE DEF g
  <2>5. hook'[j] = g /\ hook' \in [1..MaxJobs -> Hooks]
        /\ \A i \in (1..MaxJobs) \ {j} : hook'[i] = hook[i]
    BY <1>0, <1>h, <2>1, <2>4
  <2>6. TypeOK'
    BY <2>1, <2>3, <2>5 DEF TypeOK
  <2>7. HookGood(j)'
    <3>1. ver[ejob[j].ver].status # "draft" => ver'[ejob[j].ver].status # "draft"
      BY <1>r, <2>3 DEF Grows
    <3> QED BY <2>1, <2>2, <2>4, <2>5, <3>1 DEF HookGood
  <2> QED BY <2>1, <2>3, <2>5, <2>6, <2>7, InvFrame
<1>6. CASE HookRef(j)
  <2> DEFINE g == [hook[j] EXCEPT !.pc = "complete"]
             row == [ejob[j] EXCEPT !.ref = hook[j].rid]
  <2>1. /\ ejob' = [ejob EXCEPT ![j] = row] /\ hook' = [hook EXCEPT ![j] = g]
        /\ hook[j].pc = "ref"
        /\ UNCHANGED <<ver, dataset, report, cal, prom, edits, fits, crashes>>
    BY <1>6 DEF HookRef
  <2>2. /\ hook[j].rid \in DOMAIN report /\ report[hook[j].rid].ver = ejob[j].ver
        /\ report[hook[j].rid].job = j /\ ejob[j].status = "running"
        /\ hook[j].status = "trusted" => ver[ejob[j].ver].status # "draft"
    BY <1>h, <2>1 DEF HookGood
  <2>3. hook[j].rid > 0 /\ hook[j].rid \in Int
    BY <2>2, LenProperties DEF TypeOK
  <2>4. g \in Hooks /\ g.pc = "complete" /\ g.status = hook[j].status
    BY <1>h DEF Hooks, HookPCs
  <2>5. /\ row \in JobRows /\ row.ver = ejob[j].ver /\ row.items = ejob[j].items
        /\ row.status = ejob[j].status /\ row.ref = hook[j].rid
    BY <1>r, <2>3 DEF JobRows
  <2> HIDE DEF g, row
  <2>6. hook'[j] = g /\ ejob'[j] = row /\ j \in DOMAIN ejob'
    BY <1>0, <1>h, <2>1 DEF TypeOK
  <2>7. HookGood(j)' /\ RefGood(j)'
    BY <2>1, <2>2, <2>3, <2>4, <2>5, <2>6 DEF HookGood, RefGood
  <2> QED BY <2>1, <2>4, <2>5, <2>7, HookAndJob
<1>7. CASE HookFails(j)
  <2> DEFINE g == [hook[j] EXCEPT !.pc = "raised"]
  <2>1. /\ hook' = [hook EXCEPT ![j] = g] /\ hook[j].pc # "idle"
        /\ UNCHANGED <<ver, dataset, report, ejob, cal, prom, edits, fits, crashes>>
    BY <1>7 DEF HookFails
  <2>2. g \in Hooks /\ g.pc = "raised" /\ g.status = hook[j].status
    BY <1>h DEF Hooks, HookPCs
  <2> HIDE DEF g
  <2>3. hook'[j] = g
    BY <1>0, <1>h, <2>1
  <2>4. HookGood(j)'
    BY <1>h, <2>1, <2>2, <2>3 DEF HookGood
  <2> QED BY <1>0, <2>1, <2>2, <2>4, HookOnly
<1>8. CASE HookRaised(j)
  <2>0. PICK ref \in {-1, ejob[j].ref} : ejob' = [ejob EXCEPT ![j].ref = ref]
    BY <1>8 DEF HookRaised
  <2> DEFINE g == [hook[j] EXCEPT !.pc = "complete", !.failed = TRUE]
             row == [ejob[j] EXCEPT !.ref = ref]
  <2>1. /\ ejob' = [ejob EXCEPT ![j] = row] /\ hook' = [hook EXCEPT ![j] = g]
        /\ hook[j].pc = "raised"
        /\ UNCHANGED <<ver, dataset, report, cal, prom, edits, fits, crashes>>
    BY <1>8, <2>0 DEF HookRaised
  <2>2. g \in Hooks /\ g.pc = "complete" /\ g.failed = TRUE /\ g.status = hook[j].status
    BY <1>h DEF Hooks, HookPCs
  <2>3. ref \in Int /\ (ref > 0 => ref = ejob[j].ref)
    BY <1>r, RowTyped
  <2>4. /\ row \in JobRows /\ row.ver = ejob[j].ver /\ row.items = ejob[j].items
        /\ row.status = ejob[j].status /\ row.ref = ref
    BY <1>r, <2>3 DEF JobRows
  <2> HIDE DEF g, row
  <2>5. hook'[j] = g /\ ejob'[j] = row /\ j \in DOMAIN ejob'
    BY <1>0, <1>h, <2>1 DEF TypeOK
  <2>6. HookGood(j)' /\ RefGood(j)'
    BY <1>h, <1>r, <2>1, <2>2, <2>3, <2>4, <2>5 DEF HookGood, RefGood
  <2> QED BY <2>1, <2>2, <2>4, <2>6, HookAndJob
<1>9. CASE CompleteJob(j)
  <2> DEFINE row == [ejob[j] EXCEPT !.status = "completed", !.error = hook[j].failed]
  <2>1. /\ ejob' = [ejob EXCEPT ![j] = row] /\ hook' = [hook EXCEPT ![j] = NoHook]
        /\ hook[j].pc = "complete"
        /\ UNCHANGED <<ver, dataset, report, cal, prom, edits, fits, crashes>>
    BY <1>9 DEF CompleteJob
  <2>2. /\ row \in JobRows /\ row.ver = ejob[j].ver /\ row.items = ejob[j].items
        /\ row.ref = ejob[j].ref /\ row.error = hook[j].failed
    BY <1>r, <1>f DEF JobRows
  <2> HIDE DEF row
  <2>3. hook'[j] = NoHook /\ ejob'[j] = row
    BY <1>0, <1>h, <2>1 DEF TypeOK
  <2>4. HookGood(j)' /\ RefGood(j)'
    BY <1>h, <1>r, <2>1, <2>2, <2>3 DEF HookGood, RefGood, NoHook
  <2> QED BY <2>1, <2>2, <2>4, NoneTyped, HookAndJob
<1> QED BY <1>1, <1>2, <1>3, <1>4, <1>5, <1>6, <1>7, <1>8, <1>9 DEF Hook

\* A crash ends every thread.
LEMMA CrashStep ==
    ASSUME TypeOK, Inv, Crash
    PROVE  TypeOK' /\ Inv'
<1>1. /\ hook' = [j \in 1..MaxJobs |-> NoHook] /\ cal' = [c \in Calibrators |-> NoCal]
      /\ prom' = 0 /\ crashes' \in 0..MaxCrashes
      /\ UNCHANGED <<ver, dataset, report, ejob, edits, fits>>
  BY LibraryAssumption DEF Crash, TypeOK, NoPromotion
<1>2. 0 \in 0..Len(ver)
  BY LenProperties DEF TypeOK
<1>3. TypeOK' /\ Grows
  BY <1>1, <1>2, NoneTyped DEF TypeOK, Grows
<1>4. (\A j \in 1..MaxJobs : HookGood(j)') /\ (\A c \in Calibrators : CalGood(c)') /\ PromInv'
  BY <1>1 DEF HookGood, CalGood, PromInv, NoHook, NoCal
<1> QED BY <1>1, <1>3, <1>4, InvFrame

LEMMA InvInit == Init => TypeOK /\ Inv
<1> SUFFICES ASSUME Init PROVE TypeOK /\ Inv
  OBVIOUS
<1>1. ver = <<>> /\ dataset = <<>> /\ report = <<>> /\ ejob = <<>>
  BY DEF Init
<1>2. TypeOK
  BY LibraryAssumption, NoneTyped DEF Init, TypeOK, NoPromotion
<1>3. HookInv /\ CalInv /\ PromInv
  BY DEF Init, HookInv, HookGood, CalInv, CalGood, PromInv, NoHook, NoCal, NoPromotion
<1>4. DOMAIN ver = {} /\ DOMAIN report = {} /\ DOMAIN ejob = {}
  BY <1>1
<1> QED BY <1>2, <1>3, <1>4, InvParts DEF RowsRefer, AnswersMeetTheirLabels

LEMMA InvStep == TypeOK /\ Inv /\ [Next]_vars => TypeOK' /\ Inv'
<1> SUFFICES ASSUME TypeOK, Inv, [Next]_vars PROVE TypeOK' /\ Inv'
  OBVIOUS
<1>1. CASE UNCHANGED vars
  <2>1. TypeOK' /\ Grows
    BY <1>1 DEF vars, TypeOK, Grows
  <2> QED BY <1>1, <2>1, InvFrame DEF vars
<1>2. CASE Next
  BY <1>2, SaveSchemaStep, SaveDatasetStep, EvaluateStep, CalibrateStep, PromoteStep,
     CalibrationStep, HookStep, CrashStep DEF Next, Calibration
<1> QED BY <1>1, <1>2

----------------------------------------------------------------------------
(* The theorems.                                                           *)

\* The tables and the threads of the library keep their types whatever tools,
\* hooks, calibrations and crashes interleave.
THEOREM TypeCorrect == Spec => []TypeOK
  BY InvInit, InvStep, PTL DEF Spec

LEMMA Invariance == Spec => []Inv
  BY InvInit, InvStep, PTL DEF Spec

\* Every report, whenever and by whomever it was made, compares the answers of a
\* job with the labels of the very states that job was submitted with
\* (evaluated_examples): for datasets, edits and numbers of jobs of any size.
THEOREM LabelsMatch == Spec => []AnswersMeetTheirLabels
<1>1. Inv => AnswersMeetTheirLabels
  BY DEF Inv
<1> QED BY <1>1, Invariance, PTL

\* Latest report and thresholds of a version were measured on that version, and
\* it is a draft exactly while it has none (apply_report, save_schema).
THEOREM EvidenceBelongs == Spec => []EvidenceIsOwn
<1>1. Inv => EvidenceIsOwn
  BY DEF Inv
<1> QED BY <1>1, Invariance, PTL

\* No version is trusted without a report about it that passed
\* (laya_promote_schema, apply_report).
THEOREM TrustNeedsEvidence == Spec => []TrustedOnEvidence
<1>1. Inv => TrustedOnEvidence
  BY DEF Inv
<1> QED BY <1>1, Invariance, PTL

\* A job's result_ref leads to the report about that job and version, and a
\* completed evaluate job without one carries an error (handle_evaluate_complete).
THEOREM RefsAreOwn == Spec => []RefIsOwnReport
<1>1. Inv => RefIsOwnReport
  BY DEF Inv
<1> QED BY <1>1, Invariance, PTL

=============================================================================
