-------------------------- MODULE ContinuityProofs --------------------------
(***************************************************************************)
(* Proofs about Continuity, for any number of turns and background jobs,   *)
(* of things they are told, and any scan limit.                            *)
(***************************************************************************)
EXTENDS Continuity, TLAPS

\* The content before any is told is one of the contents.
LEMMA UntoldIsContent == Untold \in Contents
BY ContinuityAssumption DEF Untold

WriterRecords == [at : ContinuityPoints, job : BOOLEAN, told : Contents,
                  listed : Nat, row : Rows \cup {NoRow}]

\* The record of a writer that has ended.
LEMMA IdleWriterTyped == [IdleWriter EXCEPT !.at = "done"] \in WriterRecords
BY UntoldIsContent DEF IdleWriter, WriterRecords, ContinuityPoints

\* A writer moves on, with or without something it has read.
LEMMA WriterTyped ==
  ASSUME ContinuityTypeOK, NEW w \in Writers,
         \/ Ends(w)
         \/ \E point \in ContinuityPoints : Moves(w, point)
         \/ \E r \in WriterRecords : writer' = [writer EXCEPT ![w] = r]
  PROVE  writer' \in [Writers -> WriterRecords]
<1>1. writer \in [Writers -> WriterRecords]
  BY DEF ContinuityTypeOK, WriterRecords
<1>2. CASE Ends(w)
  BY <1>1, <1>2, IdleWriterTyped DEF Ends
<1>3. ASSUME NEW point \in ContinuityPoints, Moves(w, point)
      PROVE  writer' \in [Writers -> WriterRecords]
  <2>1. [writer[w] EXCEPT !.at = point] \in WriterRecords
    BY <1>1 DEF WriterRecords
  <2> QED
    BY <1>1, <1>3, <2>1 DEF Moves
<1> QED
  BY <1>1, <1>2, <1>3

\* The row a merge is planned from has been read.
RowIsRead ==
  \A w \in Writers : writer[w].at \in {"plan", "mergeSelf", "rejectSelf"} => writer[w].row \in Rows

\* Every step keeps that.
LEMMA RowStaysRead ==
  ContinuityTypeOK /\ RowIsRead /\ [ContinuityNext]_continuityVars => RowIsRead'
<1> SUFFICES ASSUME ContinuityTypeOK, RowIsRead, [ContinuityNext]_continuityVars,
                    NEW v \in Writers, writer'[v].at \in {"plan", "mergeSelf", "rejectSelf"}
             PROVE  writer'[v].row \in Rows
  BY DEF RowIsRead
<1>0. writer \in [Writers -> WriterRecords]
  BY DEF ContinuityTypeOK, WriterRecords
<1>1. CASE writer'[v] = writer[v]
  BY <1>1 DEF RowIsRead
<1>2. ASSUME NEW w \in Writers, ReadCurrent(w), writer'[v] # writer[v] PROVE writer'[v].row \in Rows
  <2>1. CASE Ends(w)
    BY <1>0, <1>2, <2>1 DEF Ends, IdleWriter, WriterRecords
  <2>2. ASSUME NEW row \in ActiveRows, writer' = [writer EXCEPT ![w].at = "plan", ![w].row = row]
        PROVE  writer'[v].row \in Rows
    <3>1. row \in Rows
      BY DEF ActiveRows
    <3>2. v = w
      BY <1>0, <1>2, <2>2
    <3> QED
      BY <1>0, <2>2, <3>1, <3>2 DEF WriterRecords
  <2> QED
    BY <1>2, <2>1, <2>2 DEF ReadCurrent
<1>3. ASSUME NEW w \in Writers, PlanSelf(w), writer'[v] # writer[v] PROVE writer'[v].row \in Rows
  BY <1>0, <1>3 DEF PlanSelf, Does, Moves, RowIsRead, WriterRecords
<1>4. ASSUME NEW w \in Writers,
             \/ Ends(w)
             \/ \E point \in ContinuityPoints \ {"plan", "mergeSelf", "rejectSelf"} :
                  writer'[w].at = point /\ \A u \in Writers \ {w} : writer'[u] = writer[u]
      PROVE  writer'[v] = writer[v]
  BY <1>0, <1>4 DEF Ends, IdleWriter, WriterRecords
<1>5. ASSUME NEW w \in Writers, NEW c \in Contents, BeginTurnWith(w, c) \/ ConsolidateMemory(w, c)
      PROVE  writer'[v] = writer[v]
  BY <1>0, <1>5, <1>4 DEF BeginTurnWith, ConsolidateMemory, WriterRecords, ContinuityPoints
<1>6. ASSUME NEW w \in Writers, LoadSelfModel(w) \/ InsertSeed(w) \/ RecordMemory(w)
      PROVE  writer'[v] = writer[v]
  BY <1>0, <1>6, <1>4 DEF LoadSelfModel, InsertSeed, RecordMemory, Moves, WriterRecords,
     ContinuityPoints
<1>7. ASSUME NEW w \in Writers, PlanMemory(w) \/ InsertMemory(w) \/ RejectMemory(w)
      PROVE  writer'[v] = writer[v]
  BY <1>0, <1>7, <1>4 DEF PlanMemory, InsertMemory, RejectMemory, AfterMemory, Moves,
     WriterRecords, ContinuityPoints
<1>8. ASSUME NEW w \in Writers, ObserveSelf(w) \/ MergeSelf(w) \/ RejectSelf(w) \/ AbandonProposals(w)
      PROVE  writer'[v].row \in Rows
  BY <1>0, <1>8, <1>4, <1>1 DEF ObserveSelf, MergeSelf, RejectSelf, AbandonProposals, Moves,
     WriterRecords, ContinuityPoints
<1> QED
  BY <1>1, <1>2, <1>3, <1>5, <1>6, <1>7, <1>8 DEF ContinuityNext, continuityVars

\* Every statement of a writer writes what the columns allow.
THEOREM ContinuityTypeCorrect == ContinuitySpec => [](ContinuityTypeOK /\ RowIsRead)
<1>1. ContinuityInit => ContinuityTypeOK /\ RowIsRead
  BY UntoldIsContent
     DEF RowIsRead, ContinuityInit, ContinuityTypeOK, IdleWriter, ContinuityPoints, Subjects, Rows
<1>2. ContinuityTypeOK /\ RowIsRead /\ [ContinuityNext]_continuityVars => ContinuityTypeOK'
  <2> SUFFICES ASSUME ContinuityTypeOK, RowIsRead, [ContinuityNext]_continuityVars
               PROVE  ContinuityTypeOK'
    OBVIOUS
  <2> DEFINE WriterOK == writer' \in [Writers -> WriterRecords]
             TablesOK ==
               /\ memories' \in [Subjects -> Seq([by : Writers, content : Contents, listed : Nat])]
               /\ selfRows' \in [Rows -> [status : {"absent", "active", "superseded"},
                                          preferences : SUBSET Contents]]
               /\ decisions' \in [Writers \X Kinds -> {"none", "accepted", "rejected"}]
  <2>0. /\ writer \in [Writers -> WriterRecords]
        /\ (UNCHANGED <<memories, selfRows, decisions>> => TablesOK)
        /\ (WriterOK /\ TablesOK => ContinuityTypeOK')
    BY DEF ContinuityTypeOK, WriterRecords
  <2>1. ASSUME NEW w \in Writers, NEW c \in Contents, BeginTurnWith(w, c)
        PROVE  ContinuityTypeOK'
    <3>1. [writer[w] EXCEPT !.at = "load", !.told = c] \in WriterRecords
      BY <2>0 DEF WriterRecords, ContinuityPoints
    <3> QED
      BY <2>0, <2>1, <3>1, WriterTyped DEF BeginTurnWith
  <2>2. ASSUME NEW w \in Writers, NEW c \in Contents, ConsolidateMemory(w, c)
        PROVE  ContinuityTypeOK'
    <3>1. [writer[w] EXCEPT !.at = "propose", !.told = c, !.job = TRUE] \in WriterRecords
      BY <2>0 DEF WriterRecords, ContinuityPoints
    <3> QED
      BY <2>0, <2>2, <3>1, WriterTyped DEF ConsolidateMemory
  <2>3. ASSUME NEW w \in Writers, LoadSelfModel(w) PROVE ContinuityTypeOK'
    BY <2>0, <2>3, WriterTyped DEF LoadSelfModel, ContinuityPoints
  <2>4. ASSUME NEW w \in Writers, InsertSeed(w) PROVE ContinuityTypeOK'
    <3>1. WriterOK
      BY <2>4, WriterTyped DEF InsertSeed, ContinuityPoints
    <3>2. TablesOK
      BY <2>4 DEF InsertSeed, NewSelfRow, Rows, Origins, ContinuityTypeOK
    <3> QED
      BY <2>0, <3>1, <3>2
  <2>5. ASSUME NEW w \in Writers, RecordMemory(w) PROVE ContinuityTypeOK'
    <3>1. WriterOK
      BY <2>5, WriterTyped DEF RecordMemory, ContinuityPoints
    <3>2. TablesOK
      BY <2>5 DEF RecordMemory, Decide, Kinds, ContinuityTypeOK
    <3> QED
      BY <2>0, <3>1, <3>2
  <2>6. ASSUME NEW w \in Writers, PlanMemory(w) PROVE ContinuityTypeOK'
    <3>1. Len(Stored(w)) \in Nat
      BY DEF Stored, SubjectOf, Subjects, ContinuityTypeOK
    <3>2. \A point \in ContinuityPoints :
            [writer[w] EXCEPT !.at = point, !.listed = Len(Stored(w))] \in WriterRecords
      BY <2>0, <3>1 DEF WriterRecords
    <3>3. \E point \in ContinuityPoints :
            writer' = [writer EXCEPT ![w] = [writer[w] EXCEPT !.at = point, !.listed = Len(Stored(w))]]
      BY <2>6 DEF PlanMemory, ContinuityPoints
    <3> QED
      BY <2>0, <2>6, <3>2, <3>3, WriterTyped DEF PlanMemory
  <2>7. ASSUME NEW w \in Writers, InsertMemory(w) PROVE ContinuityTypeOK'
    <3>1. NewMemory(w) \in [by : Writers, content : Contents, listed : Nat]
      BY <2>0 DEF NewMemory, WriterRecords
    <3>2. memories' \in [Subjects -> Seq([by : Writers, content : Contents, listed : Nat])]
      <4> DEFINE M == [by : Writers, content : Contents, listed : Nat]
                 subject == SubjectOf(w)
      <4>1. subject \in Subjects /\ memories \in [Subjects -> Seq(M)] /\ NewMemory(w) \in M
        BY <3>1 DEF SubjectOf, Subjects, ContinuityTypeOK
      <4>2. memories' = [memories EXCEPT ![subject] = Append(memories[subject], NewMemory(w))]
        BY <2>7 DEF InsertMemory
      <4> HIDE DEF M, subject
      <4>3. Append(memories[subject], NewMemory(w)) \in Seq(M)
        BY <4>1
      <4>4. memories' \in [Subjects -> Seq(M)]
        BY <4>1, <4>2, <4>3
      <4> QED
        BY <4>4 DEF M
    <3>3. WriterOK
      BY <2>7, WriterTyped DEF InsertMemory, AfterMemory, ContinuityPoints
    <3>4. TablesOK
      BY <2>7, <3>2 DEF InsertMemory, ContinuityTypeOK
    <3> QED
      BY <2>0, <3>3, <3>4
  <2>8. ASSUME NEW w \in Writers, RejectMemory(w) PROVE ContinuityTypeOK'
    <3>1. WriterOK
      BY <2>8, WriterTyped DEF RejectMemory, AfterMemory, ContinuityPoints
    <3>2. TablesOK
      BY <2>8 DEF RejectMemory, Decide, Kinds, ContinuityTypeOK
    <3> QED
      BY <2>0, <3>1, <3>2
  <2>9. ASSUME NEW w \in Writers, ObserveSelf(w) PROVE ContinuityTypeOK'
    <3>1. WriterOK
      BY <2>9, WriterTyped DEF ObserveSelf, ContinuityPoints
    <3>2. TablesOK
      BY <2>9 DEF ObserveSelf, Decide, Kinds, ContinuityTypeOK
    <3> QED
      BY <2>0, <3>1, <3>2
  <2>10. ASSUME NEW w \in Writers, ReadCurrent(w) PROVE ContinuityTypeOK'
    <3>1. ASSUME NEW row \in Rows
          PROVE  [writer[w] EXCEPT !.at = "plan", !.row = row] \in WriterRecords
      BY <2>0 DEF WriterRecords, ContinuityPoints
    <3>2. WriterOK
      <4>1. CASE Ends(w)
        BY <4>1, WriterTyped
      <4>2. ASSUME NEW row \in ActiveRows, writer' = [writer EXCEPT ![w].at = "plan", ![w].row = row]
            PROVE  WriterOK
        <5>1. row \in Rows
          BY DEF ActiveRows
        <5> DEFINE record == [writer[w] EXCEPT !.at = "plan", !.row = row]
        <5>2. record \in WriterRecords /\ writer' = [writer EXCEPT ![w] = record]
          BY <3>1, <4>2, <5>1
        <5> HIDE DEF record
        <5> QED
          BY <5>2, WriterTyped
      <4> QED
        BY <2>10, <4>1, <4>2 DEF ReadCurrent
    <3> QED
      BY <2>0, <2>10, <3>2 DEF ReadCurrent
  <2>11. ASSUME NEW w \in Writers, PlanSelf(w) PROVE ContinuityTypeOK'
    BY <2>0, <2>11, WriterTyped DEF PlanSelf, ContinuityPoints
  <2>12. ASSUME NEW w \in Writers, MergeSelf(w) PROVE ContinuityTypeOK'
    <3>1. WriterOK
      BY <2>12, WriterTyped DEF MergeSelf
    <3>2. TablesOK
      <4> DEFINE row == writer[w].row
                 fresh == NewSelfRow(Observed(row, writer[w].told))
                 rows == [selfRows EXCEPT ![row] = Superseded(row)]
                 RowRecords == [status : {"absent", "active", "superseded"},
                                preferences : SUBSET Contents]
      <4>1. selfRows' = [rows EXCEPT ![<<w, "merge">>] = fresh]
        BY <2>12 DEF MergeSelf
      <4>2. row \in Rows => rows \in [Rows -> RowRecords]
        BY DEF Superseded, ContinuityTypeOK
      <4>3. row \notin Rows => rows = selfRows
        BY DEF ContinuityTypeOK
      <4>4. rows \in [Rows -> RowRecords]
        BY <4>2, <4>3 DEF ContinuityTypeOK
      <4>5. fresh \in RowRecords
        <5>1. writer[w].told \in Contents
          BY <2>0 DEF WriterRecords
        <5>2. row \in Rows
          BY <2>12 DEF MergeSelf, Does, RowIsRead
        <5>3. Observed(row, writer[w].told) \subseteq Contents
          BY <5>1, <5>2 DEF Observed, ContinuityTypeOK
        <5> QED
          BY <5>3 DEF NewSelfRow
      <4> HIDE DEF rows, fresh
      <4>6. selfRows' \in [Rows -> RowRecords]
        BY <4>1, <4>4, <4>5
      <4> QED
        BY <2>12, <4>6 DEF MergeSelf, ContinuityTypeOK
    <3> QED
      BY <2>0, <3>1, <3>2
  <2>13. ASSUME NEW w \in Writers, RejectSelf(w) PROVE ContinuityTypeOK'
    <3>1. WriterOK
      BY <2>13, WriterTyped DEF RejectSelf
    <3>2. TablesOK
      BY <2>13 DEF RejectSelf, Decide, Kinds, ContinuityTypeOK
    <3> QED
      BY <2>0, <3>1, <3>2
  <2>14. ASSUME NEW w \in Writers, AbandonProposals(w) PROVE ContinuityTypeOK'
    BY <2>0, <2>14, WriterTyped DEF AbandonProposals
  <2>15. CASE UNCHANGED continuityVars
    BY <2>15 DEF continuityVars, ContinuityTypeOK
  <2> QED
    BY <2>1, <2>2, <2>3, <2>4, <2>5, <2>6, <2>7, <2>8, <2>9, <2>10, <2>11, <2>12, <2>13,
       <2>14, <2>15 DEF ContinuityNext
<1> QED
  BY <1>1, <1>2, RowStaysRead, PTL DEF ContinuitySpec

\* Once a turn has stored a self model there is always an active one, whatever
\* merges, first loads and crashes come together.
THEOREM SelfModelStays == ContinuitySpec => []SelfModelIsKept
<1>1. ContinuityInit => SelfModelIsKept
  BY DEF ContinuityInit, SelfModelIsKept
<1>2. ContinuityTypeOK /\ SelfModelIsKept /\ [ContinuityNext]_continuityVars => SelfModelIsKept'
  <2> SUFFICES ASSUME ContinuityTypeOK, SelfModelIsKept, [ContinuityNext]_continuityVars
               PROVE  SelfModelIsKept'
    OBVIOUS
  <2>1. CASE UNCHANGED selfRows
    BY <2>1 DEF SelfModelIsKept, ActiveRows
  <2>2. ASSUME NEW w \in Writers, InsertSeed(w) PROVE SelfModelIsKept'
    <3>1. <<w, "seed">> \in Rows /\ selfRows'[<<w, "seed">>].status = "active"
      BY <2>2 DEF InsertSeed, NewSelfRow, ContinuityTypeOK, Rows, Origins
    <3> QED
      BY <3>1 DEF SelfModelIsKept, ActiveRows
  <2>3. ASSUME NEW w \in Writers, MergeSelf(w) PROVE SelfModelIsKept'
    <3> DEFINE rows == [selfRows EXCEPT ![writer[w].row] = Superseded(writer[w].row)]
    <3>1. <<w, "merge">> \in Rows /\ DOMAIN rows = Rows
      BY DEF ContinuityTypeOK, Rows, Origins
    <3>2. selfRows' = [rows EXCEPT ![<<w, "merge">>] =
                         NewSelfRow(Observed(writer[w].row, writer[w].told))]
      BY <2>3 DEF MergeSelf
    <3> HIDE DEF rows
    <3>3. selfRows'[<<w, "merge">>].status = "active"
      BY <3>1, <3>2 DEF NewSelfRow
    <3> QED
      BY <3>1, <3>3 DEF SelfModelIsKept, ActiveRows
  <2> QED
    BY <2>1, <2>2, <2>3
       DEF ContinuityNext, continuityVars, BeginTurnWith, ConsolidateMemory, LoadSelfModel,
           RecordMemory, PlanMemory, InsertMemory, RejectMemory, ObserveSelf, ReadCurrent,
           PlanSelf, RejectSelf, AbandonProposals
<1> QED
  BY <1>1, <1>2, ContinuityTypeCorrect, PTL DEF ContinuitySpec

\* What a writer found of its own content when it listed the memories is too
\* far back for the scan; whatever is stored since does not change that.
ScanWasClean ==
  \A w \in Writers :
    Does(w, "insertMemory") =>
      /\ writer[w].listed <= Len(Stored(w))
      /\ \A i \in 1..writer[w].listed :
           Stored(w)[i].content = writer[w].told => i + ScanLimit <= writer[w].listed

\* Memories are appended, and never changed or removed.
LEMMA MemoriesGrow ==
  ASSUME ContinuityTypeOK, [ContinuityNext]_continuityVars, NEW s \in Subjects
  PROVE  /\ Len(memories[s]) \in Nat /\ Len(memories'[s]) \in Nat
         /\ Len(memories[s]) <= Len(memories'[s])
         /\ \A i \in 1..Len(memories[s]) : memories'[s][i] = memories[s][i]
<1> DEFINE M == [by : Writers, content : Contents, listed : Nat]
<1>1. memories \in [Subjects -> Seq(M)]
  BY DEF ContinuityTypeOK
<1>2. CASE memories' = memories
  BY <1>1, <1>2
<1>3. ASSUME NEW w \in Writers, InsertMemory(w)
      PROVE  memories'[s] \in {memories[s], Append(memories[s], NewMemory(w))}
  BY <1>1, <1>3 DEF InsertMemory
<1>4. ASSUME NEW w \in Writers, memories'[s] = Append(memories[s], NewMemory(w))
      PROVE  /\ Len(memories'[s]) = Len(memories[s]) + 1
             /\ \A i \in 1..Len(memories[s]) : memories'[s][i] = memories[s][i]
  <2> HIDE DEF M
  <2>1. memories[s] \in Seq(M)
    BY <1>1
  <2>2. NewMemory(w) \in M
    BY DEF M, NewMemory, ContinuityTypeOK
  <2> QED
    BY <1>4, <2>1, <2>2
<1>5. Len(memories[s]) \in Nat
  BY <1>1
<1>6. memories' = memories \/ \E w \in Writers : InsertMemory(w)
  BY DEF ContinuityNext, continuityVars, BeginTurnWith, ConsolidateMemory, LoadSelfModel,
     InsertSeed,
         RecordMemory, PlanMemory, RejectMemory, ObserveSelf, ReadCurrent, PlanSelf,
         MergeSelf, RejectSelf, AbandonProposals
<1> HIDE DEF M
<1> QED
  BY <1>2, <1>3, <1>4, <1>5, <1>6

\* A writer that is about to insert has just listed, or was about to before.
LEMMA InsertFollowsPlan ==
  ASSUME ContinuityTypeOK, [ContinuityNext]_continuityVars,
         NEW v \in Writers, Does(v, "insertMemory")'
  PROVE  writer'[v] = writer[v] \/ PlanMemory(v)
<1>0. writer \in [Writers -> WriterRecords]
  BY DEF ContinuityTypeOK, WriterRecords
<1>1. ASSUME NEW w \in Writers,
             \/ Ends(w)
             \/ \E point \in ContinuityPoints \ {"insertMemory"} : Moves(w, point)
      PROVE  writer'[v] = writer[v]
  BY <1>0, <1>1 DEF Ends, Moves, Does, IdleWriter, WriterRecords
<1>2. ASSUME NEW w \in Writers, NEW c \in Contents, BeginTurnWith(w, c) \/ ConsolidateMemory(w, c)
      PROVE  writer'[v] = writer[v]
  BY <1>0, <1>2 DEF BeginTurnWith, ConsolidateMemory, Does, WriterRecords
<1>3. ASSUME NEW w \in Writers, LoadSelfModel(w) \/ InsertSeed(w) \/ RecordMemory(w)
      PROVE  writer'[v] = writer[v]
  BY <1>1, <1>3 DEF LoadSelfModel, InsertSeed, RecordMemory, ContinuityPoints, Moves, Ends
<1>4. ASSUME NEW w \in Writers, PlanMemory(w) PROVE writer'[v] = writer[v] \/ PlanMemory(v)
  BY <1>0, <1>4 DEF PlanMemory
<1>5. ASSUME NEW w \in Writers, InsertMemory(w) \/ RejectMemory(w) PROVE writer'[v] = writer[v]
  BY <1>1, <1>5 DEF InsertMemory, RejectMemory, AfterMemory, ContinuityPoints
<1>6. ASSUME NEW w \in Writers, ReadCurrent(w) PROVE writer'[v] = writer[v]
  <2>1. CASE Ends(w)
    BY <1>1, <2>1
  <2>2. ASSUME NEW row, writer' = [writer EXCEPT ![w].at = "plan", ![w].row = row]
        PROVE  writer'[v] = writer[v]
    BY <1>0, <2>2 DEF Does, WriterRecords
  <2> QED
    BY <1>6, <2>1, <2>2 DEF ReadCurrent
<1>7. ASSUME NEW w \in Writers,
             ObserveSelf(w) \/ PlanSelf(w) \/ MergeSelf(w) \/ RejectSelf(w) \/ AbandonProposals(w)
      PROVE  writer'[v] = writer[v]
  BY <1>1, <1>7 DEF ObserveSelf, PlanSelf, MergeSelf, RejectSelf, AbandonProposals, ContinuityPoints
<1> QED
  BY <1>2, <1>3, <1>4, <1>5, <1>6, <1>7 DEF ContinuityNext, continuityVars

\* Every step keeps that.
LEMMA ScanStaysClean ==
  ContinuityTypeOK /\ ScanWasClean /\ [ContinuityNext]_continuityVars => ScanWasClean'
<1> SUFFICES ASSUME ContinuityTypeOK, ScanWasClean, [ContinuityNext]_continuityVars,
                    NEW v \in Writers, Does(v, "insertMemory")'
             PROVE  /\ writer'[v].listed <= Len(Stored(v)')
                    /\ \A i \in 1..writer'[v].listed :
                         Stored(v)'[i].content = writer'[v].told => i + ScanLimit <= writer'[v].listed
  BY DEF ScanWasClean
<1>0. writer \in [Writers -> WriterRecords] /\ SubjectOf(v) \in Subjects /\ SubjectOf(v)' \in Subjects
  BY DEF ContinuityTypeOK, WriterRecords, SubjectOf, Subjects
<1>1. CASE writer'[v] = writer[v]
  <2>1. SubjectOf(v)' = SubjectOf(v)
    BY <1>1 DEF SubjectOf
  <2>2. /\ writer[v].listed <= Len(Stored(v))
        /\ \A i \in 1..writer[v].listed :
             Stored(v)[i].content = writer[v].told => i + ScanLimit <= writer[v].listed
    BY <1>1 DEF ScanWasClean, Does
  <2>3. writer[v].listed \in Nat
    BY <1>0 DEF WriterRecords
  <2> QED
    BY <1>0, <1>1, <2>1, <2>2, <2>3, MemoriesGrow DEF Stored
<1>2. CASE PlanMemory(v)
  <2>1. /\ writer'[v].listed = Len(Stored(v)) /\ writer'[v].told = writer[v].told
        /\ writer'[v].job = writer[v].job
        /\ ~ \E m \in Scanned(v) : m.content = writer[v].told
    BY <1>0, <1>2 DEF PlanMemory, Does, WriterRecords
  <2>2. Stored(v)' = Stored(v)
    BY <1>2, <2>1 DEF PlanMemory, Stored, SubjectOf
  <2>3. Len(Stored(v)) \in Nat /\ DOMAIN Stored(v) = 1..Len(Stored(v))
    BY <1>0 DEF Stored, ContinuityTypeOK
  <2>4. \A i \in 1..Len(Stored(v)) :
          i + ScanLimit > Len(Stored(v)) => Stored(v)[i].content # writer[v].told
    BY <2>1, <2>3 DEF Scanned
  <2> QED
    BY <2>1, <2>2, <2>3, <2>4, ContinuityAssumption
<1> QED
  BY <1>1, <1>2, InsertFollowsPlan

\* A memory is stored a second time only when the first one was too far back
\* for the scan or was committed after it, for any scan limit.
THEOREM RepeatsHaveCause == ContinuitySpec => []RepeatsAreOldOrRaced
<1>1. ContinuityInit => ScanWasClean /\ RepeatsAreOldOrRaced
  BY DEF ContinuityInit, ScanWasClean, RepeatsAreOldOrRaced, Does, IdleWriter
<1>2. ContinuityTypeOK /\ ScanWasClean /\ RepeatsAreOldOrRaced /\ [ContinuityNext]_continuityVars
        => RepeatsAreOldOrRaced'
  <2> SUFFICES ASSUME ContinuityTypeOK, ScanWasClean, RepeatsAreOldOrRaced,
                      [ContinuityNext]_continuityVars
               PROVE  RepeatsAreOldOrRaced'
    OBVIOUS
  <2>1. CASE memories' = memories
    BY <2>1 DEF RepeatsAreOldOrRaced
  <2>2. ASSUME NEW w \in Writers, InsertMemory(w) PROVE RepeatsAreOldOrRaced'
    <3> SUFFICES ASSUME NEW s \in Subjects, NEW i \in DOMAIN memories'[s], NEW j \in DOMAIN memories'[s],
                        i < j, memories'[s][i].content = memories'[s][j].content
                 PROVE  \/ i > memories'[s][j].listed
                        \/ i + ScanLimit <= memories'[s][j].listed
      BY DEF RepeatsAreOldOrRaced
    <3> DEFINE M == [by : Writers, content : Contents, listed : Nat]
    <3>1. memories \in [Subjects -> Seq(M)] /\ NewMemory(w) \in M /\ SubjectOf(w) \in Subjects
      BY DEF ContinuityTypeOK, NewMemory, SubjectOf, Subjects
    <3>2. CASE s # SubjectOf(w)
      <4>1. memories'[s] = memories[s]
        BY <2>2, <3>1, <3>2 DEF InsertMemory
      <4> QED
        BY <4>1 DEF RepeatsAreOldOrRaced
    <3>3. CASE s = SubjectOf(w)
      <4>1. memories'[s] = Append(memories[s], NewMemory(w)) /\ memories[s] = Stored(w)
        BY <2>2, <3>1, <3>3 DEF InsertMemory, Stored
      <4> HIDE DEF M
      <4>2. /\ Len(memories[s]) \in Nat /\ DOMAIN memories[s] = 1..Len(memories[s])
            /\ DOMAIN memories'[s] = 1..(Len(memories[s]) + 1)
            /\ memories'[s][Len(memories[s]) + 1] = NewMemory(w)
            /\ \A k \in 1..Len(memories[s]) : memories'[s][k] = memories[s][k]
        BY <3>1, <4>1
      <4>3. CASE j \in 1..Len(memories[s])
        <5>1. i \in DOMAIN memories[s] /\ j \in DOMAIN memories[s]
          BY <4>2, <4>3
        <5>2. memories'[s][i] = memories[s][i] /\ memories'[s][j] = memories[s][j]
          BY <4>2, <5>1
        <5> QED
          BY <5>1, <5>2 DEF RepeatsAreOldOrRaced
      <4>4. CASE j = Len(memories[s]) + 1
        <5>1. memories'[s][j].listed = writer[w].listed /\ memories'[s][j].content = writer[w].told
          BY <4>2, <4>4 DEF NewMemory
        <5>2. i \in 1..Len(memories[s]) /\ memories'[s][i] = memories[s][i]
          BY <4>2, <4>4
        <5>3. writer[w].listed \in Nat
          BY DEF ContinuityTypeOK
        <5>4. i <= writer[w].listed => i + ScanLimit <= writer[w].listed
          BY <2>2, <4>1, <5>1, <5>2, <5>3 DEF InsertMemory, ScanWasClean
        <5> QED
          BY <5>1, <5>2, <5>3, <5>4
      <4> QED
        BY <4>2, <4>3, <4>4
    <3> QED
      BY <3>2, <3>3
  <2> QED
    BY <2>1, <2>2
       DEF ContinuityNext, continuityVars, BeginTurnWith, ConsolidateMemory, LoadSelfModel,
           InsertSeed,
           RecordMemory, PlanMemory, RejectMemory, ObserveSelf, ReadCurrent, PlanSelf,
           MergeSelf, RejectSelf, AbandonProposals
<1> QED
  BY <1>1, <1>2, ScanStaysClean, ContinuityTypeCorrect, PTL DEF ContinuitySpec
=============================================================================
