----------------------------- MODULE RecordsProofs -----------------------------
(* What concurrent requests make of the records of a case: the invariant   *)
(* of each component, for any number of requests and rows, and of them all *)
(* together.                                                               *)
EXTENDS MCRecords, StatementBuilder, CaseReadiness, FiniteSetTheorems, WellFoundedInduction, TLAPS

-----------------------------------------------------------------------------
(* Statements and their builder.                                            *)

(* The versions of a statement are finitely many, and with them its        *)
(* numbers and the statements of a case.                                   *)
LEMMA VersionsFinite ==
  ASSUME StatementsInv, NEW c \in Cases, NEW row
  PROVE  /\ IsFiniteSet(versions) /\ Cardinality(versions) \in Nat
         /\ IsFiniteSet(Of(c, row)) /\ Cardinality(Of(c, row)) \in Nat
         /\ IsFiniteSet(RowsOf(c)) /\ Cardinality(RowsOf(c)) \in Nat
         /\ Cardinality(RowsOf(c)) <= Cardinality(versions)
<1>1. IsFiniteSet(versions) BY DEF StatementsInv, StatementsOK
<1>2. Of(c, row) \subseteq versions BY DEF Of
<1> DEFINE S == {u \in versions : u.case = c}
           f == [v \in S |-> v.row]
<1>3. IsFiniteSet(S) /\ Cardinality(S) <= Cardinality(versions) BY <1>1, FS_Subset
<1>4. f \in Surjection(S, RowsOf(c)) BY DEF Surjection, RowsOf
<1>5. IsFiniteSet(RowsOf(c)) /\ Cardinality(RowsOf(c)) <= Cardinality(S)
  BY <1>3, <1>4, FS_Surjection
<1> HIDE DEF f, S
<1>6. Cardinality(versions) \in Nat /\ Cardinality(RowsOf(c)) \in Nat /\ Cardinality(S) \in Nat
  BY <1>1, <1>3, <1>5, FS_CardinalityType
<1> QED BY <1>1, <1>2, <1>3, <1>5, <1>6, FS_Subset, FS_CardinalityType

(* The last number of a statement that exists.                             *)
LEMMA LatestIsLast ==
  ASSUME StatementsInv, NEW c \in Cases, NEW row \in RowsOf(c)
  PROVE  /\ row \in Rows /\ Of(c, row) # {}
         /\ Latest(c, row) = Cardinality(Of(c, row)) /\ Cardinality(Of(c, row)) >= 1
<1> DEFINE n == Cardinality(Of(c, row))
<1>1. Of(c, row) # {} /\ row \in Rows
  BY DEF RowsOf, Of, StatementsInv, StatementsTypeOK
<1>2. IsFiniteSet(Of(c, row)) /\ n \in Nat BY VersionsFinite
<1>3. n # 0 BY <1>1, <1>2, FS_EmptySet
<1>4. Numbers(c, row) = 1..n BY <1>1 DEF StatementsInv, HistoryHasNoGaps
<1> HIDE DEF n
<1>5. n \in Numbers(c, row) /\ \A m \in Numbers(c, row) : m <= n BY <1>2, <1>3, <1>4
<1>6. Latest(c, row) \in Numbers(c, row) /\ \A m \in Numbers(c, row) : m <= Latest(c, row)
  BY <1>1, <1>5 DEF Latest
<1>7. Latest(c, row) = n BY <1>2, <1>4, <1>5, <1>6
<1> QED BY <1>1, <1>2, <1>3, <1>7 DEF n

LEMMA StatementsInvInit == StatementsInit => StatementsInv
<1> SUFFICES ASSUME StatementsInit PROVE StatementsInv OBVIOUS
<1> USE DEF StatementsInit
<1>1. StatementsTypeOK BY StatementAssumption DEF StatementsTypeOK, NoWriter, WriterStates
<1>2. ASSUME NEW c \in Cases, NEW row PROVE RowsOf(c) = {} /\ Of(c, row) = {} /\ Numbers(c, row) = {}
  BY DEF RowsOf, Of, Numbers
<1>3. Cardinality({}) = 0 /\ IsFiniteSet({}) /\ 1..0 = {} BY FS_EmptySet
<1>4. StatementsOK
  <2>1. IsFiniteSet(versions) /\ Cardinality(versions) <= MaxVersions
    BY <1>3, StatementAssumption
  <2>2. ASSUME NEW c \in Cases
        PROVE  RowsOf(c) = 1..Cardinality(RowsOf(c)) /\ newest[c] \in RowsOf(c) \cup {0}
    BY <1>2, <1>3
  <2>3. ASSUME NEW w \in Writers PROVE WriterOK(w) BY DEF WriterOK, NoWriter
  <2> QED BY <2>1, <2>2, <2>3 DEF StatementsOK
<1>5. HistoryHasNoGaps BY <1>2, <1>3 DEF HistoryHasNoGaps
<1>6. AcknowledgedVersionIsKept BY DEF AcknowledgedVersionIsKept, NoWriter
<1> QED BY <1>1, <1>4, <1>5, <1>6 DEF StatementsInv

(* A request begins, goes on or ends and writes no version.                *)
LEMMA RequestStep ==
  ASSUME StatementsInv, NEW w \in Writers, NEW r \in WriterStates,
         writer' = [writer EXCEPT ![w] = r], UNCHANGED <<versions, newest>>,
         summary' \in [Cases -> Nat], WriterOK(w)', r.pc = "done" => r.row = 0
  PROVE  StatementsInv'
<1> USE DEF StatementsInv
<1>1. writer \in [Writers -> WriterStates] BY DEF StatementsTypeOK
<1>2. StatementsTypeOK' BY <1>1 DEF StatementsTypeOK
<1>3. HistoryHasNoGaps' BY DEF HistoryHasNoGaps, Numbers, Of
<1>4. ASSUME NEW v \in Writers PROVE (v = w => writer'[v] = r) /\ (v # w => writer'[v] = writer[v])
  BY <1>1
<1>5. ASSUME NEW v \in Writers PROVE WriterOK(v)'
  <2>1. CASE v = w BY <2>1
  <2>2. CASE v # w
    <3>1. WriterOK(v) BY DEF StatementsOK
    <3> QED BY <2>2, <3>1, <1>4 DEF WriterOK, RowsOf, Of
  <2> QED BY <2>1, <2>2
<1>6. StatementsOK' BY <1>5 DEF StatementsOK, RowsOf
<1>7. AcknowledgedVersionIsKept' BY <1>4 DEF AcknowledgedVersionIsKept, Of
<1> QED BY <1>2, <1>3, <1>6, <1>7

LEMMA FindOrNumberStep ==
  ASSUME StatementsInv, NEW w \in Writers, FindStatement(w) \/ NumberVersion(w)
  PROVE  StatementsInv'
<1>1. /\ writer[w] \in WriterStates /\ writer \in [Writers -> WriterStates]
      /\ newest \in [Cases -> 0..MaxVersions] /\ summary \in [Cases -> Nat]
      /\ WriterOK(w) /\ MaxVersions \in Nat
      /\ UNCHANGED <<versions, newest, summary>>
  BY StatementAssumption DEF StatementsInv, StatementsTypeOK, StatementsOK, FindStatement,
     NumberVersion
<1>2. PICK c \in Cases : c = writer[w].case /\ writer[w].text \in Texts
  BY <1>1 DEF FindStatement, NumberVersion, WriterOK
<1>3. newest[c] \in RowsOf(c) \cup {0} BY DEF StatementsInv, StatementsOK
<1>4. CASE FindStatement(w)
  <2> DEFINE row == newest[c]
             pc == IF row = 0 THEN "write" ELSE "number"
  <2>1. PICK r \in WriterStates : r = [writer[w] EXCEPT !.row = row, !.pc = pc]
    BY <1>1 DEF WriterStates
  <2>2. /\ r.row = row /\ r.pc = pc /\ r.case = c /\ r.text = writer[w].text
    BY <1>1, <1>2, <2>1 DEF WriterStates
  <2>3. writer' = [writer EXCEPT ![w] = r] BY <1>2, <1>4, <2>1 DEF FindStatement
  <2>4. WriterOK(w)'
    <3>1. writer'[w] = r BY <1>1, <2>3
    <3> QED BY <1>1, <1>2, <1>3, <2>2, <3>1 DEF WriterOK, RowsOf
  <2> QED BY <1>1, <2>2, <2>3, <2>4, RequestStep
<1>5. CASE NumberVersion(w)
  <2>1. PICK row \in RowsOf(c) : row = writer[w].row
    BY <1>1, <1>2, <1>5 DEF NumberVersion, WriterOK
  <2>2. PICK n \in Nat : n = Cardinality(Of(c, row)) /\ Latest(c, row) = n
    BY <2>1, LatestIsLast, VersionsFinite
  <2> DEFINE rr == [writer[w] EXCEPT !.pc = "write", !.number = n + 1]
  <2>10. n + 1 \in Nat BY <2>2
  <2>11. rr \in WriterStates
    <3>1. ASSUME NEW m \in Nat
          PROVE  [writer[w] EXCEPT !.pc = "write", !.number = m] \in WriterStates
      BY <1>1 DEF WriterStates
    <3> QED BY <2>10, <3>1
  <2>3. PICK r \in WriterStates : r = rr BY <2>11
  <2>4. r.pc = "write" /\ r.number = n + 1 /\ r.row = row /\ r.case = c /\ r.text \in Texts
    BY <1>1, <1>2, <2>1, <2>3 DEF WriterStates
  <2>5. writer' = [writer EXCEPT ![w] = r]
    BY <1>2, <1>5, <2>1, <2>2, <2>3 DEF NumberVersion
  <2>6. WriterOK(w)'
    <3>1. writer'[w] = r BY <1>1, <2>5
    <3>2. RowsOf(c)' = RowsOf(c) /\ Of(c, row)' = Of(c, row) BY <1>1 DEF RowsOf, Of
    <3>3. r.number \in 1..(n + 1) BY <2>2, <2>4
    <3> QED BY <1>2, <2>1, <2>2, <2>4, <3>1, <3>2, <3>3 DEF WriterOK
  <2> QED BY <1>1, <2>4, <2>5, <2>6, RequestStep
<1> QED BY <1>4, <1>5

(* A version is added under the next number of its statement, which is the *)
(* one after the last or a new one of its case.                            *)
LEMMA VersionAdded ==
  ASSUME StatementsInv, NEW w \in Writers, NEW c \in Cases, NEW t \in Texts, NEW row \in Nat,
         NEW r \in WriterStates,
         c = writer[w].case,
         \/ row \in RowsOf(c)
         \/ row = Cardinality(RowsOf(c)) + 1,
         NEW number \in Nat, number = Cardinality(Of(c, row)) + 1,
         Cardinality(versions) < MaxVersions,
         versions' = versions \cup {[case |-> c, row |-> row, number |-> number, text |-> t]},
         newest' = [newest EXCEPT ![c] = row],
         writer' = [writer EXCEPT ![w] = r],
         r.pc = "done", r.row = row, r.number = number, r.case = c, r.text = t,
         UNCHANGED summary
  PROVE  StatementsInv'
<1> USE DEF StatementsInv
<1> DEFINE v == [case |-> c, row |-> row, number |-> number, text |-> t]
           k == Cardinality(RowsOf(c))
           n == Cardinality(Of(c, row))
<1>1. /\ writer \in [Writers -> WriterStates] /\ newest \in [Cases -> 0..MaxVersions]
      /\ versions \subseteq [case : Cases, row : Rows, number : Nat, text : Texts]
      /\ MaxVersions \in Nat
  BY StatementAssumption DEF StatementsTypeOK
<1>2. /\ IsFiniteSet(versions) /\ Cardinality(versions) \in Nat /\ k \in Nat /\ n \in Nat
      /\ IsFiniteSet(Of(c, row)) /\ IsFiniteSet(RowsOf(c)) /\ k <= Cardinality(versions)
  BY VersionsFinite
<1>3. RowsOf(c) = 1..k /\ row \in 1..(k + 1) BY <1>2 DEF StatementsOK
<1>4. row \in Rows BY <1>1, <1>2, <1>3 DEF Rows
<1>5. v \in [case : Cases, row : Rows, number : Nat, text : Texts] BY <1>4
<1>6. StatementsTypeOK' BY <1>1, <1>4, <1>5 DEF StatementsTypeOK, Rows
<1>7. Numbers(c, row) = 1..n BY <1>4 DEF HistoryHasNoGaps
<1>8. number \notin Numbers(c, row) /\ v \notin Of(c, row)
  <2>1. number \notin 1..n BY <1>2
  <2> QED BY <1>7, <2>1 DEF Numbers
<1>9. ASSUME NEW d \in Cases, NEW x
      PROVE  Of(d, x)' = IF d = c /\ x = row THEN Of(c, row) \cup {v} ELSE Of(d, x)
  BY DEF Of
<1>10. ASSUME NEW d \in Cases
       PROVE  RowsOf(d)' = IF d = c THEN RowsOf(c) \cup {row} ELSE RowsOf(d)
  <2>1. versions' = versions \cup {v} /\ v.case = c /\ v.row = row OBVIOUS
  <2>2. ASSUME NEW x PROVE x \in RowsOf(d)' <=> x \in RowsOf(d) \/ (d = c /\ x = row)
    <3> HIDE DEF v
    <3>1. x \in RowsOf(d)' <=> \E u \in versions' : u.case = d /\ x = u.row BY DEF RowsOf
    <3>2. x \in RowsOf(d) <=> \E u \in versions : u.case = d /\ x = u.row BY DEF RowsOf
    <3> QED BY <2>1, <3>1, <3>2
  <2> QED BY <2>2
<1>11. Cardinality(Of(c, row) \cup {v}) = n + 1 BY <1>2, <1>8, FS_AddElement
<1> HIDE DEF v, n, k
<1>12. ASSUME NEW d \in Cases, NEW x \in Rows
       PROVE  Numbers(d, x)' = 1..Cardinality(Of(d, x)')
  <2>1. CASE d = c /\ x = row
    <3>3. Of(c, row)' = Of(c, row) \cup {v} /\ v.number = number BY <1>9 DEF v
    <3>1. Numbers(c, row)' = Numbers(c, row) \cup {number} BY <3>3 DEF Numbers
    <3>2. 1..n \cup {n + 1} = 1..(n + 1) BY <1>2
    <3> QED BY <2>1, <3>1, <3>2, <3>3, <1>7, <1>11 DEF n
  <2>2. CASE ~(d = c /\ x = row)
    <3>1. Of(d, x)' = Of(d, x) BY <1>9, <2>2
    <3>2. Numbers(d, x)' = Numbers(d, x) BY <3>1 DEF Numbers
    <3>3. Numbers(d, x) = 1..Cardinality(Of(d, x)) BY DEF HistoryHasNoGaps
    <3> QED BY <3>1, <3>2, <3>3
  <2> QED BY <2>1, <2>2
<1>13. HistoryHasNoGaps' BY <1>12 DEF HistoryHasNoGaps, Rows
<1>14. ASSUME NEW d \in Cases
       PROVE  RowsOf(d)' = 1..Cardinality(RowsOf(d)') /\ newest'[d] \in RowsOf(d)' \cup {0}
  <2>1. CASE d # c BY <1>1, <1>10, <2>1 DEF StatementsOK
  <2>2. CASE d = c
    <3>1. newest'[c] = row BY <1>1
    <3>2. CASE row \in RowsOf(c)
      <4>1. RowsOf(c)' = RowsOf(c) BY <1>10, <3>2
      <4> QED BY <2>2, <3>1, <3>2, <4>1, <1>3 DEF k
    <3>3. CASE row \notin RowsOf(c)
      <4>1. row = k + 1 BY <3>3 DEF k
      <4>2. Cardinality(RowsOf(c) \cup {row}) = k + 1 BY <1>2, <3>3, FS_AddElement DEF k
      <4>3. 1..k \cup {k + 1} = 1..(k + 1) BY <1>2
      <4>4. RowsOf(c)' = RowsOf(c) \cup {row} BY <1>10
      <4> QED BY <2>2, <3>1, <4>1, <4>2, <4>3, <4>4, <1>3
    <3> QED BY <3>2, <3>3
  <2> QED BY <2>1, <2>2
<1>15. ASSUME NEW u \in Writers PROVE WriterOK(u)'
  <2>1. CASE u = w BY <1>1, <2>1 DEF WriterOK
  <2>2. CASE u # w
    <3>1. WriterOK(u) /\ writer'[u] = writer[u] /\ writer[u] \in WriterStates
      BY <1>1, <2>2 DEF StatementsOK
    <3>2. CASE writer[u].pc \notin {"number", "write"} BY <3>1, <3>2 DEF WriterOK
    <3>3. CASE writer[u].pc \in {"number", "write"}
      <4>1. PICK d \in Cases, x \in 0..MaxVersions : d = writer[u].case /\ x = writer[u].row
        BY <3>1, <3>3 DEF WriterOK, WriterStates
      <4>2. RowsOf(d) \subseteq RowsOf(d)' BY <1>10
      <4>3. /\ Cardinality(Of(d, x)) \in Nat /\ Cardinality(Of(d, x)') \in Nat
            /\ Cardinality(Of(d, x)') >= Cardinality(Of(d, x))
        <5>1. Cardinality(Of(d, x)) \in Nat BY VersionsFinite
        <5>2. CASE d = c /\ x = row
          <6>1. Of(d, x)' = Of(c, row) \cup {v} BY <1>9, <5>2
          <6> QED BY <5>2, <6>1, <1>2, <1>11 DEF n
        <5>3. CASE ~(d = c /\ x = row)
          <6>1. Of(d, x)' = Of(d, x) BY <1>9, <5>3
          <6> QED BY <5>1, <6>1
        <5> QED BY <5>2, <5>3
      <4>4. writer[u].number \in Nat BY <3>1 DEF WriterStates
      <4>5. \A m \in Nat : m \in 1..(Cardinality(Of(d, x)) + 1) => m \in 1..(Cardinality(Of(d, x)') + 1)
        BY <4>3
      <4> QED BY <3>1, <3>3, <4>1, <4>2, <4>4, <4>5 DEF WriterOK
    <3> QED BY <3>2, <3>3
  <2> QED BY <2>1, <2>2
<1>16. IsFiniteSet(versions)' /\ (Cardinality(versions) <= MaxVersions)'
  <2>1. versions' = versions \cup {v} BY DEF v
  <2>2. /\ IsFiniteSet(versions \cup {v})
        /\ Cardinality(versions \cup {v}) \in {Cardinality(versions), Cardinality(versions) + 1}
    BY <1>2, FS_AddElement
  <2>3. Cardinality(versions \cup {v}) <= MaxVersions BY <1>1, <1>2, <2>2
  <2> QED BY <2>1, <2>2, <2>3
<1>17. StatementsOK' BY <1>14, <1>15, <1>16 DEF StatementsOK
<1>18. AcknowledgedVersionIsKept'
  <2>1. ASSUME NEW u \in Writers, writer'[u].pc = "done", writer'[u].row # 0
        PROVE  {y \in versions' : y.case = writer'[u].case /\ y.row = writer'[u].row
                                     /\ y.number = writer'[u].number}
                 = {[case |-> writer'[u].case, row |-> writer'[u].row,
                     number |-> writer'[u].number, text |-> writer'[u].text]}
    <3>1. CASE u = w
      <4>1. writer'[u] = r BY <1>1, <3>1
      <4>2. ASSUME NEW y \in versions, y.case = c, y.row = row PROVE y.number # number
        BY <4>2, <1>8 DEF Numbers, Of
      <4> QED BY <4>1, <4>2 DEF v
    <3>2. CASE u # w
      <4>1. writer'[u] = writer[u] BY <1>1, <3>2
      <4>2. PICK y \in versions :
              /\ y = [case |-> writer[u].case, row |-> writer[u].row,
                      number |-> writer[u].number, text |-> writer[u].text]
              /\ \A z \in versions : z.case = y.case /\ z.row = y.row /\ z.number = y.number => z = y
        <5> DEFINE y == [case |-> writer[u].case, row |-> writer[u].row,
                         number |-> writer[u].number, text |-> writer[u].text]
        <5>1. {z \in versions : z.case = writer[u].case /\ z.row = writer[u].row
                                /\ z.number = writer[u].number} = {y}
          <6>1. writer[u].pc = "done" /\ writer[u].row # 0 BY <2>1, <4>1
          <6>2. {z \in Of(writer[u].case, writer[u].row) : z.number = writer[u].number} = {y}
            BY <6>1 DEF AcknowledgedVersionIsKept
          <6> QED BY <6>2 DEF Of
        <5>2. y.case = writer[u].case /\ y.row = writer[u].row /\ y.number = writer[u].number
          OBVIOUS
        <5> HIDE DEF y
        <5>3. y \in versions /\ \A z \in versions :
                z.case = y.case /\ z.row = y.row /\ z.number = y.number => z = y
          BY <5>1, <5>2
        <5> QED BY <5>3 DEF y
      <4>3. ~(v.case = y.case /\ v.row = y.row /\ v.number = y.number)
        BY <1>8, <4>2 DEF v, Numbers, Of
      <4> QED BY <4>1, <4>2, <4>3 DEF v
    <3> QED BY <3>1, <3>2
  <2> QED BY <2>1 DEF AcknowledgedVersionIsKept, Of
<1> QED BY <1>6, <1>13, <1>17, <1>18

LEMMA WriteVersionStep ==
  ASSUME StatementsInv, NEW w \in Writers, WriteVersion(w)
  PROVE  StatementsInv'
<1>1. /\ writer[w] \in WriterStates /\ writer \in [Writers -> WriterStates]
      /\ newest \in [Cases -> 0..MaxVersions] /\ summary \in [Cases -> Nat]
      /\ WriterOK(w) /\ MaxVersions \in Nat
      /\ writer[w].pc = "write" /\ UNCHANGED summary
  BY StatementAssumption DEF StatementsInv, StatementsTypeOK, StatementsOK, WriteVersion
<1>2. PICK c \in Cases, t \in Texts : c = writer[w].case /\ t = writer[w].text
  BY <1>1 DEF WriterOK
<1> DEFINE row == IF writer[w].row = 0 THEN NewRow(c) ELSE writer[w].row
           number == IF writer[w].row = 0 THEN 1 ELSE writer[w].number
<1>3. CASE writer' = [writer EXCEPT ![w].pc = "failed"] /\ UNCHANGED <<versions, newest>>
  <2>1. PICK r \in WriterStates : r = [writer[w] EXCEPT !.pc = "failed"] BY <1>1 DEF WriterStates
  <2>2. r.pc = "failed" BY <1>1, <2>1 DEF WriterStates
  <2>3. writer' = [writer EXCEPT ![w] = r] BY <1>3, <2>1
  <2>4. WriterOK(w)' BY <1>1, <2>2, <2>3 DEF WriterOK
  <2> QED BY <1>1, <1>3, <2>2, <2>3, <2>4, RequestStep
<1>4. CASE /\ Unique(c, row, number) /\ Cardinality(versions) < MaxVersions
           /\ versions' = versions \cup
                {[case |-> c, row |-> row, number |-> number, text |-> t]}
           /\ newest' = [newest EXCEPT ![c] = row]
           /\ writer' = [writer EXCEPT ![w].pc = "done", ![w].row = row, ![w].number = number]
  <2>1. /\ Cardinality(RowsOf(c)) \in Nat /\ RowsOf(c) = 1..Cardinality(RowsOf(c))
        /\ Cardinality(RowsOf(c)) <= Cardinality(versions) /\ Cardinality(versions) \in Nat
    BY VersionsFinite DEF StatementsInv, StatementsOK
  <2>2. PICK m \in Nat : m = row /\ m <= MaxVersions /\
          (m \in RowsOf(c) \/ m = Cardinality(RowsOf(c)) + 1)
    <3>1. CASE writer[w].row = 0
      <4>1. row = Cardinality(RowsOf(c)) + 1 BY <3>1 DEF NewRow, RowsOf
      <4>2. Cardinality(RowsOf(c)) + 1 \in Nat /\ Cardinality(RowsOf(c)) + 1 <= MaxVersions
        BY <1>1, <1>4, <2>1
      <4> HIDE DEF row
      <4> QED BY <4>1, <4>2
    <3>2. CASE writer[w].row # 0
      <4>1. row = writer[w].row /\ row \in RowsOf(c) /\ row \in 0..MaxVersions
        BY <1>1, <1>2, <3>2 DEF WriterOK, WriterStates
      <4> HIDE DEF row
      <4> QED BY <1>1, <4>1
    <3> QED BY <3>1, <3>2
  <2>3. PICK n \in Nat : n = number /\ n = Cardinality(Of(c, m)) + 1
    <3>1. CASE writer[w].row = 0
      <4>1. m = Cardinality(RowsOf(c)) + 1 BY <2>2, <3>1 DEF NewRow, RowsOf
      <4>2. m \notin RowsOf(c) BY <2>1, <4>1
      <4>3. Of(c, m) = {} BY <4>2 DEF RowsOf, Of
      <4> QED BY <3>1, <4>3, FS_EmptySet
    <3>2. CASE writer[w].row # 0
      <4>1. m = writer[w].row /\ m \in RowsOf(c) BY <1>1, <1>2, <2>2, <3>2 DEF WriterOK
      <4>2. writer[w].number \in 1..(Cardinality(Of(c, m)) + 1)
        BY <1>1, <1>2, <3>2, <4>1 DEF WriterOK
      <4>3. Cardinality(Of(c, m)) \in Nat BY VersionsFinite
      <4>4. Numbers(c, m) = 1..Cardinality(Of(c, m))
        BY <4>1, LatestIsLast DEF StatementsInv, HistoryHasNoGaps
      <4>5. writer[w].number \notin Numbers(c, m) BY <1>4, <2>2, <3>2, <4>1 DEF Unique
      <4>6. writer[w].number = Cardinality(Of(c, m)) + 1 BY <4>2, <4>3, <4>4, <4>5
      <4> QED BY <3>2, <4>3, <4>6
    <3> QED BY <3>1, <3>2
  <2> HIDE DEF row, number
  <2>10. m \in 0..MaxVersions BY <1>1, <2>2
  <2>4. PICK r \in WriterStates : r = [writer[w] EXCEPT !.pc = "done", !.row = m, !.number = n]
    <3>1. ASSUME NEW a \in 0..MaxVersions, NEW b \in Nat
          PROVE  [writer[w] EXCEPT !.pc = "done", !.row = a, !.number = b] \in WriterStates
      BY <1>1 DEF WriterStates
    <3> QED BY <2>10, <3>1
  <2>5. r.pc = "done" /\ r.row = m /\ r.number = n /\ r.case = c /\ r.text = t
    BY <1>1, <1>2, <2>4 DEF WriterStates
  <2>6. /\ writer' = [writer EXCEPT ![w] = r]
        /\ newest' = [newest EXCEPT ![c] = m]
        /\ versions' = versions \cup {[case |-> c, row |-> m, number |-> n, text |-> t]}
    BY <1>4, <2>2, <2>3, <2>4
  <2>7. Cardinality(versions) < MaxVersions BY <1>4
  <2>8. m \in RowsOf(c) \/ m = Cardinality(RowsOf(c)) + 1 BY <2>2
  <2>9. n = Cardinality(Of(c, m)) + 1 BY <2>3
  <2> HIDE <1>4
  <2> QED BY <1>1, <1>2, <2>5, <2>6, <2>7, <2>8, <2>9, VersionAdded
<1> QED BY <1>2, <1>3, <1>4 DEF WriteVersion

LEMMA WriteSummaryStep ==
  ASSUME StatementsInv, NEW w \in Writers, WriteSummary(w)
  PROVE  StatementsInv' /\ UNCHANGED <<versions, newest>>
<1>1. /\ writer[w] \in WriterStates /\ writer[w].pc = "sum" /\ WriterOK(w)
      /\ summary \in [Cases -> Nat] /\ UNCHANGED <<versions, newest>> /\ MaxSummaries \in Nat
  BY StatementAssumption DEF StatementsInv, StatementsTypeOK, StatementsOK, WriteSummary
<1>2. PICK p \in {"done", "failed"} : writer' = [writer EXCEPT ![w].pc = p]
  BY DEF WriteSummary
<1>3. summary' \in [Cases -> Nat] BY <1>1 DEF WriteSummary, WriterOK
<1>4. PICK r \in WriterStates : r = [writer[w] EXCEPT !.pc = p] BY <1>1 DEF WriterStates
<1>5. r.pc = p /\ r.row = 0 BY <1>1, <1>4 DEF WriterStates, WriterOK
<1>6. writer' = [writer EXCEPT ![w] = r] BY <1>2, <1>4
<1>7. WriterOK(w)'
  <2>1. writer \in [Writers -> WriterStates] BY DEF StatementsInv, StatementsTypeOK
  <2> QED BY <1>5, <1>6, <2>1 DEF WriterOK
<1> QED BY <1>1, <1>3, <1>5, <1>6, <1>7, RequestStep

(* Save, Restore and Summarize from a slot, for a case and a text of it.   *)
LEMMA AskStep ==
  ASSUME StatementsInv, NEW w \in Writers, NEW c \in Cases,
         (\E t \in Texts : Save(w, c, t)) \/ Restore(w, c) \/ Summarize(w, c)
  PROVE  /\ StatementsInv' /\ UNCHANGED <<versions, newest, summary>>
         /\ \A u \in Writers \ {w} : writer'[u] = writer[u]
         /\ \/ writer'[w].pc = "sum" /\ writer'[w].text = Null
            \/ writer'[w].pc = "find" /\ writer'[w].text \in Texts
         /\ writer'[w].case = c
<1>1. /\ versions \subseteq [case : Cases, row : Rows, number : Nat, text : Texts]
      /\ writer \in [Writers -> WriterStates] /\ summary \in [Cases -> Nat]
      /\ UNCHANGED <<versions, newest, summary>> /\ MaxVersions \in Nat
  BY StatementAssumption DEF StatementsInv, StatementsTypeOK, Save, Restore, Summarize
<1>2. ASSUME NEW r \in WriterStates, writer' = [writer EXCEPT ![w] = r], r.case = c, r.row = 0,
             (r.pc = "sum" /\ r.text = Null) \/ (r.pc = "find" /\ r.text \in Texts)
      PROVE  /\ StatementsInv' /\ \A u \in Writers \ {w} : writer'[u] = writer[u]
             /\ writer'[w] = r
  <2>1. writer'[w] = r /\ \A u \in Writers \ {w} : writer'[u] = writer[u] BY <1>1, <1>2
  <2>2. WriterOK(w)' BY <1>2, <2>1 DEF WriterOK
  <2>3. StatementsInv' BY <1>1, <1>2, <2>2, RequestStep
  <2> QED BY <2>1, <2>3
<1>6. NoWriter \in WriterStates
  <2>1. 0 \in 0..MaxVersions /\ 0 \in Nat BY <1>1
  <2> QED BY <2>1 DEF WriterStates, NoWriter
<1>3. ASSUME NEW t \in Texts,
             writer' = [writer EXCEPT ![w] = [NoWriter EXCEPT !.pc = "find", !.case = c, !.text = t]]
      PROVE  /\ StatementsInv' /\ \A u \in Writers \ {w} : writer'[u] = writer[u]
             /\ writer'[w].pc = "find" /\ writer'[w].text = t /\ writer'[w].case = c
  <2>1. PICK r \in WriterStates : r = [NoWriter EXCEPT !.pc = "find", !.case = c, !.text = t]
    BY <1>6 DEF WriterStates
  <2>2. r.pc = "find" /\ r.case = c /\ r.text = t /\ r.row = 0
    BY <1>6, <2>1 DEF WriterStates, NoWriter
  <2> QED BY <1>2, <1>3, <2>1, <2>2
<1>4. ASSUME Summarize(w, c)
      PROVE  /\ StatementsInv' /\ \A u \in Writers \ {w} : writer'[u] = writer[u]
             /\ writer'[w].pc = "sum" /\ writer'[w].text = Null /\ writer'[w].case = c
  <2>1. PICK r \in WriterStates : r = [NoWriter EXCEPT !.pc = "sum", !.case = c]
    BY <1>6 DEF WriterStates
  <2>2. r.pc = "sum" /\ r.case = c /\ r.text = Null /\ r.row = 0
    BY <1>6, <2>1 DEF WriterStates, NoWriter
  <2>3. writer' = [writer EXCEPT ![w] = r] BY <1>4, <2>1 DEF Summarize
  <2>4. /\ StatementsInv' /\ \A u \in Writers \ {w} : writer'[u] = writer[u]
        /\ writer'[w] = r
    <3>1. (r.pc = "sum" /\ r.text = Null) \/ (r.pc = "find" /\ r.text \in Texts) BY <2>2
    <3> QED BY <1>2, <2>2, <2>3, <3>1
  <2> QED BY <2>2, <2>4
<1>5. CASE \E t \in Texts : Save(w, c, t) BY <1>1, <1>3, <1>5 DEF Save
<1>7. CASE Restore(w, c) BY <1>1, <1>3, <1>7 DEF Restore
<1>8. CASE Summarize(w, c) BY <1>1, <1>4, <1>8
<1> QED BY <1>5, <1>7, <1>8

LEMMA WriterStepKeeps ==
  ASSUME StatementsInv, NEW w \in Writers, WriterStep(w)
  PROVE  StatementsInv'
BY FindOrNumberStep, WriteVersionStep, WriteSummaryStep DEF WriterStep

(* Two collaborators who save at once never share a version, and the       *)
(* history of a statement has no gaps: upsertDraft's optimistic numbering  *)
(* under the unique index, for any number of cases, texts and requests.    *)
THEOREM StatementsCorrect == StatementsSpec => []StatementsInv
<1>1. StatementsInv /\ [StatementsNext]_statementVars => StatementsInv'
  <2> SUFFICES ASSUME StatementsInv, [StatementsNext]_statementVars PROVE StatementsInv'
    OBVIOUS
  <2>1. CASE UNCHANGED statementVars
    BY <2>1 DEF statementVars, StatementsInv, StatementsTypeOK, StatementsOK, WriterOK, RowsOf, Of,
       AcknowledgedVersionIsKept, HistoryHasNoGaps, Numbers
  <2>2. ASSUME NEW w \in Writers, NEW c \in Cases, Request(w, c) PROVE StatementsInv'
    BY <2>2, AskStep DEF Request
  <2>3. ASSUME NEW w \in Writers, WriterStep(w) PROVE StatementsInv'
    BY <2>3, WriterStepKeeps
  <2> QED BY <2>1, <2>2, <2>3 DEF StatementsNext
<1> QED BY <1>1, StatementsInvInit, PTL DEF StatementsSpec
-----------------------------------------------------------------------------
(* A version of what a request was made for.                               *)
WritesItsText(me) == \E v : versions' = versions \cup {v} /\ v.case = me.case /\ v.text = me.text

(* What a step of a request does to itself and to the versions.            *)
WriterMoves(w) ==
  LET me == writer[w]
      next == writer'[w]
  IN /\ me.pc \in {"find", "number", "write", "sum"}
     /\ \A u \in Writers \ {w} : writer'[u] = writer[u]
     /\ next.case = me.case /\ next.text = me.text
     /\ me.pc = "sum" => /\ next.pc \in {"done", "failed"}
                         /\ "summary" \notin Faults => next.pc = "done"
     /\ me.pc # "sum" => /\ next.pc \in {"number", "write", "done", "failed"}
                         /\ next.pc = "done" => next.row # 0
     /\ me.pc = "write" \/ versions' = versions
     /\ versions' = versions \/ WritesItsText(me)

LEMMA WriterStepMoves ==
  ASSUME StatementsInv, NEW w \in Writers, WriterStep(w)
  PROVE  WriterMoves(w)
<1>1. writer \in [Writers -> WriterStates] /\ writer[w] \in WriterStates
  BY DEF StatementsInv, StatementsTypeOK
<1>2. CASE FindStatement(w) BY <1>1, <1>2 DEF FindStatement, WriterMoves, WriterStates
<1>3. CASE NumberVersion(w) BY <1>1, <1>3 DEF NumberVersion, WriterMoves, WriterStates
<1>4. CASE WriteSummary(w)
  BY <1>1, <1>4 DEF WriteSummary, WriterMoves, WriterStates, Faulty
<1>5. CASE WriteVersion(w)
  <2>1. writer[w].pc = "write" BY <1>5 DEF WriteVersion
  <2>2. CASE writer' = [writer EXCEPT ![w].pc = "failed"] /\ UNCHANGED versions
    BY <1>1, <2>1, <2>2 DEF WriterMoves, WriterStates
  <2>3. ASSUME NEW row, NEW number, row # 0,
               versions' = versions \cup {[case |-> writer[w].case, row |-> row,
                                           number |-> number, text |-> writer[w].text]},
               writer' = [writer EXCEPT ![w].pc = "done", ![w].row = row, ![w].number = number]
        PROVE  WriterMoves(w)
    <3>1. /\ writer'[w].pc = "done" /\ writer'[w].row # 0
          /\ writer'[w].case = writer[w].case /\ writer'[w].text = writer[w].text
          /\ \A u \in Writers \ {w} : writer'[u] = writer[u]
      BY <1>1, <2>3 DEF WriterStates
    <3>2. WritesItsText(writer[w])
      <4> DEFINE v == [case |-> writer[w].case, row |-> row, number |-> number,
                       text |-> writer[w].text]
      <4>1. versions' = versions \cup {v} BY <2>3
      <4>2. v.case = writer[w].case /\ v.text = writer[w].text OBVIOUS
      <4> HIDE DEF v
      <4> QED BY <4>1, <4>2 DEF WritesItsText
    <3> QED BY <2>1, <3>1, <3>2 DEF WriterMoves
  <2>4. (IF writer[w].row = 0 THEN NewRow(writer[w].case) ELSE writer[w].row) # 0
    <3>1. writer[w].case \in Cases BY <2>1 DEF StatementsInv, StatementsOK, WriterOK
    <3>2. NewRow(writer[w].case) = Cardinality(RowsOf(writer[w].case)) + 1 BY DEF NewRow, RowsOf
    <3>3. Cardinality(RowsOf(writer[w].case)) \in Nat BY <3>1, VersionsFinite
    <3> QED BY <3>2, <3>3
  <2> QED BY <1>5, <2>2, <2>3, <2>4 DEF WriteVersion
<1> QED BY <1>2, <1>3, <1>4, <1>5 DEF WriterStep

(* The reply to GET statement is a version of the case, if it has any.     *)
LEMMA ContentIsVersion ==
  ASSUME StatementsInv, NEW c \in Cases
  PROVE  Content(c) = Null \/ (Content(c) \in Texts /\ IsVersion(c, Content(c)))
<1>1. CASE newest[c] = 0 BY <1>1 DEF Content
<1>2. CASE newest[c] # 0
  <2>1. PICK row \in RowsOf(c) : row = newest[c] BY <1>2 DEF StatementsInv, StatementsOK
  <2>2. PICK n \in Nat : n = Latest(c, row) /\ n = Cardinality(Of(c, row)) /\ n >= 1 /\ row \in Rows
    BY <2>1, LatestIsLast, VersionsFinite
  <2>3. n \in Numbers(c, row) BY <2>2 DEF StatementsInv, HistoryHasNoGaps
  <2>4. \E v \in Of(c, row) : v.number = n BY <2>3 DEF Numbers
  <2>5. PICK v \in Of(c, row) : Content(c) = v.text BY <1>2, <2>1, <2>2, <2>4 DEF Content
  <2> QED BY <2>5 DEF Of, IsVersion, StatementsInv, StatementsTypeOK
<1> QED BY <1>1, <1>2
-----------------------------------------------------------------------------
(* What the builder does keeps the two invariants together.                *)
BuilderAll == StatementsInv /\ BuilderInv

LEMMA BuilderAllInit == BuilderInit => BuilderAll
<1> SUFFICES ASSUME BuilderInit PROVE BuilderAll OBVIOUS
<1>1. StatementsInv BY StatementsInvInit DEF BuilderInit
<1>2. Editor \in Writers /\ versions = {} /\ \A w \in Writers : writer[w] = NoWriter
  BY BuilderAssumption DEF BuilderInit, StatementsInit
<1>3. BuilderTypeOK
  BY <1>1 DEF BuilderInit, BuilderTypeOK, StatementsInv, NewLoad, NoTask, MaybeText
<1>4. TaskOK BY <1>2 DEF TaskOK, BuilderInit, NoTask, NoWriter
<1>5. LoadOK /\ WhatLooksSavedIsSaved
  BY DEF LoadOK, WhatLooksSavedIsSaved, BuilderInit, NewLoad
<1>6. TextsOK
  BY <1>2 DEF TextsOK, SavedUnderItsOwnCase, RequestTextsOK, EditorTextOK, BuilderInit, NoWriter,
     NewLoad, NoTask
<1> QED BY <1>1, <1>3, <1>4, <1>5, <1>6 DEF BuilderAll, BuilderInv

(* A step of the page that asks the server for nothing.                    *)
LEMMA PageStep ==
  ASSUME BuilderAll, UNCHANGED statementVars,
         \/ \E c \in Cases : SelectCase(c)
         \/ \E t \in Texts : Type(t)
         \/ LearnSummary \/ ReadStatement \/ ShowStatement \/ RefreshCase
  PROVE  BuilderAll'
<1> USE DEF BuilderAll, BuilderInv
<1>1. UNCHANGED <<versions, newest, summary, writer>> BY DEF statementVars
<1>2. StatementsInv'
  BY <1>1 DEF StatementsInv, StatementsTypeOK, StatementsOK, WriterOK, RowsOf, Of,
       AcknowledgedVersionIsKept, HistoryHasNoGaps, Numbers
<1>3. /\ shown \in Cases /\ known \in [Cases -> Nat] /\ summary \in [Cases -> Nat]
      /\ editor \in [draft : MaybeText, saved : MaybeText, of : Cases]
      /\ load \in [pc : {"none", "sent", "read"}, text : MaybeText]
  BY DEF BuilderTypeOK, StatementsInv, StatementsTypeOK
<1>4. \A c \in Cases, t \in Texts : IsVersion(c, t)' <=> IsVersion(c, t)
  BY <1>1 DEF IsVersion
<1>5. ASSUME TaskOK', LoadOK', WhatLooksSavedIsSaved', BuilderTypeOK',
             TextsOK => EditorTextOK' /\ (task'.pc = "summary" => task.pc = "summary")
      PROVE  BuilderAll'
  BY <1>1, <1>2, <1>5 DEF TextsOK, SavedUnderItsOwnCase, RequestTextsOK
<1>6. ASSUME NEW c \in Cases, SelectCase(c) PROVE BuilderAll'
  <2> USE <1>6 DEF SelectCase
  <2>1. TaskOK' BY <1>1 DEF TaskOK
  <2>2. LoadOK' BY DEF LoadOK, NewLoad
  <2>3. WhatLooksSavedIsSaved' BY <1>1 DEF WhatLooksSavedIsSaved
  <2>4. BuilderTypeOK' BY <1>2, <1>3 DEF BuilderTypeOK, StatementsInv, NewLoad, MaybeText
  <2>5. EditorTextOK' /\ task' = task BY DEF EditorTextOK, NewLoad
  <2> QED BY <1>5, <2>1, <2>2, <2>3, <2>4, <2>5
<1>7. CASE LearnSummary
  <2> USE <1>7 DEF LearnSummary
  <2>1. TaskOK' BY <1>1 DEF TaskOK
  <2>2. LoadOK' BY DEF LoadOK, NewLoad
  <2>3. WhatLooksSavedIsSaved' BY <1>1 DEF WhatLooksSavedIsSaved
  <2>4. BuilderTypeOK' BY <1>2, <1>3 DEF BuilderTypeOK, StatementsInv, NewLoad, MaybeText
  <2>5. EditorTextOK' /\ task' = task BY DEF EditorTextOK, NewLoad
  <2> QED BY <1>5, <2>1, <2>2, <2>3, <2>4, <2>5
<1>8. CASE ReadStatement
  <2> USE <1>8 DEF ReadStatement
  <2>1. TaskOK' BY <1>1 DEF TaskOK
  <2>2. Content(shown) = Null \/ (Content(shown) \in Texts /\ IsVersion(shown, Content(shown)))
    BY <1>3, ContentIsVersion
  <2>3. LoadOK' BY <1>1, <2>2 DEF LoadOK, IsVersion
  <2>4. WhatLooksSavedIsSaved' BY <1>1 DEF WhatLooksSavedIsSaved
  <2>5. BuilderTypeOK' BY <1>2, <1>3, <2>2 DEF BuilderTypeOK, StatementsInv, MaybeText
  <2>6. EditorTextOK' /\ task' = task BY DEF EditorTextOK
  <2> QED BY <1>5, <2>1, <2>3, <2>4, <2>5, <2>6
<1>9. CASE ShowStatement
  <2> USE <1>9 DEF ShowStatement
  <2>1. TaskOK' BY <1>1 DEF TaskOK
  <2>2. LoadOK' BY DEF LoadOK, NoLoad
  <2>3. PICK t \in MaybeText : editor' = [draft |-> t, saved |-> t, of |-> shown] /\
                               (t = Null \/ IsVersion(shown, t))
    BY <1>3 DEF LoadOK, MaybeText
  <2>4. editor'.saved = t /\ editor'.draft = t /\ editor'.of = shown BY <2>3
  <2>5. WhatLooksSavedIsSaved' BY <1>1, <2>3, <2>4 DEF WhatLooksSavedIsSaved, IsVersion
  <2>6. BuilderTypeOK' BY <1>2, <1>3, <2>3 DEF BuilderTypeOK, StatementsInv, NoLoad, MaybeText
  <2>7. ASSUME TextsOK PROVE EditorTextOK'
    BY <2>3, <2>4, <2>7 DEF EditorTextOK, TextsOK, SavedUnderItsOwnCase, IsVersion
  <2> QED BY <1>5, <2>1, <2>2, <2>5, <2>6, <2>7
<1>10. ASSUME NEW t \in Texts, Type(t) PROVE BuilderAll'
  <2> USE <1>10 DEF Type
  <2>1. TaskOK' BY <1>1 DEF TaskOK
  <2>2. LoadOK' BY <1>1 DEF LoadOK, IsVersion
  <2>3. editor'.draft = t /\ editor'.saved = editor.saved /\ editor'.of = editor.of BY <1>3
  <2>4. WhatLooksSavedIsSaved' BY <1>1, <2>3 DEF WhatLooksSavedIsSaved
  <2>5. BuilderTypeOK' BY <1>2, <1>3 DEF BuilderTypeOK, StatementsInv, MaybeText
  <2>6. ASSUME TextsOK PROVE EditorTextOK'
    BY <2>3, <2>6 DEF EditorTextOK, TextsOK, Busy
  <2> QED BY <1>5, <2>1, <2>2, <2>4, <2>5, <2>6
<1>11. CASE RefreshCase
  <2> USE <1>11 DEF RefreshCase
  <2>1. TaskOK' BY <1>1 DEF TaskOK, NoTask
  <2>2. task.case \in Cases BY DEF TaskOK
  <2>3. (load' = load /\ shown' = shown) \/ load' = NewLoad BY DEF Reloaded
  <2>4. LoadOK' BY <1>1, <2>3 DEF LoadOK, IsVersion, NewLoad
  <2>5. WhatLooksSavedIsSaved' BY <1>1 DEF WhatLooksSavedIsSaved
  <2>6. BuilderTypeOK'
    <3>1. load' \in [pc : {"none", "sent", "read"}, text : MaybeText]
      BY <1>3, <2>3 DEF NewLoad, MaybeText
    <3>2. known' \in [Cases -> Nat] BY <1>3, <2>2
    <3> QED BY <1>2, <1>3, <2>2, <3>1, <3>2 DEF BuilderTypeOK, StatementsInv, NoTask
  <2>7. ASSUME Faults \cap {"summary", "refresh"} = {}, TextsOK PROVE EditorTextOK'
    <3>1. shown' = task.case BY <2>7 DEF Faulty
    <3>2. CASE load' = NewLoad BY <3>2 DEF EditorTextOK, NewLoad
    <3>3. CASE load' = load /\ shown' = shown
      BY <2>7, <3>1, <3>3 DEF EditorTextOK, TextsOK
    <3> QED BY <2>3, <3>2, <3>3
  <2>8. ASSUME Faults \cap {"summary", "refresh"} = {} PROVE TextsOK'
    <3>1. TextsOK BY <2>8
    <3> QED BY <1>1, <2>7, <2>8, <3>1 DEF TextsOK, SavedUnderItsOwnCase, RequestTextsOK, NoTask
  <2> QED BY <1>2, <2>1, <2>4, <2>5, <2>6, <2>8
<1> QED BY <1>6, <1>7, <1>8, <1>9, <1>10, <1>11
(* The request of the browser for a case, and the operation that waits.    *)
Waits(c) ==
  /\ task'.case = c /\ writer'[Editor].case = c
  /\ \/ /\ task'.pc = "summary" /\ writer'[Editor].pc = "sum" /\ writer'[Editor].text = Null
     \/ /\ task'.pc = "statement" /\ writer'[Editor].pc = "find"
        /\ writer'[Editor].text \in Texts
        /\ TextsOK => writer'[Editor].text.case = c

LEMMA OperationBegins ==
  ASSUME BuilderAll, SaveDraft \/ GenerateDraft \/ RestoreVersion \/ GenerateSummary
  PROVE  BuilderAll'
<1> USE DEF BuilderAll, BuilderInv
<1>1. /\ shown \in Cases /\ known \in [Cases -> Nat] /\ Editor \in Writers
      /\ editor \in [draft : MaybeText, saved : MaybeText, of : Cases]
      /\ load \in [pc : {"none", "sent", "read"}, text : MaybeText]
      /\ writer \in [Writers -> WriterStates]
  BY BuilderAssumption DEF BuilderTypeOK, StatementsInv, StatementsTypeOK
<1>2. UNCHANGED <<shown, known, editor, load>> /\ ~Busy
  BY DEF SaveDraft, GenerateDraft, RestoreVersion, GenerateSummary
<1>3. TextsOK => editor.draft = Null \/ editor.draft.case = shown
  BY <1>2 DEF TextsOK, EditorTextOK, Busy
<1>4. (\E t \in Texts : Save(Editor, shown, t)) \/ Restore(Editor, shown) \/ Summarize(Editor, shown)
  BY <1>1 DEF SaveDraft, GenerateDraft, RestoreVersion, GenerateSummary, MaybeText
<1>5. /\ StatementsInv' /\ UNCHANGED <<versions, newest, summary>>
      /\ \A u \in Writers \ {Editor} : writer'[u] = writer[u]
  BY <1>1, <1>4, AskStep
<1>6. ASSUME NEW t \in Texts, Save(Editor, shown, t)
      PROVE  /\ writer'[Editor].pc = "find" /\ writer'[Editor].text = t
             /\ writer'[Editor].case = shown
  BY <1>1, <1>6 DEF Save, NoWriter
<1>7. ASSUME Restore(Editor, shown)
      PROVE  /\ writer'[Editor].pc = "find" /\ writer'[Editor].case = shown
             /\ writer'[Editor].text \in Texts
             /\ SavedUnderItsOwnCase => writer'[Editor].text.case = shown
  <2>1. PICK v \in versions : /\ v.case = shown
                             /\ writer'[Editor] = [NoWriter EXCEPT !.pc = "find", !.case = shown,
                                                                   !.text = v.text]
    BY <1>1, <1>7 DEF Restore
  <2>2. v.text \in Texts BY DEF StatementsInv, StatementsTypeOK
  <2> QED BY <2>1, <2>2 DEF NoWriter, SavedUnderItsOwnCase
<1>8. ASSUME Summarize(Editor, shown)
      PROVE  /\ writer'[Editor].pc = "sum" /\ writer'[Editor].text = Null
             /\ writer'[Editor].case = shown
  BY <1>1, <1>8 DEF Summarize, NoWriter
<1>9. Waits(shown) /\ task' \in [pc : {"none", "statement", "summary", "refresh"},
                     kind : {"none", "draft", "summary"}, case : Cases \cup {Null}]
  <2>1. CASE SaveDraft BY <1>1, <1>3, <1>6, <2>1 DEF SaveDraft, Waits, MaybeText
  <2>2. CASE GenerateDraft BY <1>1, <1>6, <2>2 DEF GenerateDraft, Waits
  <2>3. CASE RestoreVersion BY <1>1, <1>7, <2>3 DEF RestoreVersion, Waits, TextsOK
  <2>4. CASE GenerateSummary BY <1>1, <1>3, <1>6, <1>8, <2>4 DEF GenerateSummary, Waits, MaybeText
  <2> QED BY <2>1, <2>2, <2>3, <2>4
<1>10. BuilderTypeOK' BY <1>1, <1>2, <1>5, <1>9 DEF BuilderTypeOK, StatementsInv, MaybeText
<1>11. TaskOK' BY <1>1, <1>9 DEF Waits, TaskOK
<1>12. LoadOK' /\ WhatLooksSavedIsSaved'
  BY <1>2, <1>5 DEF LoadOK, WhatLooksSavedIsSaved, IsVersion
<1>13. ASSUME TextsOK PROVE TextsOK'
  <2>1. SavedUnderItsOwnCase' BY <1>5, <1>13 DEF TextsOK, SavedUnderItsOwnCase
  <2>2. RequestTextsOK'
    BY <1>1, <1>5, <1>9, <1>13 DEF TextsOK, RequestTextsOK, Waits
  <2>3. EditorTextOK' BY <1>2, <1>3, <1>13 DEF EditorTextOK
  <2>4. task'.pc = "summary" => writer'[Editor].pc # "failed" BY <1>9 DEF Waits
  <2> QED BY <2>1, <2>2, <2>3, <2>4 DEF TextsOK
<1> QED BY <1>5, <1>10, <1>11, <1>12, <1>13

(* The reply to an operation is applied, or its failure is noticed.        *)
LEMMA OperationGoesOn ==
  ASSUME BuilderAll, TaskFails \/ ApplyStatement \/ ApplySummary
  PROVE  BuilderAll'
<1> USE DEF BuilderAll, BuilderInv
<1> DEFINE me == writer[Editor]
<1>1. /\ shown \in Cases /\ known \in [Cases -> Nat] /\ Editor \in Writers
      /\ editor \in [draft : MaybeText, saved : MaybeText, of : Cases]
      /\ load \in [pc : {"none", "sent", "read"}, text : MaybeText]
      /\ task \in [pc : {"none", "statement", "summary", "refresh"},
                   kind : {"none", "draft", "summary"}, case : Cases \cup {Null}]
      /\ writer \in [Writers -> WriterStates] /\ summary \in [Cases -> Nat]
  BY BuilderAssumption DEF BuilderTypeOK, StatementsInv, StatementsTypeOK
<1>2. UNCHANGED <<shown, known, load>> BY DEF TaskFails, ApplyStatement, ApplySummary
<1>3. ASSUME HangUp
      PROVE  /\ StatementsInv' /\ UNCHANGED <<versions, newest, summary>>
             /\ \A u \in Writers \ {Editor} : writer'[u] = writer[u]
             /\ writer'[Editor].pc = "idle"
  <2>1. PICK r \in WriterStates : r = NoWriter
    <3>1. 0 \in 0..MaxVersions BY StatementAssumption
    <3> QED BY <3>1 DEF WriterStates, NoWriter
  <2>2. r.pc = "idle" BY <2>1 DEF NoWriter
  <2>3. writer' = [writer EXCEPT ![Editor] = r] /\ UNCHANGED <<versions, newest, summary>>
    BY <1>3, <2>1 DEF HangUp
  <2>4. WriterOK(Editor)' BY <1>1, <2>2, <2>3 DEF WriterOK
  <2>5. summary' \in [Cases -> Nat] BY <1>1, <2>3
  <2>6. StatementsInv' BY <1>1, <2>2, <2>3, <2>4, <2>5, RequestStep
  <2> QED BY <1>1, <2>2, <2>3, <2>6
<1>4. CASE TaskFails
  <2>1. HangUp /\ task' = NoTask /\ editor' = editor BY <1>4 DEF TaskFails
  <2>2. /\ StatementsInv' /\ UNCHANGED <<versions, newest, summary>>
        /\ \A u \in Writers \ {Editor} : writer'[u] = writer[u]
        /\ writer'[Editor].pc = "idle"
    BY <1>3, <2>1
  <2>3. BuilderTypeOK' BY <1>1, <1>2, <2>1, <2>2 DEF BuilderTypeOK, StatementsInv, MaybeText, NoTask
  <2>4. TaskOK' BY <2>1, <2>2 DEF TaskOK, NoTask
  <2>5. LoadOK' /\ WhatLooksSavedIsSaved'
    BY <1>2, <2>1, <2>2 DEF LoadOK, WhatLooksSavedIsSaved, IsVersion
  <2>6. ASSUME Faults \cap {"summary", "refresh"} = {}, TextsOK PROVE TextsOK'
    <3>1. task.pc \notin {"summary", "refresh"}
      <4>1. CASE task.pc = "statement" BY <4>1
      <4>2. CASE task.pc # "statement"
        BY <1>4, <2>6, <4>2 DEF TaskFails, TextsOK, TaskOK, Faulty
      <4> QED BY <4>1, <4>2
    <3>2. EditorTextOK' BY <1>2, <2>1, <2>6, <3>1 DEF TextsOK, EditorTextOK
    <3>3. SavedUnderItsOwnCase' /\ RequestTextsOK'
      BY <2>2, <2>6 DEF TextsOK, SavedUnderItsOwnCase, RequestTextsOK
    <3> QED BY <2>1, <3>2, <3>3 DEF TextsOK, NoTask
  <2> QED BY <2>2, <2>3, <2>4, <2>5, <2>6
<1>5. CASE ApplySummary
  <2>1. /\ HangUp /\ editor' = editor /\ task.pc = "summary" /\ task.case \in Cases
        /\ task'.pc = "refresh" /\ task'.case = task.case /\ task'.kind = task.kind
        /\ task' = [task EXCEPT !.pc = "refresh"]
    BY <1>1, <1>5 DEF ApplySummary, TaskOK
  <2>2. /\ StatementsInv' /\ UNCHANGED <<versions, newest, summary>>
        /\ \A u \in Writers \ {Editor} : writer'[u] = writer[u]
        /\ writer'[Editor].pc = "idle"
    BY <1>3, <2>1
  <2>3. BuilderTypeOK' BY <1>1, <1>2, <2>1, <2>2 DEF BuilderTypeOK, StatementsInv, MaybeText
  <2>4. TaskOK' BY <2>1, <2>2 DEF TaskOK
  <2>5. LoadOK' /\ WhatLooksSavedIsSaved'
    BY <1>2, <2>1, <2>2 DEF LoadOK, WhatLooksSavedIsSaved, IsVersion
  <2>6. ASSUME TextsOK PROVE TextsOK'
    <3>1. EditorTextOK' BY <1>2, <2>1, <2>6 DEF TextsOK, EditorTextOK
    <3>2. SavedUnderItsOwnCase' /\ RequestTextsOK'
      BY <2>2, <2>6 DEF TextsOK, SavedUnderItsOwnCase, RequestTextsOK
    <3> QED BY <2>1, <3>1, <3>2 DEF TextsOK
  <2> QED BY <2>2, <2>3, <2>4, <2>5, <2>6
<1>6. CASE ApplyStatement
  <2>1. PICK c \in Cases, t \in Texts : c = task.case /\ c = me.case /\ t = me.text
    BY <1>6 DEF ApplyStatement, TaskOK
  <2>2. me.pc = "done" /\ me.row # 0 /\ task.pc = "statement" BY <1>6 DEF ApplyStatement, TaskOK
  <2>3. editor'.draft = t /\ editor'.saved = t /\ editor'.of = c
          /\ editor' \in [draft : MaybeText, saved : MaybeText, of : Cases]
    BY <1>6, <2>1 DEF ApplyStatement, MaybeText
  <2>4. IsVersion(c, t)
    <3> DEFINE y == [case |-> me.case, row |-> me.row, number |-> me.number, text |-> me.text]
    <3>1. {v \in Of(me.case, me.row) : v.number = me.number} = {y}
      BY <1>1, <2>2 DEF StatementsInv, AcknowledgedVersionIsKept
    <3>2. y.case = c /\ y.text = t BY <2>1
    <3> HIDE DEF y
    <3>3. y \in versions BY <3>1 DEF Of
    <3> QED BY <3>2, <3>3 DEF IsVersion
  <2>5. /\ StatementsInv' /\ UNCHANGED <<versions, newest, summary>>
        /\ \A u \in Writers \ {Editor} : writer'[u] = writer[u]
        /\ task'.case = c
        /\ \/ task'.pc = "refresh" /\ writer'[Editor].pc = "idle"
           \/ /\ task'.pc = "summary" /\ writer'[Editor].case = c
              /\ writer'[Editor].pc = "sum"
        /\ task' \in [pc : {"none", "statement", "summary", "refresh"},
                     kind : {"none", "draft", "summary"}, case : Cases \cup {Null}]
    <3>1. CASE task.kind = "summary"
      <4>1. Summarize(Editor, c) /\ task' = [task EXCEPT !.pc = "summary"]
        BY <1>6, <2>1, <3>1 DEF ApplyStatement
      <4>2. /\ StatementsInv' /\ UNCHANGED <<versions, newest, summary>>
            /\ \A u \in Writers \ {Editor} : writer'[u] = writer[u]
        BY <1>1, <4>1, AskStep
      <4>3. writer'[Editor].case = c /\ writer'[Editor].pc = "sum"
        BY <1>1, <4>1 DEF Summarize, NoWriter
      <4> QED BY <1>1, <2>1, <4>1, <4>2, <4>3
    <3>2. CASE task.kind # "summary"
      <4>1. HangUp /\ task' = [task EXCEPT !.pc = "refresh"] BY <1>6, <3>2 DEF ApplyStatement
      <4>2. /\ StatementsInv' /\ UNCHANGED <<versions, newest, summary>>
            /\ \A u \in Writers \ {Editor} : writer'[u] = writer[u]
            /\ writer'[Editor].pc = "idle"
        BY <1>3, <4>1
      <4> QED BY <1>1, <2>1, <4>1, <4>2
    <3> QED BY <3>1, <3>2
  <2>6. BuilderTypeOK' BY <1>1, <1>2, <2>3, <2>5 DEF BuilderTypeOK, StatementsInv, MaybeText
  <2>7. TaskOK' BY <2>5 DEF TaskOK
  <2>8. LoadOK' BY <1>2, <2>5 DEF LoadOK, IsVersion
  <2>9. WhatLooksSavedIsSaved' BY <2>3, <2>4, <2>5 DEF WhatLooksSavedIsSaved, IsVersion
  <2>10. ASSUME TextsOK PROVE TextsOK'
    <3>1. t.case = c
      BY <1>1, <2>1, <2>2, <2>10, BuilderAssumption DEF TextsOK, RequestTextsOK
    <3>2. EditorTextOK' BY <1>2, <2>3, <2>5, <3>1 DEF EditorTextOK
    <3>3. SavedUnderItsOwnCase' BY <2>5, <2>10 DEF TextsOK, SavedUnderItsOwnCase
    <3>4. RequestTextsOK' BY <2>5, <2>10 DEF TextsOK, RequestTextsOK
    <3>5. task'.pc = "summary" => writer'[Editor].pc # "failed" BY <2>5
    <3> QED BY <3>2, <3>3, <3>4, <3>5 DEF TextsOK
  <2> QED BY <2>5, <2>6, <2>7, <2>8, <2>9, <2>10
<1> QED BY <1>4, <1>5, <1>6
(* A request takes a step while the browser looks on.                      *)
LEMMA ServerStep ==
  ASSUME BuilderAll, UNCHANGED browserVars,
         \/ \E w \in Writers \ {Editor} : Collaborator(w)
         \/ \E w \in Writers : WriterStep(w)
  PROVE  BuilderAll'
<1> USE DEF BuilderAll, BuilderInv
<1>1. /\ Editor \in Writers /\ writer \in [Writers -> WriterStates]
      /\ UNCHANGED <<shown, known, editor, load, task>>
      /\ versions \subseteq [case : Cases, row : Rows, number : Nat, text : Texts]
  BY BuilderAssumption DEF StatementsInv, StatementsTypeOK, browserVars
<1>2. ASSUME StatementsInv', versions \subseteq versions', TaskOK',
             Faults \cap {"summary", "refresh"} = {} => TextsOK'
      PROVE  BuilderAll'
  <2>1. BuilderTypeOK' BY <1>1, <1>2 DEF BuilderTypeOK, StatementsInv
  <2>2. LoadOK' /\ WhatLooksSavedIsSaved'
    BY <1>1, <1>2 DEF LoadOK, WhatLooksSavedIsSaved, IsVersion
  <2> QED BY <1>2, <2>1, <2>2
<1>3. ASSUME NEW w \in Writers \ {Editor}, Collaborator(w) PROVE BuilderAll'
  <2>1. PICK c \in Cases :
          \/ \E t \in Texts : t.case = c /\ Save(w, c, t)
          \/ Restore(w, c)
          \/ Summarize(w, c)
    BY <1>3 DEF Collaborator
  <2>2. (\E t \in Texts : Save(w, c, t)) \/ Restore(w, c) \/ Summarize(w, c) BY <2>1
  <2>3. /\ StatementsInv' /\ UNCHANGED <<versions, newest, summary>>
        /\ \A u \in Writers \ {w} : writer'[u] = writer[u]
        /\ writer'[w].case = c
    BY <2>2, AskStep
  <2>4. writer'[Editor] = writer[Editor] BY <1>1, <2>3
  <2>5. TaskOK' BY <1>1, <2>4 DEF TaskOK
  <2>6. ASSUME TextsOK PROVE TextsOK'
    <3>1. SavedUnderItsOwnCase BY <2>6 DEF TextsOK
    <3>2. writer'[w].text # Null => writer'[w].text.case = c
      <4>1. ASSUME NEW t \in Texts, t.case = c, Save(w, c, t) PROVE writer'[w].text.case = c
        BY <1>1, <4>1 DEF Save, NoWriter
      <4>2. ASSUME Restore(w, c) PROVE writer'[w].text.case = c
        BY <1>1, <3>1, <4>2 DEF Restore, NoWriter, SavedUnderItsOwnCase
      <4>3. ASSUME Summarize(w, c) PROVE writer'[w].text = Null
        BY <1>1, <4>3 DEF Summarize, NoWriter
      <4> QED BY <2>1, <4>1, <4>2, <4>3
    <3>3. RequestTextsOK' BY <2>3, <2>6, <3>2 DEF TextsOK, RequestTextsOK
    <3>4. EditorTextOK' BY <1>1, <2>6 DEF TextsOK, EditorTextOK
    <3> QED BY <1>1, <2>3, <2>4, <2>6, <3>3, <3>4 DEF TextsOK, SavedUnderItsOwnCase
  <2> QED BY <1>2, <2>3, <2>5, <2>6
<1>4. ASSUME NEW w \in Writers, WriterStep(w) PROVE BuilderAll'
  <2>1. StatementsInv' /\ WriterMoves(w) BY <1>4, WriterStepKeeps, WriterStepMoves
  <2>2. /\ writer[w].pc \in {"find", "number", "write", "sum"}
        /\ \A u \in Writers \ {w} : writer'[u] = writer[u]
        /\ writer'[w].case = writer[w].case /\ writer'[w].text = writer[w].text
        /\ writer[w].pc = "sum" => /\ writer'[w].pc \in {"done", "failed"}
                                   /\ "summary" \notin Faults => writer'[w].pc = "done"
        /\ writer[w].pc # "sum" => /\ writer'[w].pc \in {"number", "write", "done", "failed"}
                                   /\ writer'[w].pc = "done" => writer'[w].row # 0
    BY <2>1 DEF WriterMoves
  <2>3. versions \subseteq versions' BY <2>1 DEF WriterMoves, WritesItsText
  <2>4. WriterOK(w) BY DEF StatementsInv, StatementsOK
  <2>5. TaskOK'
    <3>1. CASE w # Editor
      <4>1. writer'[Editor] = writer[Editor] BY <1>1, <2>2, <3>1
      <4> QED BY <1>1, <4>1 DEF TaskOK
    <3>2. CASE w = Editor
      <4>1. CASE task.pc = "statement"
        <5>1. task.case \in Cases /\ writer[w].case = task.case /\ writer[w].pc # "sum"
          BY <3>2, <4>1 DEF TaskOK
        <5>2. writer[w].text \in Texts BY <2>2, <2>4, <5>1 DEF WriterOK
        <5> QED BY <1>1, <2>2, <3>2, <4>1, <5>1, <5>2 DEF TaskOK
      <4>2. CASE task.pc = "summary" BY <1>1, <2>2, <3>2, <4>2 DEF TaskOK
      <4>3. CASE task.pc \notin {"statement", "summary"} BY <2>2, <3>2, <4>3 DEF TaskOK
      <4> QED BY <4>1, <4>2, <4>3
    <3> QED BY <3>1, <3>2
  <2>6. ASSUME TextsOK, "summary" \notin Faults PROVE TextsOK'
    <3>1. RequestTextsOK'
      <4>1. writer[w].pc = "sum" => writer[w].text = Null BY <2>4 DEF WriterOK
      <4> QED BY <2>2, <2>6, <4>1 DEF TextsOK, RequestTextsOK
    <3>2. SavedUnderItsOwnCase'
      <4>1. CASE versions' = versions BY <2>6, <4>1 DEF TextsOK, SavedUnderItsOwnCase
      <4>2. CASE versions' # versions
        <5>1. PICK v : versions' = versions \cup {v} /\ v.case = writer[w].case /\ v.text = writer[w].text
          BY <2>1, <4>2 DEF WriterMoves, WritesItsText
        <5>2. writer[w].pc = "write" /\ writer[w].text \in Texts
          BY <2>1, <2>4, <4>2 DEF WriterMoves, WriterOK
        <5>3. writer[w].text.case = writer[w].case
          BY <2>6, <5>2, BuilderAssumption DEF TextsOK, RequestTextsOK
        <5> QED BY <2>6, <5>1, <5>3 DEF TextsOK, SavedUnderItsOwnCase
      <4> QED BY <4>1, <4>2
    <3>3. EditorTextOK' BY <1>1, <2>6 DEF TextsOK, EditorTextOK
    <3>4. task'.pc = "summary" => writer'[Editor].pc # "failed"
      <4>1. CASE w = Editor BY <1>1, <2>2, <2>6, <4>1 DEF TaskOK
      <4>2. CASE w # Editor BY <1>1, <2>2, <2>6, <4>2 DEF TextsOK
      <4> QED BY <4>1, <4>2
    <3> QED BY <3>1, <3>2, <3>3, <3>4 DEF TextsOK
  <2> QED BY <1>2, <2>1, <2>3, <2>5, <2>6
<1> QED BY <1>3, <1>4

(* However the replies of the server come, and whatever collaborators      *)
(* write meanwhile: what the builder calls saved is on the server, and     *)
(* unless a refresh fails a text is stored only under its own case         *)
(* (useStatementBuilder), for any number of cases, texts and requests.     *)
THEOREM BuilderCorrect == BuilderSpec => [](StatementsInv /\ BuilderInv)
<1>1. BuilderAll /\ [BuilderNext]_builderVars => BuilderAll'
  <2> SUFFICES ASSUME BuilderAll, [BuilderNext]_builderVars PROVE BuilderAll'
    OBVIOUS
  <2>1. CASE UNCHANGED builderVars
    <3>1. UNCHANGED <<versions, newest, summary, writer, shown, known, editor, load, task>>
      BY <2>1 DEF builderVars, statementVars
    <3>2. StatementsInv'
      BY <3>1 DEF BuilderAll, BuilderInv, StatementsInv, StatementsTypeOK, StatementsOK, WriterOK, RowsOf, Of,
           AcknowledgedVersionIsKept, HistoryHasNoGaps, Numbers
    <3>3. BuilderTypeOK' /\ TaskOK' /\ LoadOK' /\ WhatLooksSavedIsSaved'
      BY <3>1, <3>2 DEF BuilderAll, BuilderInv, BuilderTypeOK, StatementsInv, TaskOK, LoadOK, IsVersion,
           WhatLooksSavedIsSaved
    <3>4. TextsOK' <=> TextsOK
      BY <3>1 DEF TextsOK, SavedUnderItsOwnCase, RequestTextsOK, EditorTextOK
    <3> QED BY <3>2, <3>3, <3>4 DEF BuilderAll, BuilderInv
  <2>2. CASE Browser
    <3>1. CASE SaveDraft \/ GenerateDraft \/ RestoreVersion \/ GenerateSummary
      BY <3>1, OperationBegins
    <3>2. CASE TaskFails \/ ApplyStatement \/ ApplySummary BY <3>2, OperationGoesOn
    <3>3. CASE \/ \E c \in Cases : SelectCase(c)
               \/ \E t \in Texts : Type(t)
               \/ LearnSummary \/ ReadStatement \/ ShowStatement \/ RefreshCase
      <4>1. UNCHANGED statementVars
        BY <3>3 DEF SelectCase, Type, LearnSummary, ReadStatement, ShowStatement, RefreshCase
      <4> QED BY <3>3, <4>1, PageStep
    <3> QED BY <2>2, <3>1, <3>2, <3>3 DEF Browser
  <2>3. CASE \E w \in Writers \ {Editor} : Collaborator(w) /\ UNCHANGED browserVars
    BY <2>3, ServerStep
  <2>4. CASE \E w \in Writers : WriterStep(w) /\ UNCHANGED browserVars BY <2>4, ServerStep
  <2> QED BY <2>1, <2>2, <2>3, <2>4 DEF BuilderNext
<1> QED BY <1>1, BuilderAllInit, PTL DEF BuilderSpec, BuilderAll

-----------------------------------------------------------------------------
(* Readiness.                                                               *)

(* The lesser of two, and the least of a few.                              *)
LEMMA MinOfTwo ==
  ASSUME NEW a \in Int, NEW b \in Int
  PROVE  Min({a, b}) = IF a <= b THEN a ELSE b
<1> DEFINE m == IF a <= b THEN a ELSE b
<1>1. m \in {a, b} /\ \A y \in {a, b} : m <= y OBVIOUS
<1>2. \A x \in {a, b} : (\A y \in {a, b} : x <= y) => x = m OBVIOUS
<1> HIDE DEF m
<1> QED BY <1>1, <1>2 DEF Min

HasLeast(S) == S \subseteq Int /\ \E m \in S : \A n \in S : m <= n

LEMMA LeastWithOneMore ==
  ASSUME NEW S, HasLeast(S), NEW x \in Int, NEW T \in {{}, {x}}
  PROVE  HasLeast(S \cup T)
<1>1. PICK m \in S : m \in Int /\ \A n \in S : n \in Int /\ m <= n BY DEF HasLeast
<1>2. CASE T = {} BY <1>2
<1>3. CASE T = {x}
  <2>1. CASE x <= m
    <3>1. \A n \in S \cup {x} : x <= n BY <1>1, <2>1
    <3> QED BY <1>3, <3>1 DEF HasLeast
  <2>2. CASE ~(x <= m)
    <3>1. \A n \in S \cup {x} : m <= n BY <1>1, <2>2
    <3> QED BY <1>1, <1>3, <3>1 DEF HasLeast
  <2> QED BY <2>1, <2>2
<1> QED BY <1>2, <1>3

LEMMA MinIsLeast ==
  ASSUME NEW S, HasLeast(S)
  PROVE  Min(S) \in S /\ Min(S) \in Int /\ \A n \in S : Min(S) <= n
BY DEF HasLeast, Min

LEMMA ThreeFinite ==
  ASSUME NEW a, NEW b, NEW c
  PROVE  IsFiniteSet({a, b, c})
<1>1. IsFiniteSet({a}) BY FS_Singleton
<1>2. IsFiniteSet({a} \cup {b}) BY <1>1, FS_AddElement
<1>3. IsFiniteSet(({a} \cup {b}) \cup {c}) BY <1>2, FS_AddElement
<1>4. {a, b, c} = ({a} \cup {b}) \cup {c} OBVIOUS
<1> QED BY <1>3, <1>4

LEMMA TopicsFinite == IsFiniteSet(Topics)
<1> DEFINE six == {"restriction", "support", "explanation", "activity", "ownership", "date"}
<1>1. IsFiniteSet({"restriction", "support", "explanation"}) BY ThreeFinite
<1>2. IsFiniteSet({"activity", "ownership", "date"}) BY ThreeFinite
<1>3. six = {"restriction", "support", "explanation"} \cup {"activity", "ownership", "date"} OBVIOUS
<1>4. IsFiniteSet(six) BY <1>1, <1>2, <1>3, FS_Union
<1> HIDE DEF six
<1>5. Topics \subseteq six BY ReadinessAssumption DEF six
<1> QED BY <1>4, <1>5, FS_Subset

(* A claim has at most three kinds of sources.                             *)
LEMMA KindsFew ==
  ASSUME NEW t
  PROVE  /\ IsFiniteSet(SourceKinds(t)) /\ Cardinality(SourceKinds(t)) \in 0..3
         /\ Cardinality(SourceKinds(t)) = 0 <=> SourceKinds(t) = {}
<1> DEFINE three == {"EVIDENCE"} \cup {"TIMELINE"} \cup {"STATEMENT"}
<1>1. IsFiniteSet(three) BY FS_Singleton, FS_Union
<1>2. Cardinality(three) <= 3
  <2>1. IsFiniteSet({"EVIDENCE"}) /\ Cardinality({"EVIDENCE"}) = 1 BY FS_Singleton
  <2>2. /\ IsFiniteSet({"EVIDENCE"} \cup {"TIMELINE"})
        /\ Cardinality({"EVIDENCE"} \cup {"TIMELINE"}) <= 2
    BY <2>1, FS_AddElement
  <2>3. Cardinality(three) \in {Cardinality({"EVIDENCE"} \cup {"TIMELINE"}),
                               Cardinality({"EVIDENCE"} \cup {"TIMELINE"}) + 1}
    BY <2>2, FS_AddElement
  <2>4. Cardinality({"EVIDENCE"} \cup {"TIMELINE"}) \in Nat BY <2>2, FS_CardinalityType
  <2> QED BY <2>2, <2>3, <2>4
<1>3. SourceKinds(t) \subseteq three BY DEF SourceKinds
<1> HIDE DEF three
<1>4. /\ IsFiniteSet(SourceKinds(t)) /\ Cardinality(SourceKinds(t)) <= Cardinality(three)
  BY <1>1, <1>3, FS_Subset
<1>5. Cardinality(SourceKinds(t)) \in Nat /\ Cardinality(three) \in Nat
  BY <1>1, <1>4, FS_CardinalityType
<1> QED BY <1>2, <1>4, <1>5, FS_EmptySet

(* What calculateClaimStrength makes of a claim: the confirmed ones with a *)
(* source begin where all others have ended.                               *)
LEMMA StrengthBounds ==
  ASSUME NEW t
  PROVE  /\ Strength(t) \in Int
         /\ ClaimStatus(t) = "SUPPORTED" => Strength(t) >= 79
         /\ ClaimStatus(t) # "SUPPORTED" => Strength(t) <= 62
<1>1. PICK k \in 0..3 : k = Cardinality(SourceKinds(t)) /\ (k = 0 <=> SourceKinds(t) = {})
  BY KindsFew
<1>2. /\ Min({96, 70 + 9 * k}) = IF 96 <= 70 + 9 * k THEN 96 ELSE 70 + 9 * k
      /\ Min({62, 38 + 8 * k}) = IF 62 <= 38 + 8 * k THEN 62 ELSE 38 + 8 * k
      /\ Min({58, 26 + 10 * k}) = IF 58 <= 26 + 10 * k THEN 58 ELSE 26 + 10 * k
  <2>1. \A b \in Int : \A a \in Int : Min({a, b}) = IF a <= b THEN a ELSE b BY MinOfTwo
  <2>2. 70 + 9 * k \in Int /\ 38 + 8 * k \in Int /\ 26 + 10 * k \in Int OBVIOUS
  <2> QED BY <2>1, <2>2
<1>3. CASE ClaimStatus(t) = "SUPPORTED"
  <2>1. k >= 1 BY <1>1, <1>3 DEF ClaimStatus
  <2>2. Strength(t) = Min({96, 70 + 9 * k}) BY <1>1, <1>3 DEF Strength
  <2> QED BY <1>2, <1>3, <2>1, <2>2
<1>4. CASE ClaimStatus(t) = "NEEDS_REVIEW"
  <2>1. Strength(t) = Min({62, 38 + 8 * k}) BY <1>1, <1>4 DEF Strength
  <2> QED BY <1>2, <1>4, <2>1
<1>5. CASE ClaimStatus(t) = "WEAK"
  <2>1. Strength(t) = Min({58, 26 + 10 * k}) BY <1>1, <1>5 DEF Strength
  <2> QED BY <1>2, <1>5, <2>1
<1>6. CASE ClaimStatus(t) = "MISSING"
  <2>1. Strength(t) = 10 BY <1>6 DEF Strength
  <2> QED BY <1>6, <2>1
<1> QED BY <1>3, <1>4, <1>5, <1>6 DEF ClaimStatus

LEMMA ClaimsLead == SupportedClaimsLead
<1>1. ASSUME NEW t \in Topics, NEW u \in Topics, ClaimStatus(t) = "SUPPORTED",
             ClaimStatus(u) # "SUPPORTED"
      PROVE  Strength(u) < Strength(t)
  <2>1. Strength(t) \in Int /\ Strength(t) >= 79 BY <1>1, StrengthBounds
  <2>2. Strength(u) \in Int /\ Strength(u) <= 62 BY <1>1, StrengthBounds
  <2> QED BY <2>1, <2>2
<1>2. ASSUME NEW t \in Topics, Cardinality(SourceKinds(t)) < 2 PROVE Gaps(t) # {}
  <2>1. PICK k \in 0..3 : k = Cardinality(SourceKinds(t)) /\ (k = 0 <=> SourceKinds(t) = {})
    BY KindsFew
  <2>2. ~(ClaimStatus(t) = "SUPPORTED" /\ Cardinality(SourceKinds(t)) >= 2) BY <1>2, <2>1
  <2>3. CASE k = 0
    <3>1. "attach" \in Gaps(t) BY <2>1, <2>2, <2>3 DEF Gaps
    <3> QED BY <3>1
  <2>4. CASE k = 1
    <3>1. "verify" \in Gaps(t) \/ "connect" \in Gaps(t) BY <2>1, <2>2, <2>4 DEF Gaps
    <3> QED BY <3>1
  <2> QED BY <1>2, <2>1, <2>3, <2>4
<1> QED BY <1>1, <1>2 DEF SupportedClaimsLead
-----------------------------------------------------------------------------
(* The parts of the score are integers, and those of the requirements are  *)
(* all given when all that is required is covered.                         *)
LEMMA RequirementsCount ==
  ASSUME ReadinessTypeOK
  PROVE  /\ IsFiniteSet(Required) /\ Covered \subseteq Required
         /\ Cardinality(Required) \in Nat /\ Cardinality(Covered) \in Nat
         /\ Cardinality(Covered) <= Cardinality(Required)
         /\ Required # {} => Cardinality(Required) >= 1
         /\ Required \subseteq Covered => Required = Covered
<1>1. Covered \subseteq Required /\ Required \subseteq Topics BY DEF Covered, Required
<1>2. IsFiniteSet(Required) /\ IsFiniteSet(Covered) BY <1>1, TopicsFinite, FS_Subset
<1>3. Cardinality(Covered) <= Cardinality(Required) BY <1>1, <1>2, FS_Subset
<1>4. Cardinality(Required) \in Nat /\ Cardinality(Covered) \in Nat
  BY <1>2, FS_CardinalityType
<1>5. Required # {} => Cardinality(Required) # 0 BY <1>2, FS_EmptySet
<1> QED BY <1>1, <1>2, <1>3, <1>4, <1>5

LEMMA RoundType ==
  ASSUME NEW n \in Nat, NEW d \in Nat, d >= 1
  PROVE  Round(n, d) \in Int
<1>1. 2 * n + d \in Int /\ 2 * d \in Int /\ 2 * d > 0 OBVIOUS
<1>2. \A a, b \in Int : b > 0 => a \div b \in Int OBVIOUS
<1> QED BY <1>1, <1>2 DEF Round

LEMMA RoundAll ==
  ASSUME NEW d \in Nat, d >= 1
  PROVE  Round(30 * d, d) = 30
<1>1. 2 * (30 * d) + d = 30 * (2 * d) + d /\ 0 <= d /\ d < 2 * d OBVIOUS
<1>2. ASSUME NEW a \in Int, NEW b \in Int, NEW r \in Int, b > 0, 0 <= r, r < b, a = 30 * b + r
      PROVE  a \div b = 30
  BY <1>2
<1>3. 2 * d \in Int /\ 2 * d > 0 /\ d \in Int /\ 2 * (30 * d) + d \in Int OBVIOUS
<1>4. (2 * (30 * d) + d) \div (2 * d) = 30 BY <1>1, <1>2, <1>3
<1> QED BY <1>4 DEF Round

LEMMA PointsAreIntegers ==
  ASSUME ReadinessTypeOK
  PROVE  /\ RequirementPoints \in Int /\ EvidencePoints \in Int /\ TimelinePoints \in Int
         /\ RawScore \in Int
         /\ TimelinePoints >= 0 /\ (EventCount # 0 => TimelinePoints >= 8)
<1>1. RequirementPoints \in Int
  <2>1. CASE Required = {} BY <2>1 DEF RequirementPoints
  <2>2. CASE Required # {}
    <3>1. /\ Cardinality(Required) \in Nat /\ Cardinality(Covered) \in Nat
          /\ Cardinality(Required) >= 1
      BY <2>2, RequirementsCount
    <3>2. 30 * Cardinality(Covered) \in Nat BY <3>1
    <3> QED BY <2>2, <3>1, <3>2, RoundType DEF RequirementPoints
  <2> QED BY <2>1, <2>2
<1>2. EvidencePoints \in Int BY DEF EvidencePoints
<1>3. TimelinePoints \in Int /\ TimelinePoints >= 0 /\ (EventCount # 0 => TimelinePoints >= 8)
  BY DEF TimelinePoints
<1> QED BY <1>1, <1>2, <1>3 DEF RawScore

LEMMA ScoreIsLeast ==
  ASSUME ReadinessTypeOK
  PROVE  /\ Score \in Int /\ Score \in Caps \cup {RawScore}
         /\ \A cap \in Caps \cup {RawScore} : Score <= cap
<1> DEFINE A == IF With("PROCESSED") = {} THEN {39} ELSE {}
           B == IF With("FAILED") # {} THEN {69} ELSE {}
           C == IF Required \subseteq Covered THEN {} ELSE {79}
           D == IF HasStatement THEN {} ELSE {74}
<1>1. A \in {{}, {39}} /\ B \in {{}, {69}} /\ C \in {{}, {79}} /\ D \in {{}, {74}} OBVIOUS
<1>2. Caps \cup {RawScore} = ((({100} \cup A) \cup B) \cup C) \cup D \cup {RawScore} BY DEF Caps
<1> HIDE DEF A, B, C, D
<1>3. HasLeast({100}) BY DEF HasLeast
<1>4. HasLeast({100} \cup A) BY <1>1, <1>3, LeastWithOneMore
<1>5. HasLeast(({100} \cup A) \cup B) BY <1>1, <1>4, LeastWithOneMore
<1>6. HasLeast((({100} \cup A) \cup B) \cup C) BY <1>1, <1>5, LeastWithOneMore
<1>7. HasLeast(((({100} \cup A) \cup B) \cup C) \cup D) BY <1>1, <1>6, LeastWithOneMore
<1>8. HasLeast(Caps \cup {RawScore})
  BY <1>2, <1>7, PointsAreIntegers, LeastWithOneMore
<1> QED BY <1>8, MinIsLeast DEF Score

LEMMA ReadyIsReviewed == ReadinessTypeOK => ReadyMeansReviewed
<1> SUFFICES ASSUME ReadinessTypeOK PROVE ReadyMeansReviewed OBVIOUS
<1>1. ASSUME PacketIsReady
      PROVE  Warnings \subseteq {"timeline", "submission"} /\ With("PROCESSED") # {}
  <2>1. \A cap \in Caps : cap \in Int => cap >= 80
    BY <1>1, ScoreIsLeast DEF PacketIsReady
  <2>2. 39 \notin Caps /\ 69 \notin Caps /\ 79 \notin Caps /\ 74 \notin Caps BY <2>1
  <2>3. With("PROCESSED") # {} /\ With("FAILED") = {} /\ Required \subseteq Covered /\ HasStatement
    BY <2>2 DEF Caps
  <2>4. ~ \A f \in Files : file[f] = "NONE" BY <2>3 DEF With
  <2> QED BY <2>3, <2>4 DEF Warnings
<1>2. ASSUME Warnings \subseteq {"submission"}, With("PROCESSED") # {}, Required # {}
      PROVE  PacketIsReady
  <2>1. "failed" \notin Warnings /\ "checklist" \notin Warnings /\ "timeline" \notin Warnings
          /\ "statement" \notin Warnings
    BY <1>2
  <2>2. With("FAILED") = {} /\ Required \subseteq Covered /\ EventCount # 0 /\ HasStatement
    BY <2>1 DEF Warnings
  <2>3. Caps = {100} BY <1>2, <2>2 DEF Caps
  <2>4. RequirementPoints = 30
    <3>1. Required = Covered /\ Cardinality(Required) \in Nat /\ Cardinality(Required) >= 1
      BY <1>2, <2>2, RequirementsCount
    <3>2. Round(30 * Cardinality(Required), Cardinality(Required)) = 30 BY <3>1, RoundAll
    <3> QED BY <1>2, <3>1, <3>2 DEF RequirementPoints
  <2>5. EvidencePoints = 20 BY <1>2 DEF EvidencePoints
  <2>6. TimelinePoints \in Int /\ TimelinePoints >= 8 BY <2>2, PointsAreIntegers
  <2>7. RawScore >= 88 BY <2>2, <2>4, <2>5, <2>6 DEF RawScore
  <2>8. RawScore \in Int /\ Score \in {100, RawScore} BY <2>3, ScoreIsLeast, PointsAreIntegers
  <2> QED BY <2>7, <2>8 DEF PacketIsReady
<1> QED BY <1>1, <1>2 DEF ReadyMeansReviewed

(* For any files, events and claims: a packet that is offered as ready     *)
(* leaves no warning but of a timeline never started or a submission never *)
(* tracked, who heeds the others gets there, and confirmed claims lead the *)
(* proof map (getCaseNextActions, calculateClaimStrength).                 *)
THEOREM ReadinessCorrect == ReadinessSpec => []ReadinessInv
<1>1. ReadinessInit => ReadinessTypeOK
  BY ReadinessAssumption DEF ReadinessInit, ReadinessTypeOK, FileStatuses, Marks
<1>2. ReadinessTypeOK /\ [ReadinessNext]_readinessVars => ReadinessTypeOK'
  <2> SUFFICES ASSUME ReadinessTypeOK, [ReadinessNext]_readinessVars PROVE ReadinessTypeOK'
    OBVIOUS
  <2> USE DEF ReadinessTypeOK, FileStatuses, Marks
  <2>1. ASSUME NEW f \in Files, FileChanges(f) PROVE ReadinessTypeOK' BY <2>1 DEF FileChanges
  <2>2. ASSUME NEW t \in Topics, ItemChanges(t) PROVE ReadinessTypeOK' BY <2>2 DEF ItemChanges
  <2>3. ASSUME NEW t \in Topics, MatchChanges(t) PROVE ReadinessTypeOK' BY <2>3 DEF MatchChanges
  <2>4. ASSUME NEW t \in Topics \cup {"statement"}, StatementChanges(t) PROVE ReadinessTypeOK'
    BY <2>4 DEF StatementChanges
  <2>5. ASSUME NEW m \in Moments, EventChanges(m) PROVE ReadinessTypeOK' BY <2>5 DEF EventChanges
  <2>6. CASE SubmissionChanges BY <2>6 DEF SubmissionChanges
  <2>7. CASE UNCHANGED readinessVars BY <2>7 DEF readinessVars
  <2> QED BY <2>1, <2>2, <2>3, <2>4, <2>5, <2>6, <2>7 DEF ReadinessNext
<1>3. ReadinessTypeOK => ReadinessInv BY ReadyIsReviewed, ClaimsLead DEF ReadinessInv
<1> QED BY <1>1, <1>2, <1>3, PTL DEF ReadinessSpec

-----------------------------------------------------------------------------
(* The copy a demo workspace starts from.                                   *)

TemplateOK == template \in Templates /\ Consistent(template)

(* What a relation between rows of a case that is copied becomes.          *)
CopiedMatch(p) == <<New(p[1]), IF p[2] = Nothing THEN Nothing ELSE New(p[2])>>
CopiedSource(p) == <<New(p[1]), New(p[2])>>
LiveMatches == {p \in template.match : Living(p[1])}
LiveSources == {p \in template.source : Living(p[1])}
LiveRows == {r \in DemoItems \cup DemoEvents \cup Documents : Living(r)}

LEMMA SameMapped ==
  ASSUME NEW S, IsFiniteSet(S), NEW f, NEW T, f \in Bijection(S, T)
  PROVE  Cardinality(T) = Cardinality(S)
BY FS_Bijection DEF ExistsBijection

LEMMA MatchesAreMapped ==
  ASSUME TemplateOK, NEW c \in template.live
  PROVE  MatchesOf(c) = {CopiedMatch(p) : p \in {q \in template.match : template.case[q[1]] = c}}
<1> DEFINE itemIds == DemoIds(In(c, DemoItems))
           S == {q \in template.match : template.case[q[1]] = c}
<1>1. DOMAIN itemIds = {r \in DemoItems : template.case[r] = c} BY DEF DemoIds, In
<1>2. ASSUME NEW p \in S
      PROVE  /\ p[2] # Nothing => p[2] \in DOMAIN itemIds
             /\ <<New(p[1]), Mapped(itemIds, p[2])>> = CopiedMatch(p)
  <2>1. p \in Documents \X (DemoItems \cup {Nothing}) BY DEF TemplateOK, Templates
  <2>2. p[2] # Nothing => template.case[p[1]] = template.case[p[2]] BY DEF TemplateOK, Consistent
  <2>3. p[2] # Nothing => p[2] \in DOMAIN itemIds BY <1>1, <2>1, <2>2
  <2>4. p[2] = Nothing => p[2] \notin DOMAIN itemIds BY <1>1, CloneAssumption
  <2>5. p[2] \in DOMAIN itemIds => itemIds[p[2]] = New(p[2]) BY <1>1 DEF DemoIds, In
  <2> QED BY <2>3, <2>4, <2>5 DEF Mapped, CopiedMatch
<1>3. MatchesOf(c) = {<<New(p[1]), Mapped(itemIds, p[2])>> : p \in S}
  BY <1>2 DEF MatchesOf
<1> HIDE DEF itemIds, S
<1>4. {<<New(p[1]), Mapped(itemIds, p[2])>> : p \in S} = {CopiedMatch(p) : p \in S} BY <1>2
<1> QED BY <1>3, <1>4 DEF S

LEMMA SourcesAreMapped ==
  ASSUME TemplateOK, NEW c \in template.live
  PROVE  SourcesOf(c) = {CopiedSource(p) : p \in {q \in template.source : template.case[q[1]] = c}}
<1> DEFINE eventIds == DemoIds(In(c, DemoEvents))
           S == {q \in template.source : template.case[q[1]] = c}
<1>1. DOMAIN eventIds = {r \in DemoEvents : template.case[r] = c} BY DEF DemoIds, In
<1>2. ASSUME NEW p \in S
      PROVE  p[2] \in DOMAIN eventIds /\ <<New(p[1]), eventIds[p[2]]>> = CopiedSource(p)
  <2>1. p \in Documents \X DemoEvents BY DEF TemplateOK, Templates
  <2>2. template.case[p[1]] = template.case[p[2]] BY DEF TemplateOK, Consistent
  <2>3. p[2] \in DOMAIN eventIds BY <1>1, <2>1, <2>2
  <2>4. eventIds[p[2]] = New(p[2]) BY <1>1, <2>3 DEF DemoIds, In
  <2> QED BY <2>3, <2>4 DEF CopiedSource
<1>3. SourcesOf(c) = {<<New(p[1]), eventIds[p[2]]>> : p \in S} BY <1>2 DEF SourcesOf
<1> HIDE DEF eventIds, S
<1>4. {<<New(p[1]), eventIds[p[2]]>> : p \in S} = {CopiedSource(p) : p \in S} BY <1>2
<1> QED BY <1>3, <1>4 DEF S

(* What the copy relates is what the template relates in living cases.     *)
LEMMA CopyIs ==
  ASSUME TemplateOK, CloneUserData
  PROVE  /\ copy'.live = {New(c) : c \in template.live}
         /\ DOMAIN copy'.case = {New(r) : r \in LiveRows}
         /\ \A r \in LiveRows : copy'.case[New(r)] = New(template.case[r])
         /\ copy'.match = {CopiedMatch(p) : p \in LiveMatches}
         /\ copy'.source = {CopiedSource(p) : p \in LiveSources}
<1> DEFINE rows == UNION {{New(x) : x \in In(c, DemoItems \cup DemoEvents \cup Documents)}
                           : c \in template.live}
<1>1. /\ copy'.live = {CaseIds[c] : c \in template.live}
      /\ copy'.case = [r \in rows |-> CaseIds[template.case[r[2]]]]
      /\ copy'.match = UNION {MatchesOf(c) : c \in template.live}
      /\ copy'.source = UNION {SourcesOf(c) : c \in template.live}
  BY DEF CloneUserData
<1>2. rows = {New(r) : r \in LiveRows} BY DEF In, LiveRows, Living
<1>3. copy'.live = {New(c) : c \in template.live} BY <1>1 DEF CaseIds
<1>4. ASSUME NEW r \in LiveRows PROVE copy'.case[New(r)] = New(template.case[r])
  <2>1. New(r) \in rows /\ New(r)[2] = r BY <1>2 DEF New
  <2>2. template.case[r] \in template.live BY DEF LiveRows, Living
  <2> HIDE DEF rows
  <2> QED BY <1>1, <2>1, <2>2 DEF CaseIds
<1>5. UNION {MatchesOf(c) : c \in template.live} = {CopiedMatch(p) : p \in LiveMatches}
  BY MatchesAreMapped DEF LiveMatches, Living
<1>6. UNION {SourcesOf(c) : c \in template.live} = {CopiedSource(p) : p \in LiveSources}
  BY SourcesAreMapped DEF LiveSources, Living
<1> QED BY <1>1, <1>2, <1>3, <1>4, <1>5, <1>6

LEMMA StandsAlone ==
  ASSUME TemplateOK, CloneUserData
  PROVE  CopyStandsAlone'
<1> DEFINE rows == DOMAIN copy'.case
<1>1. ASSUME NEW r \in rows PROVE copy'.case[r] \in copy'.live
  BY CopyIs DEF LiveRows, Living
<1>2. ASSUME NEW p \in copy'.match PROVE p[1] \in rows /\ p[2] \in rows \cup {Nothing}
  <2>1. PICK q \in LiveMatches : p = CopiedMatch(q) BY CopyIs
  <2>2. q \in Documents \X (DemoItems \cup {Nothing}) /\ Living(q[1])
          /\ (q[2] # Nothing => template.case[q[1]] = template.case[q[2]])
    BY DEF LiveMatches, TemplateOK, Templates, Consistent
  <2>3. q[1] \in LiveRows /\ (q[2] # Nothing => q[2] \in LiveRows)
    BY <2>2 DEF LiveRows, Living
  <2>4. p[1] = New(q[1]) /\ p[2] = IF q[2] = Nothing THEN Nothing ELSE New(q[2])
    BY <2>1 DEF CopiedMatch
  <2> QED BY <2>3, <2>4, CopyIs
<1>3. ASSUME NEW p \in copy'.source PROVE p[1] \in rows /\ p[2] \in rows
  <2>1. PICK q \in LiveSources : p = CopiedSource(q) BY CopyIs
  <2>2. q \in Documents \X DemoEvents /\ Living(q[1]) /\ template.case[q[1]] = template.case[q[2]]
    BY DEF LiveSources, TemplateOK, Templates, Consistent
  <2>3. q[1] \in LiveRows /\ q[2] \in LiveRows BY <2>2 DEF LiveRows, Living
  <2>4. p[1] = New(q[1]) /\ p[2] = New(q[2]) BY <2>1 DEF CopiedSource
  <2> QED BY <2>3, <2>4, CopyIs
<1>4. copy'.remark = [r \in {New(x) : x \in CopiedRemarks} |-> Mapped(CaseIds, template.remark[r[2]])]
  BY DEF CloneUserData
<1>5. ASSUME NEW r \in DOMAIN copy'.remark
      PROVE  /\ copy'.remark[r] \in copy'.live \cup {Nothing}
             /\ r[2] \in Threads => copy'.remark[r] # Nothing
  <2>1. PICK x \in CopiedRemarks : r = New(x) BY <1>4
  <2>2. x \in Remarks /\ template.remark[x] \in template.live \cup {Nothing} /\ r[2] = x
    BY <2>1 DEF CopiedRemarks, CaseIds, New
  <2>3. copy'.remark[r] = Mapped(CaseIds, template.remark[x]) BY <1>4, <2>2
  <2>4. CASE template.remark[x] \in template.live
    <3>1. copy'.remark[r] = New(template.remark[x]) BY <2>3, <2>4 DEF Mapped, CaseIds
    <3>2. template.remark[x] \in DemoCases BY <2>4 DEF TemplateOK, Templates
    <3> QED BY <2>4, <3>1, <3>2, CopyIs, CloneAssumption
  <2>5. CASE template.remark[x] \notin template.live
    <3>1. template.remark[x] = Nothing BY <2>2, <2>5
    <3>2. copy'.remark[r] = Nothing BY <2>3, <2>5, <3>1 DEF Mapped, CaseIds
    <3>3. x \notin Threads BY <3>1 DEF TemplateOK, Consistent
    <3> QED BY <2>2, <3>2, <3>3
  <2> QED BY <2>4, <2>5
<1> QED BY <1>1, <1>2, <1>3, <1>5 DEF CopyStandsAlone

LEMMA Complete ==
  ASSUME TemplateOK, CloneUserData
  PROVE  CopyIsComplete'
<1>1. /\ LiveMatches \subseteq Documents \X (DemoItems \cup {Nothing})
      /\ LiveSources \subseteq Documents \X DemoEvents
  BY DEF LiveMatches, LiveSources, TemplateOK, Templates
<1>2. IsFiniteSet(LiveMatches) /\ IsFiniteSet(LiveSources)
  <2>1. IsFiniteSet(DemoItems \cup {Nothing}) BY CloneAssumption, FS_AddElement
  <2>2. IsFiniteSet(Documents \X (DemoItems \cup {Nothing})) /\ IsFiniteSet(Documents \X DemoEvents)
    BY <2>1, CloneAssumption, FS_Product
  <2> QED BY <1>1, <2>2, FS_Subset
<1>3. Cardinality({CopiedMatch(p) : p \in LiveMatches}) = Cardinality(LiveMatches)
  <2> DEFINE f == [p \in LiveMatches |-> CopiedMatch(p)]
             T == {CopiedMatch(p) : p \in LiveMatches}
  <2>1. ASSUME NEW p \in LiveMatches, NEW q \in LiveMatches, CopiedMatch(p) = CopiedMatch(q)
        PROVE  p = q
    <3>1. /\ p = <<p[1], p[2]>> /\ q = <<q[1], q[2]>>
          /\ p[2] \in DemoItems \cup {Nothing} /\ q[2] \in DemoItems \cup {Nothing}
      BY <1>1
    <3>2. New(p[1]) = New(q[1])
            /\ (IF p[2] = Nothing THEN Nothing ELSE New(p[2])) = IF q[2] = Nothing THEN Nothing ELSE New(q[2])
      BY <2>1 DEF CopiedMatch
    <3>3. \A a, b : New(a) = New(b) => a = b BY DEF New
    <3>4. p[1] = q[1] BY <3>2, <3>3
    <3>5. p[2] = q[2] BY <3>1, <3>2, <3>3, CloneAssumption
    <3> QED BY <3>1, <3>4, <3>5
  <2>2. f \in Bijection(LiveMatches, T)
    BY <2>1 DEF Bijection, Injection, Surjection, IsInjective
  <2> HIDE DEF f, T
  <2>3. Cardinality(T) = Cardinality(LiveMatches) BY <1>2, <2>2, SameMapped
  <2> QED BY <2>3 DEF T
<1>4. Cardinality({CopiedSource(p) : p \in LiveSources}) = Cardinality(LiveSources)
  <2> DEFINE f == [p \in LiveSources |-> CopiedSource(p)]
             T == {CopiedSource(p) : p \in LiveSources}
  <2>1. ASSUME NEW p \in LiveSources, NEW q \in LiveSources, CopiedSource(p) = CopiedSource(q)
        PROVE  p = q
    BY <1>1, <2>1 DEF CopiedSource, New
  <2>2. f \in Bijection(LiveSources, T)
    BY <2>1 DEF Bijection, Injection, Surjection, IsInjective
  <2> HIDE DEF f, T
  <2>3. Cardinality(T) = Cardinality(LiveSources) BY <1>2, <2>2, SameMapped
  <2> QED BY <2>3 DEF T
<1>5. LiveMatches' = LiveMatches /\ LiveSources' = LiveSources
  BY DEF CloneUserData, LiveMatches, LiveSources, Living
<1> QED BY <1>3, <1>4, <1>5, CopyIs DEF CopyIsComplete, LiveMatches, LiveSources

LEMMA CopyStarts == CloneInit => TemplateOK /\ CopyIsFaithful
BY DEF CloneInit, TemplateOK, CopyIsFaithful, CopyStandsAlone, CopyIsComplete

LEMMA CopyStep ==
  ASSUME TemplateOK, CopyIsFaithful, [CloneUserData]_cloneVars
  PROVE  (TemplateOK /\ CopyIsFaithful)'
<1>1. CASE CloneUserData
  <2>1. TemplateOK' BY <1>1 DEF TemplateOK, CloneUserData, Consistent
  <2> QED BY <1>1, <2>1, StandsAlone, Complete DEF CopyIsFaithful
<1>2. CASE UNCHANGED cloneVars
  BY <1>2 DEF cloneVars, TemplateOK, Consistent, CopyIsFaithful, CopyStandsAlone, CopyIsComplete,
     Living
<1> QED BY <1>1, <1>2

(* Whatever the template user's cases hold: the copy relates to each other *)
(* what they relate, and refers to no row of theirs (cloneUserData).       *)
THEOREM CloneCorrect == CloneSpec => []CopyIsFaithful
<1>1. CloneInit => TemplateOK /\ CopyIsFaithful BY CopyStarts
<1>2. TemplateOK /\ CopyIsFaithful /\ [CloneUserData]_cloneVars => (TemplateOK /\ CopyIsFaithful)'
  BY CopyStep
<1> QED BY <1>1, <1>2, PTL DEF CloneSpec

-----------------------------------------------------------------------------
(* The board of tasks.                                                      *)

(* normalizeTaskState makes a task that agrees with itself.                *)
LEMMA NormalizedAgrees ==
  ASSUME NEW seen \in States, NEW input \in Inputs
  PROVE  Normalized(seen, input) \in States /\ Agrees(Normalized(seen, input))
<1> DEFINE status == Given(input.status, seen.status)
           percent == Given(input.progress, IF input.status # NoChore THEN Default[status]
                                             ELSE seen.progress)
<1>1. /\ input.status \in Steps \cup {NoChore} /\ input.progress \in Progress \cup {NoChore}
      /\ seen.status \in Steps /\ seen.progress \in Progress
  BY DEF States, Inputs
<1>2. status \in Steps BY <1>1 DEF Given
<1>3. Default["TODO"] = 0 /\ Default["COMPLETED"] = 100 BY DEF Default
<1>4. Default[status] \in Progress BY <1>2, <1>3 DEF Steps, Progress
<1>5. percent \in Progress BY <1>1, <1>4 DEF Given
<1>6. Normalized(seen, input) =
        IF status = "COMPLETED" \/ percent = 100
        THEN [status |-> "COMPLETED", progress |-> 100, done |-> TRUE]
        ELSE [status |-> status, progress |-> percent, done |-> FALSE]
  BY DEF Normalized
<1> HIDE DEF status, percent
<1>7. CASE status = "COMPLETED" \/ percent = 100
  BY <1>6, <1>7 DEF States, Steps, Progress, Agrees
<1>8. CASE ~(status = "COMPLETED" \/ percent = 100)
  BY <1>2, <1>5, <1>6, <1>8 DEF States, Agrees
<1> QED BY <1>7, <1>8

(* What a request stores.                                                  *)
LEMMA WrittenAgrees ==
  ASSUME TaskInv, NEW k \in Sends, send[k].pc = "found"
  PROVE  Written(k) \in States \cup {NoChore} /\ Agrees(Written(k))
<1>1. send[k] \in SendStates /\ SendOK(k) BY DEF TaskInv, TaskTypeOK
<1>2. send[k].input \in Inputs BY <1>1 DEF SendStates
<1>3. CASE send[k].kind = "create"
  <2>1. send[k].input.status \in Steps BY <1>1, <1>2, <1>3 DEF SendOK, Inputs
  <2>2. Default["TODO"] = 0 /\ Default["COMPLETED"] = 100 BY DEF Default
  <2>3. Default[send[k].input.status] \in Progress BY <2>1, <2>2 DEF Steps, Progress
  <2>4. ASSUME NEW st \in Steps, NEW pr \in Progress
        PROVE  [NewTask EXCEPT !.status = st, !.progress = pr] \in States
    BY DEF NewTask, States
  <2>5. PICK r \in States : r = [NewTask EXCEPT !.status = send[k].input.status,
                                              !.progress = Default[send[k].input.status]]
    BY <2>1, <2>3, <2>4
  <2>6. Written(k) = Normalized(r, send[k].input) BY <1>3, <2>5 DEF Written
  <2> QED BY <1>2, <2>6, NormalizedAgrees
<1>4. CASE send[k].kind = "delete" BY <1>4 DEF Written, Agrees
<1>5. CASE send[k].kind \notin {"create", "delete"}
  <2>1. send[k].seen \in States BY <1>1, <1>5 DEF SendOK, SendStates
  <2>2. Written(k) = Normalized(send[k].seen, send[k].input) BY <1>5 DEF Written
  <2> QED BY <1>2, <2>1, <2>2, NormalizedAgrees
<1> QED BY <1>3, <1>4, <1>5

-----------------------------------------------------------------------------
CurrentOK(c) ==
  /\ AloneOK(c)
  /\ boardLoad.pc = "over" /\ UnderWay(c) = {} => board[c] = kept[c]

RowsAgree ==
  \A c \in Chores : Agrees(kept[c]) /\ Agrees(board[c]) /\ Agrees(boardLoad.rows[c])

LEMMA InParts ==
  TaskInv <=> /\ TaskTypeOK /\ RowsAgree
              /\ \A k \in Sends : SendOK(k)
              /\ \A c \in Chores \ crossed : CurrentOK(c)
BY DEF TaskInv, TaskStateAgrees, BoardIsCurrent, RowsAgree, CurrentOK

Live == {"sent", "found", "written"}

(* A request for another task changes nothing for this one.                *)
LEMMA OthersCurrent ==
  ASSUME TaskTypeOK, NEW c \in Chores, CurrentOK(c),
         NEW k \in Sends, NEW r, send' = [send EXCEPT ![k] = r],
         ~(send[k].chore = c /\ send[k].pc \in Live), ~(r.chore = c /\ r.pc \in Live),
         kept'[c] = kept[c], board'[c] = board[c], boardLoad' = boardLoad
  PROVE  CurrentOK(c)'
<1>1. send \in [Sends -> SendStates] BY DEF TaskTypeOK
<1>2. send'[k] = r /\ \A l \in Sends \ {k} : send'[l] = send[l] BY <1>1
<1>3. UnderWay(c)' = UnderWay(c) BY <1>2 DEF UnderWay, Live
<1>4. \A l \in UnderWay(c) : send'[l] = send[l] BY <1>2 DEF UnderWay, Live
<1> QED BY <1>3, <1>4 DEF CurrentOK, AloneOK

(* The next state of one request.                                          *)
LEMMA OneRequest ==
  ASSUME TaskInv, NEW k \in Sends, NEW r \in SendStates, send' = [send EXCEPT ![k] = r],
         SendOK(k)', TaskTypeOK', RowsAgree', crossed \subseteq crossed',
         boardLoad' = boardLoad, r.chore \in Chores,
         send[k].pc \in Live => send[k].chore = r.chore,
         \A c \in Chores \ {r.chore} : kept'[c] = kept[c] /\ board'[c] = board[c],
         r.chore \notin crossed' => CurrentOK(r.chore)'
  PROVE  TaskInv'
<1>1. send \in [Sends -> SendStates] BY DEF TaskInv, TaskTypeOK
<1>2. send'[k] = r /\ \A l \in Sends \ {k} : send'[l] = send[l] BY <1>1
<1>3. ASSUME NEW l \in Sends PROVE SendOK(l)'
  <2>1. CASE l = k BY <2>1
  <2>2. CASE l # k
    <3>1. SendOK(l) /\ send'[l] = send[l] BY <1>2, <2>2 DEF TaskInv
    <3> QED BY <3>1 DEF SendOK
  <2> QED BY <2>1, <2>2
<1>4. ASSUME NEW c \in Chores \ crossed' PROVE CurrentOK(c)'
  <2>1. CASE c = r.chore BY <2>1
  <2>2. CASE c # r.chore
    <3>1. CurrentOK(c) /\ TaskTypeOK BY InParts
    <3>2. ~(send[k].chore = c /\ send[k].pc \in Live) /\ ~(r.chore = c /\ r.pc \in Live)
      BY <2>2
    <3>3. kept'[c] = kept[c] /\ board'[c] = board[c] BY <2>2
    <3> QED BY <3>1, <3>2, <3>3, OthersCurrent
  <2> QED BY <2>1, <2>2
<1>5. TaskTypeOK' /\ RowsAgree' OBVIOUS
<1> QED
  BY <1>3, <1>4, <1>5 DEF TaskInv, TaskStateAgrees, BoardIsCurrent, RowsAgree, CurrentOK
-----------------------------------------------------------------------------
LEMMA SentStep ==
  ASSUME TaskInv, NEW k \in Sends, NEW mine \in BOOLEAN,
         NEW kind \in {"create", "save", "toggle", "delete"}, NEW c \in Chores, NEW input \in Inputs,
         kind = "create" => input.status # NoChore /\ input.progress # NoChore,
         Sent(k, mine, kind, c, input), UNCHANGED <<kept, board, boardLoad>>,
         open' \in Chores \cup {"new", NoChore}, busyWith' \in Chores \cup {"new", NoChore}
  PROVE  TaskInv'
<1> DEFINE r == [Unsent EXCEPT !.pc = "sent", !.mine = mine, !.kind = kind, !.chore = c,
                               !.input = input]
<1>1. send[k].pc = "none" /\ send' = [send EXCEPT ![k] = r] /\ crossed' = Meets(c, mine)
  BY DEF Sent
<1>15. Unsent \in SendStates BY DEF SendStates, Unsent, Inputs
<1>2. r \in SendStates BY <1>15 DEF SendStates
<1>3. /\ r.pc = "sent" /\ r.mine = mine /\ r.kind = kind /\ r.chore = c /\ r.input = input
      /\ r.seen = NoChore
  BY <1>15 DEF SendStates, Unsent
<1> HIDE DEF r
<1>4. send \in [Sends -> SendStates] /\ TaskTypeOK BY DEF TaskInv, TaskTypeOK
<1>5. send'[k] = r /\ \A l \in Sends \ {k} : send'[l] = send[l] BY <1>1, <1>4
<1>6. SendOK(k)' BY <1>3, <1>5 DEF SendOK, Agrees
<1>7. crossed' \subseteq Chores /\ crossed \subseteq crossed' BY <1>1, <1>4 DEF Meets, TaskTypeOK
<1>8. TaskTypeOK' BY <1>1, <1>2, <1>4, <1>7 DEF TaskTypeOK
<1>9. RowsAgree' BY DEF TaskInv, TaskStateAgrees, RowsAgree
<1>10. ASSUME c \notin crossed' PROVE CurrentOK(c)'
  <2>1. c \notin crossed /\ mine /\ boardLoad.pc = "over" /\ UnderWay(c) = {}
    BY <1>1, <1>10 DEF Meets
  <2>2. board[c] = kept[c] BY <2>1 DEF TaskInv, BoardIsCurrent
  <2>3. UnderWay(c)' = {k} BY <1>3, <1>5, <2>1 DEF UnderWay
  <2>4. UnderWay(c)' # {} BY <2>3
  <2>5. send'[k].mine /\ send'[k].pc = "sent" BY <1>3, <1>5, <2>1
  <2> QED BY <2>1, <2>2, <2>3, <2>4, <2>5 DEF CurrentOK, AloneOK
<1>11. boardLoad' = boardLoad /\ \A d \in Chores \ {r.chore} : kept'[d] = kept[d] /\ board'[d] = board[d]
  OBVIOUS
<1>12. send[k].pc \in Live => send[k].chore = r.chore BY <1>1 DEF Live
<1>13. r.chore \notin crossed' => CurrentOK(r.chore)' BY <1>3, <1>10
<1>14. r.chore \in Chores BY <1>3
<1> QED BY <1>1, <1>2, <1>6, <1>7, <1>8, <1>9, <1>11, <1>12, <1>13, <1>14, OneRequest

(* A request ends, or its reply is lost.                                   *)
LEMMA RequestFails ==
  ASSUME TaskInv, NEW k \in Sends, send[k].pc \in Live,
         send' = [send EXCEPT ![k].pc = "over"], crossed' = crossed \cup {send[k].chore},
         UNCHANGED <<kept, board, boardLoad, open>>, busyWith' \in {NoChore, busyWith}
  PROVE  TaskInv'
<1>1. send \in [Sends -> SendStates] /\ send[k] \in SendStates /\ SendOK(k)
  BY DEF TaskInv, TaskTypeOK
<1>2. PICK r \in SendStates : r = [send[k] EXCEPT !.pc = "over"] BY <1>1 DEF SendStates
<1>3. r.pc = "over" /\ r.chore = send[k].chore /\ r.kind = send[k].kind /\ r.input = send[k].input
        /\ r.seen = send[k].seen /\ r.mine = send[k].mine
  BY <1>1, <1>2 DEF SendStates
<1>4. send' = [send EXCEPT ![k] = r] /\ send'[k] = r BY <1>1, <1>2
<1>5. r.chore \in Chores BY <1>1, <1>3 DEF SendOK, Live
<1>6. SendOK(k)' BY <1>1, <1>3, <1>4, <1>5 DEF SendOK, Live
<1>7. crossed' \subseteq Chores /\ crossed \subseteq crossed' BY <1>3, <1>5 DEF TaskInv, TaskTypeOK
<1>8. TaskTypeOK' BY <1>1, <1>4, <1>7 DEF TaskTypeOK, TaskInv
<1>9. RowsAgree' BY DEF TaskInv, TaskStateAgrees, RowsAgree
<1>10. boardLoad' = boardLoad /\ \A d \in Chores \ {r.chore} : kept'[d] = kept[d] /\ board'[d] = board[d]
  OBVIOUS
<1>11. send[k].pc \in Live => send[k].chore = r.chore BY <1>3
<1>12. r.chore \notin crossed' => CurrentOK(r.chore)' BY <1>3
<1> QED BY <1>4, <1>5, <1>6, <1>7, <1>8, <1>9, <1>10, <1>11, <1>12, OneRequest

LEMMA FindTaskStep ==
  ASSUME TaskInv, NEW k \in Sends, FindTask(k)
  PROVE  TaskInv'
<1>1. send \in [Sends -> SendStates] /\ send[k] \in SendStates /\ SendOK(k)
      /\ send[k].pc = "sent" /\ UNCHANGED <<kept, board, boardLoad, open>>
      /\ kept \in [Chores -> States \cup {NoChore}]
  BY DEF TaskInv, TaskTypeOK, FindTask
<1>2. CASE send[k].kind # "create" /\ kept[send[k].chore] = NoChore
  BY <1>1, <1>2, RequestFails DEF FindTask, Live
<1>3. CASE ~(send[k].kind # "create" /\ kept[send[k].chore] = NoChore)
  <2>1. PICK c \in Chores : c = send[k].chore BY <1>1 DEF SendOK
  <2>2. PICK s \in States \cup {NoChore} : s = kept[c] BY <1>1
  <2>3. PICK r \in SendStates : r = [send[k] EXCEPT !.pc = "found", !.seen = s]
    BY <1>1 DEF SendStates
  <2>4. r.pc = "found" /\ r.seen = s /\ r.chore = c /\ r.kind = send[k].kind
          /\ r.input = send[k].input /\ r.mine = send[k].mine
    BY <1>1, <2>1, <2>3 DEF SendStates
  <2>5. send' = [send EXCEPT ![k] = r] /\ UNCHANGED <<crossed, busyWith>>
    BY <1>3, <2>1, <2>2, <2>3 DEF FindTask
  <2>6. send'[k] = r /\ \A l \in Sends \ {k} : send'[l] = send[l] BY <1>1, <2>5
  <2>7. SendOK(k)'
    <3>1. Agrees(s) BY <2>2 DEF TaskInv, TaskStateAgrees
    <3>2. r.kind # "create" => s # NoChore BY <1>3, <2>1, <2>2, <2>4
    <3> QED BY <1>1, <2>4, <2>6, <3>1, <3>2 DEF SendOK, Agrees
  <2>8. TaskTypeOK' BY <1>1, <2>5 DEF TaskTypeOK, TaskInv
  <2>9. RowsAgree' BY <1>1 DEF TaskInv, TaskStateAgrees, RowsAgree
  <2>10. ASSUME c \notin crossed' PROVE CurrentOK(c)'
    <3>1. AloneOK(c) /\ k \in UnderWay(c) BY <1>1, <2>1, <2>5, <2>10 DEF TaskInv, UnderWay
    <3>2. UnderWay(c)' = UnderWay(c) BY <1>1, <2>1, <2>4, <2>6 DEF UnderWay
    <3>3. UnderWay(c) = {k} /\ send[k].mine /\ board[c] = kept[c] /\ boardLoad.pc = "over"
      BY <1>1, <3>1 DEF AloneOK
    <3>4. UnderWay(c)' = {k} /\ UnderWay(c)' # {} BY <3>2, <3>3
    <3> QED BY <1>1, <2>2, <2>4, <2>6, <3>3, <3>4 DEF CurrentOK, AloneOK
  <2>11. boardLoad' = boardLoad /\ crossed \subseteq crossed'
           /\ \A d \in Chores \ {r.chore} : kept'[d] = kept[d] /\ board'[d] = board[d]
    BY <1>1, <2>5
  <2>12. send[k].pc \in Live => send[k].chore = r.chore BY <2>1, <2>4
  <2>13. r.chore \notin crossed' => CurrentOK(r.chore)' BY <2>4, <2>10
  <2>14. r.chore \in Chores BY <2>4
  <2> QED BY <2>5, <2>7, <2>8, <2>9, <2>11, <2>12, <2>13, <2>14, OneRequest
<1> QED BY <1>2, <1>3

LEMMA WriteTaskStep ==
  ASSUME TaskInv, NEW k \in Sends, WriteTask(k)
  PROVE  TaskInv'
<1>1. send \in [Sends -> SendStates] /\ send[k] \in SendStates /\ SendOK(k)
      /\ send[k].pc = "found" /\ UNCHANGED <<board, boardLoad, open, busyWith, crossed>>
      /\ kept \in [Chores -> States \cup {NoChore}]
  BY DEF TaskInv, TaskTypeOK, WriteTask
<1>2. PICK c \in Chores : c = send[k].chore BY <1>1 DEF SendOK
<1>3. PICK s \in States \cup {NoChore} : s = Written(k) /\ Agrees(s) BY <1>1, WrittenAgrees
<1>4. PICK p \in {"written", "over"} : p = IF send[k].mine THEN "written" ELSE "over" OBVIOUS
<1>5. PICK r \in SendStates : r = [send[k] EXCEPT !.pc = p, !.seen = s] BY <1>1 DEF SendStates
<1>6. r.pc = p /\ r.seen = s /\ r.chore = c /\ r.kind = send[k].kind
        /\ r.input = send[k].input /\ r.mine = send[k].mine
  BY <1>1, <1>2, <1>5 DEF SendStates
<1>7. send' = [send EXCEPT ![k] = r] /\ kept' = [kept EXCEPT ![c] = s]
  BY <1>2, <1>3, <1>4, <1>5 DEF WriteTask
<1>8. send'[k] = r /\ (\A l \in Sends \ {k} : send'[l] = send[l])
        /\ kept'[c] = s /\ \A d \in Chores \ {c} : kept'[d] = kept[d]
  BY <1>1, <1>7
<1>9. SendOK(k)'
  <2>1. p = "written" => r.mine BY <1>4, <1>6
  <2> QED BY <1>1, <1>3, <1>6, <1>8, <2>1 DEF SendOK, Agrees
<1>10. TaskTypeOK' BY <1>1, <1>7 DEF TaskTypeOK, TaskInv
<1>11. RowsAgree'
  <2>1. ASSUME NEW d \in Chores PROVE Agrees(kept'[d])
    BY <1>3, <1>8 DEF TaskInv, TaskStateAgrees
  <2> QED BY <1>1, <2>1 DEF TaskInv, TaskStateAgrees, RowsAgree, Agrees
<1>12. ASSUME c \notin crossed' PROVE CurrentOK(c)'
  <2>1. AloneOK(c) /\ k \in UnderWay(c) BY <1>1, <1>2, <1>12 DEF TaskInv, UnderWay
  <2>2. UnderWay(c) = {k} /\ send[k].mine /\ board[c] = kept[c] /\ boardLoad.pc = "over"
          /\ send[k].seen = kept[c]
    BY <1>1, <2>1 DEF AloneOK
  <2>3. p = "written" BY <1>4, <2>2
  <2>4. UnderWay(c)' = UnderWay(c) BY <1>1, <1>2, <1>6, <1>8, <2>3 DEF UnderWay
  <2>5. UnderWay(c)' = {k} /\ UnderWay(c)' # {} BY <2>2, <2>4
  <2>6. send[k].kind # "create" => board[c] # NoChore BY <1>1, <2>2 DEF SendOK
  <2> QED BY <1>1, <1>6, <1>8, <2>2, <2>3, <2>5, <2>6 DEF CurrentOK, AloneOK
<1>13. boardLoad' = boardLoad /\ crossed \subseteq crossed'
         /\ \A d \in Chores \ {r.chore} : kept'[d] = kept[d] /\ board'[d] = board[d]
  BY <1>1, <1>6, <1>8
<1>14. send[k].pc \in Live => send[k].chore = r.chore BY <1>2, <1>6
<1>15. r.chore \notin crossed' => CurrentOK(r.chore)' BY <1>6, <1>12
<1>16. r.chore \in Chores BY <1>6
<1> QED BY <1>7, <1>9, <1>10, <1>11, <1>13, <1>14, <1>15, <1>16, OneRequest

LEMMA ShowTaskStep ==
  ASSUME TaskInv, NEW k \in Sends, ShowTask(k)
  PROVE  TaskInv'
<1>1. send \in [Sends -> SendStates] /\ send[k] \in SendStates /\ SendOK(k)
      /\ send[k].pc = "written" /\ UNCHANGED <<kept, boardLoad, crossed>> /\ busyWith' = NoChore
      /\ board \in [Chores -> States \cup {NoChore}] /\ open' \in {open, NoChore}
  BY DEF TaskInv, TaskTypeOK, ShowTask
<1>2. PICK c \in Chores : c = send[k].chore BY <1>1 DEF SendOK
<1>3. PICK r \in SendStates : r = [send[k] EXCEPT !.pc = "over"] BY <1>1 DEF SendStates
<1>4. r.pc = "over" /\ r.chore = c /\ r.kind = send[k].kind /\ r.input = send[k].input
        /\ r.seen = send[k].seen /\ r.mine = send[k].mine
  BY <1>1, <1>2, <1>3 DEF SendStates
<1>5. send' = [send EXCEPT ![k] = r] BY <1>3 DEF ShowTask
<1>6. send'[k] = r /\ (\A l \in Sends \ {k} : send'[l] = send[l]) BY <1>1, <1>5
<1>7. PICK s \in States \cup {NoChore} : s = send[k].seen /\ Agrees(s)
  BY <1>1 DEF SendStates, SendOK
<1>8. board' = IF send[k].kind # "create" /\ board[c] = NoChore THEN board
               ELSE [board EXCEPT ![c] = s]
  BY <1>2, <1>7 DEF ShowTask
<1>9. board' \in [Chores -> States \cup {NoChore}] /\ \A d \in Chores \ {c} : board'[d] = board[d]
  BY <1>1, <1>8
<1>10. SendOK(k)' BY <1>1, <1>4, <1>6 DEF SendOK
<1>11. TaskTypeOK' BY <1>1, <1>5, <1>9 DEF TaskTypeOK, TaskInv
<1>12. RowsAgree'
  <2>1. ASSUME NEW d \in Chores PROVE Agrees(board'[d])
    BY <1>1, <1>7, <1>8 DEF TaskInv, TaskStateAgrees
  <2> QED BY <1>1, <2>1 DEF TaskInv, TaskStateAgrees, RowsAgree, Agrees
<1>13. ASSUME c \notin crossed' PROVE CurrentOK(c)'
  <2>1. AloneOK(c) /\ k \in UnderWay(c) BY <1>1, <1>2, <1>13 DEF TaskInv, UnderWay
  <2>2. UnderWay(c) = {k} /\ boardLoad.pc = "over" /\ s = kept[c]
          /\ (send[k].kind # "create" => board[c] # NoChore)
    BY <1>1, <1>7, <2>1 DEF AloneOK
  <2>3. UnderWay(c)' = {} BY <1>4, <1>6, <2>2 DEF UnderWay
  <2>4. board'[c] = kept'[c] BY <1>1, <1>8, <2>2
  <2> QED BY <1>1, <2>2, <2>3, <2>4 DEF CurrentOK, AloneOK
<1>14. boardLoad' = boardLoad /\ crossed \subseteq crossed'
         /\ \A d \in Chores \ {r.chore} : kept'[d] = kept[d] /\ board'[d] = board[d]
  BY <1>1, <1>4, <1>9
<1>15. send[k].pc \in Live => send[k].chore = r.chore BY <1>2, <1>4
<1>16. r.chore \notin crossed' => CurrentOK(r.chore)' BY <1>4, <1>13
<1>17. r.chore \in Chores BY <1>4
<1> QED BY <1>5, <1>10, <1>11, <1>12, <1>14, <1>15, <1>16, <1>17, OneRequest
-----------------------------------------------------------------------------
(* The load of the board, and the editor.                                  *)
LEMMA BoardStep ==
  ASSUME TaskInv, ReadBoard \/ ShowBoard \/ LoseBoard \/ OpenEditor
  PROVE  TaskInv'
<1>1. /\ kept \in [Chores -> States \cup {NoChore}] /\ board \in [Chores -> States \cup {NoChore}]
      /\ boardLoad \in [pc : {"sent", "read", "over"}, rows : [Chores -> States \cup {NoChore}]]
      /\ UNCHANGED <<kept, send, busyWith>> /\ TaskTypeOK
  BY DEF TaskInv, TaskTypeOK, ReadBoard, ShowBoard, LoseBoard, OpenEditor
<1>2. ASSUME TaskTypeOK', RowsAgree', \A c \in Chores \ crossed' : CurrentOK(c)' PROVE TaskInv'
  <2>1. ASSUME NEW k \in Sends PROVE SendOK(k)' BY <1>1 DEF TaskInv, SendOK
  <2> QED BY <1>2, <2>1 DEF TaskInv, TaskStateAgrees, BoardIsCurrent, RowsAgree, CurrentOK
<1>3. \A c \in Chores : UnderWay(c)' = UnderWay(c) BY <1>1 DEF UnderWay
<1>4. \A c \in Chores \ crossed : AloneOK(c) BY DEF TaskInv
<1>5. CASE ReadBoard
  <2>1. /\ boardLoad' = [pc |-> "read", rows |-> kept] /\ UNCHANGED <<board, open, crossed>>
        /\ boardLoad.pc = "sent"
    BY <1>5 DEF ReadBoard
  <2>2. TaskTypeOK' BY <1>1, <2>1 DEF TaskTypeOK
  <2>3. RowsAgree' BY <1>1, <2>1 DEF RowsAgree, TaskInv, TaskStateAgrees, Agrees
  <2>4. ASSUME NEW c \in Chores \ crossed' PROVE CurrentOK(c)'
    BY <1>1, <1>3, <1>4, <2>1 DEF CurrentOK, AloneOK
  <2> QED BY <1>2, <2>2, <2>3, <2>4
<1>6. CASE ShowBoard
  <2>1. /\ boardLoad' = [pc |-> "over", rows |-> NoRows] /\ UNCHANGED <<open, crossed>>
        /\ boardLoad.pc = "read" /\ board' = boardLoad.rows
    BY <1>6 DEF ShowBoard
  <2>2. TaskTypeOK' BY <1>1, <2>1 DEF TaskTypeOK, NoRows
  <2>3. RowsAgree' BY <1>1, <2>1 DEF RowsAgree, TaskInv, TaskStateAgrees, Agrees, NoRows
  <2>4. ASSUME NEW c \in Chores \ crossed' PROVE CurrentOK(c)'
    BY <1>1, <1>3, <1>4, <2>1 DEF CurrentOK, AloneOK
  <2> QED BY <1>2, <2>2, <2>3, <2>4
<1>7. CASE LoseBoard
  <2>1. /\ boardLoad' = [pc |-> "over", rows |-> NoRows] /\ UNCHANGED <<board, open>>
        /\ crossed' = Chores
    BY <1>7 DEF LoseBoard
  <2>2. TaskTypeOK' BY <1>1, <2>1 DEF TaskTypeOK, NoRows
  <2>3. RowsAgree' BY <1>1, <2>1 DEF RowsAgree, TaskInv, TaskStateAgrees, Agrees, NoRows
  <2> QED BY <1>2, <2>1, <2>2, <2>3
<1>8. CASE OpenEditor
  <2>1. UNCHANGED <<board, boardLoad, crossed>> /\ open' \in Chores \cup {"new", NoChore}
    BY <1>8 DEF OpenEditor
  <2>2. TaskTypeOK' BY <1>1, <2>1 DEF TaskTypeOK
  <2>3. RowsAgree' BY <1>1, <2>1 DEF RowsAgree, TaskInv, TaskStateAgrees, Agrees
  <2>4. ASSUME NEW c \in Chores \ crossed' PROVE CurrentOK(c)'
    BY <1>1, <1>3, <2>1 DEF CurrentOK, AloneOK, TaskInv, BoardIsCurrent
  <2> QED BY <1>2, <2>2, <2>3, <2>4
<1> QED BY <1>5, <1>6, <1>7, <1>8

LEMMA TasksStart ==
  ASSUME TaskInit
  PROVE  TaskInv
<1> USE DEF TaskInit
<1>1. NewTask \in States /\ Agrees(NewTask) BY DEF NewTask, States, Steps, Progress, Agrees
<1>2. kept \in [Chores -> {NewTask, NoChore}] BY DEF NoRows
<1>3. Unsent \in SendStates BY DEF SendStates, Unsent, Inputs
<1>4. TaskTypeOK BY <1>1, <1>2, <1>3 DEF TaskTypeOK, NoRows
<1>5. RowsAgree BY <1>1, <1>2 DEF RowsAgree, NoRows, Agrees
<1>6. ASSUME NEW k \in Sends PROVE SendOK(k) BY DEF SendOK, Unsent, Agrees
<1>7. ASSUME NEW c \in Chores PROVE CurrentOK(c) /\ UnderWay(c) = {}
  BY DEF CurrentOK, AloneOK, UnderWay, Unsent
<1> QED BY <1>4, <1>5, <1>6, <1>7, InParts

LEMMA TasksStep ==
  ASSUME TaskInv, [TaskNext]_taskVars
  PROVE  TaskInv'
<1>1. /\ open \in Chores \cup {"new", NoChore} /\ busyWith \in Chores \cup {"new", NoChore}
      /\ Unsent.input \in Inputs
  BY DEF TaskInv, TaskTypeOK, Unsent, Inputs
<1>2. CASE ReadBoard \/ ShowBoard \/ LoseBoard \/ OpenEditor BY <1>2, BoardStep
<1>3. ASSUME NEW k \in Sends, SaveTask(k) PROVE TaskInv'
  <2>1. UNCHANGED <<kept, board, boardLoad, open>> /\ open # NoChore /\ busyWith' = open
    BY <1>3 DEF SaveTask
  <2>2. PICK i \in EditorInputs :
          IF open = "new"
          THEN \E c \in Chores : kept[c] = NoChore /\ board[c] = NoChore /\ UnderWay(c) = {}
                                   /\ Sent(k, TRUE, "create", c, i)
          ELSE Sent(k, TRUE, "save", open, i)
    BY <1>3 DEF SaveTask
  <2>3. i \in Inputs /\ i.status # NoChore /\ i.progress # NoChore BY DEF EditorInputs
  <2>4. CASE open = "new"
    <3>1. PICK c \in Chores : Sent(k, TRUE, "create", c, i) BY <2>2, <2>4
    <3> QED BY <1>1, <2>1, <2>3, <3>1, SentStep
  <2>5. CASE open # "new"
    <3>1. PICK c \in Chores : c = open BY <1>1, <2>1, <2>5
    <3>2. Sent(k, TRUE, "save", c, i) BY <2>2, <2>5, <3>1
    <3> QED BY <1>1, <2>1, <2>3, <3>2, SentStep
  <2> QED BY <2>4, <2>5
<1>4. ASSUME NEW k \in Sends, DeleteTask(k) PROVE TaskInv'
  <2>1. UNCHANGED <<kept, board, boardLoad, open>> /\ open \in Chores /\ busyWith' = open
          /\ Sent(k, TRUE, "delete", open, Unsent.input)
    BY <1>4 DEF DeleteTask
  <2> QED BY <1>1, <2>1, SentStep
<1>5. ASSUME NEW k \in Sends, NEW c \in Chores, ToggleTaskComplete(k, c) PROVE TaskInv'
  <2>1. UNCHANGED <<kept, board, boardLoad, open>> /\ busyWith' = c BY <1>5 DEF ToggleTaskComplete
  <2>2. PICK i \in Inputs : Sent(k, TRUE, "toggle", c, i)
    <3>1. [status |-> "TODO", progress |-> 0] \in Inputs
            /\ [status |-> "COMPLETED", progress |-> 100] \in Inputs
      BY DEF Inputs, Steps, Progress
    <3> QED BY <1>5, <3>1 DEF ToggleTaskComplete
  <2> QED BY <1>1, <2>1, <2>2, SentStep
<1>6. ASSUME NEW k \in Sends, NEW c \in Chores, Colleague(k, c) PROVE TaskInv'
  <2>1. UNCHANGED <<kept, board, boardLoad, open, busyWith>> BY <1>6 DEF Colleague
  <2>2. PICK i \in Inputs, kind \in {"save", "delete"} : Sent(k, FALSE, kind, c, i)
    BY <1>1, <1>6 DEF Colleague
  <2> QED BY <1>1, <2>1, <2>2, SentStep
<1>7. ASSUME NEW k \in Sends, FailTask(k) PROVE TaskInv'
  BY <1>7, RequestFails DEF FailTask, Live
<1>8. ASSUME NEW k \in Sends, FindTask(k) \/ WriteTask(k) \/ ShowTask(k) PROVE TaskInv'
  BY <1>8, FindTaskStep, WriteTaskStep, ShowTaskStep
<1>9. CASE UNCHANGED taskVars
  <2>1. TaskTypeOK' /\ RowsAgree'
    BY <1>9 DEF taskVars, TaskInv, TaskTypeOK, TaskStateAgrees, RowsAgree, Agrees
  <2>2. ASSUME NEW k \in Sends PROVE SendOK(k)' BY <1>9 DEF taskVars, TaskInv, SendOK
  <2>3. ASSUME NEW c \in Chores PROVE CurrentOK(c)' <=> CurrentOK(c)
    BY <1>9 DEF taskVars, CurrentOK, AloneOK, UnderWay
  <2>4. crossed' = crossed BY <1>9 DEF taskVars
  <2> QED
    BY <2>1, <2>2, <2>3, <2>4, InParts
    DEF TaskInv, TaskStateAgrees, BoardIsCurrent, RowsAgree, CurrentOK
<1> QED BY <1>2, <1>3, <1>4, <1>5, <1>6, <1>7, <1>8, <1>9 DEF TaskNext

(* However requests for a task meet: status, progress and completion say   *)
(* the same of it, and the panel shows what is stored unless requests met, *)
(* failed or were a colleague's, for any number of tasks and requests.     *)
THEOREM TasksCorrect == TaskSpec => []TaskInv
<1>1. TaskInit => TaskInv BY TasksStart
<1>2. TaskInv /\ [TaskNext]_taskVars => TaskInv' BY TasksStep
<1> QED BY <1>1, <1>2, PTL DEF TaskSpec

-----------------------------------------------------------------------------
(* The inbox.                                                               *)

SheetAsks == [pc : {"idle", "sent", "read", "gone"}, of : Talks \cup {NoTalk}, is : ReadStates]

(* The part of the invariant that is about the detail.                     *)
SheetOK ==
  /\ line \in [Talks -> ReadStates]
  /\ chosen \in Talks \cup {NoTalk} /\ sieve \in {"ALL", "UNREAD"}
  /\ spins \in BOOLEAN /\ sheetAsk \in SheetAsks
  /\ sheet = NoTalk \/ sheet \in [of : Talks, is : {"read", "unread"}]
  /\ SpinnerIsAnswered /\ SheetIsPicked /\ SheetAskOK

(* And the one about the list and the requests.                            *)
RowsTypeOK ==
  /\ talk \in [Talks -> ReadStates]
  /\ listAsk \in [pc : {"idle", "sent", "read"}, rows : [Talks -> ReadStates]]
  /\ marking \in [Markings -> [pc : {"none", "sent", "written", "over"},
                               of : Talks \cup {NoTalk, "all"}, to : {"read", "unread"}]]
  /\ marked \in Talks \cup {NoTalk, "all"} /\ loads \in 0..MaxLoads /\ met \in BOOLEAN

RowsOK == RowsTypeOK /\ ListIsCurrent /\ ListOK

LEMMA InTwo == InboxInv <=> SheetOK /\ RowsOK
BY DEF InboxInv, InboxTypeOK, SheetOK, RowsOK, RowsTypeOK, SheetAsks

LEMMA InTwoNext ==
  ASSUME SheetOK', RowsOK'
  PROVE  InboxInv'
BY DEF InboxInv, InboxTypeOK, SheetOK, RowsOK, RowsTypeOK, SheetAsks

LEMMA PickedIs ==
  ASSUME NEW rows, NEW filter, NEW key
  PROVE  Picked(rows, filter, key) = NoTalk \/ (Picked(rows, filter, key) \in Talks
                                                 /\ Picked(rows, filter, key) # NoTalk)
BY InboxAssumption DEF Picked, Passes

(* Whatever the panel shows: it waits for what it then has selected.       *)
LEMMA ShowsKeepsSheet ==
  ASSUME SheetOK, NEW rows \in [Talks -> ReadStates], NEW filter \in {"ALL", "UNREAD"},
         NEW key \in Talks \cup {NoTalk}, NEW again \in BOOLEAN, Shows(rows, filter, key, again),
         sheet' = NoTalk \/ sheet' \in [of : Talks, is : {"read", "unread"}]
  PROVE  SheetOK' /\ line' = rows
<1> DEFINE to == Picked(rows, filter, key)
<1>1. line' = rows /\ sieve' = filter /\ chosen' = key BY DEF Shows
<1>2. Picked(line', sieve', chosen') = to BY <1>1
<1>3. to = NoTalk \/ (to \in Talks /\ to # NoTalk) BY PickedIs
<1>4. \/ to = Picked(line, sieve, chosen) /\ UNCHANGED <<sheetAsk, spins>>
      \/ to = NoTalk /\ sheetAsk' = Blank /\ spins' = (spins \/ FALSE)
      \/ to # NoTalk /\ sheetAsk' = [pc |-> "sent", of |-> to, is |-> "absent"] /\ spins' = TRUE
  BY DEF Shows, SheetOK
<1>5. SpinnerIsAnswered' <=> (spins' => sheetAsk'.pc # "idle" \/ to = NoTalk)
  BY <1>2 DEF SpinnerIsAnswered
<1>6. SheetIsPicked' <=> (sheetAsk'.pc # "idle" => sheetAsk'.of = to) BY <1>2 DEF SheetIsPicked
<1> HIDE DEF to
<1>7. spins' \in BOOLEAN /\ sheetAsk' \in SheetAsks
  <2>1. spins \in BOOLEAN /\ sheetAsk \in SheetAsks BY DEF SheetOK
  <2>2. spins' \in BOOLEAN BY <1>4, <2>1, Zenon
  <2>3. Blank \in SheetAsks BY DEF SheetAsks, Blank, ReadStates
  <2>4. to # NoTalk => [pc |-> "sent", of |-> to, is |-> "absent"] \in SheetAsks
    BY <1>3 DEF SheetAsks, ReadStates
  <2> QED BY <1>4, <2>1, <2>2, <2>3, <2>4
<1>8. (spins' => sheetAsk'.pc # "idle" \/ to = NoTalk) /\ (sheetAsk'.pc # "idle" => sheetAsk'.of = to)
        /\ SheetAskOK'
  <2>1. CASE to = Picked(line, sieve, chosen) /\ UNCHANGED <<sheetAsk, spins>>
    BY <2>1 DEF SheetOK, SpinnerIsAnswered, SheetIsPicked, SheetAskOK
  <2>2. CASE to = NoTalk /\ sheetAsk' = Blank BY <2>2 DEF SheetAskOK, Blank
  <2>3. CASE to # NoTalk /\ sheetAsk' = [pc |-> "sent", of |-> to, is |-> "absent"]
    BY <1>3, <2>3 DEF SheetAskOK
  <2> QED BY <1>4, <2>1, <2>2, <2>3
<1> QED BY <1>1, <1>5, <1>6, <1>7, <1>8 DEF SheetOK

(* The panel is left as it is.                                             *)
LEMMA SheetRests ==
  ASSUME SheetOK, UNCHANGED <<line, chosen, sieve, sheet, spins, sheetAsk>>
  PROVE  SheetOK'
BY DEF SheetOK, SpinnerIsAnswered, SheetIsPicked, SheetAskOK

LEMMA SheetStep ==
  ASSUME InboxInv, SheetRead \/ SheetShown \/ SheetLost
  PROVE  InboxInv'
<1>1. SheetOK /\ RowsOK BY InTwo
<1>2. RowsOK'
  BY <1>1 DEF SheetRead, SheetShown, SheetLost, RowsOK, RowsTypeOK, ListIsCurrent, ListOK, Meeting,
     Current, Becomes
<1>3. CASE SheetRead
  <2>1. /\ UNCHANGED <<line, chosen, sieve, sheet, spins>> /\ sheetAsk.of \in Talks
        /\ sheetAsk \in SheetAsks /\ sheetAsk.pc = "sent"
    BY <1>1, <1>3 DEF SheetRead, SheetOK, SheetAskOK
  <2>2. PICK is \in ReadStates : is = talk[sheetAsk.of] BY <1>1, <2>1 DEF RowsOK, RowsTypeOK
  <2>3. PICK p \in {"gone", "read"} : p = IF is = "absent" THEN "gone" ELSE "read" OBVIOUS
  <2>4. sheetAsk' = [sheetAsk EXCEPT !.pc = p, !.is = is] BY <1>3, <2>2, <2>3 DEF SheetRead
  <2>5. sheetAsk' \in SheetAsks /\ sheetAsk'.pc = p /\ sheetAsk'.is = is /\ sheetAsk'.of = sheetAsk.of
    BY <2>1, <2>4 DEF SheetAsks
  <2>6. SheetAskOK' BY <2>1, <2>3, <2>5 DEF SheetAskOK
  <2>7. SpinnerIsAnswered' /\ SheetIsPicked'
    BY <1>1, <2>1, <2>5 DEF SheetOK, SpinnerIsAnswered, SheetIsPicked
  <2>8. SheetOK' BY <1>1, <2>1, <2>5, <2>6, <2>7 DEF SheetOK
  <2> QED BY <1>2, <2>8, InTwoNext
<1>4. CASE SheetShown
  <2>1. /\ UNCHANGED <<line, chosen, sieve>> /\ sheetAsk.of \in Talks /\ sheetAsk.is \in {"read", "unread"}
        /\ sheetAsk' = Blank /\ spins' = FALSE
        /\ sheet' = [of |-> sheetAsk.of, is |-> sheetAsk.is]
    BY <1>1, <1>4 DEF SheetShown, SheetOK, SheetAskOK, SheetAsks, ReadStates
  <2>2. SheetOK'
    BY <1>1, <2>1 DEF SheetOK, SpinnerIsAnswered, SheetIsPicked, SheetAskOK, Blank, SheetAsks, ReadStates
  <2> QED BY <1>2, <2>2, InTwoNext
<1>5. CASE SheetLost
  <2>1. /\ UNCHANGED <<line, chosen, sieve>> /\ sheetAsk' = Blank /\ spins' = FALSE /\ sheet' = NoTalk
    BY <1>5 DEF SheetLost
  <2>2. SheetOK'
    BY <1>1, <2>1 DEF SheetOK, SpinnerIsAnswered, SheetIsPicked, SheetAskOK, Blank, SheetAsks, ReadStates
  <2> QED BY <1>2, <2>2, InTwoNext
<1> QED BY <1>3, <1>4, <1>5

-----------------------------------------------------------------------------
(* The list and the requests.                                              *)

Underway(k) == marking[k].pc \in {"sent", "written"}

(* Nothing that is listed right becomes wrong when a conversation comes.   *)
LEMMA ComingKeepsCurrent ==
  ASSUME RowsTypeOK, NEW t \in Talks, talk[t] = "absent", NEW r \in ReadStates,
         talk' = [talk EXCEPT ![t] = r], NEW rows, Current(rows)
  PROVE  \A u \in Talks : rows[u] \in {"absent", talk'[u]}
BY DEF RowsTypeOK, Current

LEMMA BecomesIs ==
  ASSUME RowsTypeOK, NEW k \in Markings, NEW rows \in [Talks -> ReadStates]
  PROVE  Becomes(rows, k) \in [Talks -> ReadStates]
BY DEF RowsTypeOK, Becomes, ReadStates

(* A request to change the read state is sent.                             *)
LEMMA AskingKeepsRows ==
  ASSUME RowsOK, NEW k \in Markings, NEW of \in Talks \cup {NoTalk, "all"}, NEW to \in {"read", "unread"},
         Asks(k, of, to), UNCHANGED <<talk, line, listAsk, loads>>
  PROVE  RowsOK'
<1>1. RowsTypeOK /\ marking' = [marking EXCEPT ![k] = [pc |-> "sent", of |-> of, to |-> to]]
  BY DEF RowsOK, Asks
<1>2. met' = (met \/ Meeting({})) /\ marked' = of BY DEF Asks
<1>3. marking'[k].pc = "sent" /\ \A j \in Markings : j # k => marking'[j] = marking[j]
  BY <1>1 DEF RowsTypeOK
<1>4. RowsTypeOK'
  <2>1. met' \in BOOLEAN BY <1>1, <1>2, Zenon DEF RowsTypeOK
  <2> QED BY <1>1, <1>2, <2>1 DEF RowsTypeOK
<1>5. ListIsCurrent' BY <1>3 DEF ListIsCurrent, Meeting
<1>6. ASSUME ~met' PROVE ~met /\ ~Meeting({}) /\ Current(line)
  BY <1>2, <1>6 DEF RowsOK, ListIsCurrent
<1>7. ListOK'
  BY <1>3, <1>6 DEF ListOK, Meeting, Current
<1> QED BY <1>4, <1>5, <1>7 DEF RowsOK

(* With a load under way, or another one marking, none is.                 *)
LEMMA NoneUnderway ==
  ASSUME RowsOK, ~met, listAsk.pc # "idle"
  PROVE  \A k \in Markings : ~Underway(k)
BY DEF RowsOK, ListOK, Meeting, Underway

LEMMA LoadingKeepsRows ==
  ASSUME InboxInv, ListRead \/ ListShown \/ ListLost
  PROVE  RowsOK'
<1>1. RowsOK /\ RowsTypeOK /\ line \in [Talks -> ReadStates] BY InTwo DEF RowsOK, SheetOK
<1>2. CASE ListRead
  <2>1. RowsTypeOK' BY <1>1, <1>2 DEF ListRead, RowsTypeOK
  <2>2. listAsk'.pc = "read" /\ listAsk'.rows = talk' /\ UNCHANGED <<line, marking, met, talk>>
        /\ listAsk.pc = "sent"
    BY <1>2 DEF ListRead
  <2>3. ListIsCurrent' BY <2>2 DEF ListIsCurrent, Meeting
  <2>4. ListOK' BY <1>1, <2>2, NoneUnderway DEF ListOK, Current, Underway
  <2> QED BY <2>1, <2>3, <2>4 DEF RowsOK
<1>3. CASE ListShown
  <2>1. listAsk.pc = "read" /\ listAsk' = NoList /\ line' = listAsk.rows
        /\ UNCHANGED <<talk, marking, marked, loads, met>>
    BY <1>3 DEF ListShown, Shows
  <2>2. RowsTypeOK' BY <1>1, <2>1 DEF RowsTypeOK, NoList, ReadStates
  <2>3. listAsk'.pc = "idle" BY <2>1 DEF NoList
  <2>4. ASSUME ~met PROVE Current(listAsk.rows) /\ \A k \in Markings : ~Underway(k)
    BY <1>1, <2>1, <2>4, NoneUnderway DEF RowsOK, ListOK
  <2>5. ~met' => Current(line)' BY <2>1, <2>4 DEF Current
  <2>6. ListIsCurrent' BY <2>5 DEF ListIsCurrent
  <2>7. ListOK' BY <2>1, <2>3, <2>4 DEF ListOK, Underway
  <2> QED BY <2>2, <2>6, <2>7 DEF RowsOK
<1>4. CASE ListLost
  <2>1. listAsk' = NoList /\ met' = TRUE /\ UNCHANGED <<talk, line, marking, marked, loads>>
    BY <1>4 DEF ListLost
  <2>2. RowsTypeOK' BY <1>1, <2>1 DEF RowsTypeOK, NoList, ReadStates
  <2> QED BY <2>1, <2>2 DEF RowsOK, ListIsCurrent, ListOK
<1> QED BY <1>2, <1>3, <1>4

(* The inbox is loaded again, with or without a new conversation.          *)
LEMMA RefreshKeepsRows ==
  ASSUME InboxInv, talk' \in [Talks -> ReadStates], loads < MaxLoads, loads' = loads + 1,
         met' = (met \/ Meeting({})), listAsk' = [NoList EXCEPT !.pc = "sent"],
         UNCHANGED <<line, marking, marked>>
  PROVE  RowsOK'
<1>1. RowsOK /\ RowsTypeOK BY InTwo DEF RowsOK
<1>2. RowsTypeOK'
  <2>1. met' \in BOOLEAN BY <1>1, Zenon DEF RowsTypeOK
  <2>2. loads' \in 0..MaxLoads BY <1>1, InboxAssumption DEF RowsTypeOK
  <2> QED BY <1>1, <2>1, <2>2 DEF RowsTypeOK, NoList, ReadStates
<1>3. listAsk'.pc = "sent" BY DEF NoList
<1>4. ListIsCurrent' BY <1>3 DEF ListIsCurrent, Meeting
<1>5. ASSUME ~met' PROVE \A k \in Markings : marking'[k].pc \notin {"sent", "written"}
  BY <1>5 DEF Meeting
<1>6. ListOK' BY <1>3, <1>5 DEF ListOK
<1> QED BY <1>2, <1>4, <1>6 DEF RowsOK

LEMMA NotifyKeepsRows ==
  ASSUME InboxInv, NEW t \in Talks, Notify(t)
  PROVE  RowsOK'
<1>1. RowsOK /\ RowsTypeOK BY InTwo DEF RowsOK
<1>2. talk[t] = "absent" /\ talk' = [talk EXCEPT ![t] = "unread"]
      /\ UNCHANGED <<line, listAsk, marking, marked, loads, met>>
  BY DEF Notify
<1>3. RowsTypeOK' BY <1>1, <1>2 DEF RowsTypeOK, ReadStates
<1>4. ASSUME NEW rows, Current(rows) PROVE \A u \in Talks : rows[u] \in {"absent", talk'[u]}
  BY <1>1, <1>2, <1>4, ComingKeepsCurrent DEF ReadStates
<1>5. Current(line) => Current(line)' BY <1>2, <1>4 DEF Current
<1>6. Current(listAsk.rows) => Current(listAsk.rows)' BY <1>2, <1>4 DEF Current
<1>7. ASSUME NEW k \in Markings, Current(Becomes(line, k)) PROVE Current(Becomes(line, k))'
  <2>1. Becomes(line, k)' = Becomes(line, k) BY <1>2 DEF Becomes
  <2> QED BY <1>4, <1>7, <2>1 DEF Current
<1>8. ListIsCurrent' BY <1>1, <1>2, <1>5 DEF RowsOK, ListIsCurrent, Meeting
<1>9. ListOK' BY <1>1, <1>2, <1>5, <1>6, <1>7 DEF RowsOK, ListOK, Meeting
<1> QED BY <1>3, <1>8, <1>9 DEF RowsOK

-----------------------------------------------------------------------------
(* The requests that change the read state.                                *)

LEMMA WritingKeepsRows ==
  ASSUME InboxInv, NEW k \in Markings, WriteMark(k)
  PROVE  RowsOK'
<1>1. RowsOK /\ RowsTypeOK /\ line \in [Talks -> ReadStates] BY InTwo DEF RowsOK, SheetOK
<1>2. marking[k].pc = "sent" /\ marking' = [marking EXCEPT ![k].pc = "written"] /\ talk' = Becomes(talk, k)
      /\ UNCHANGED <<line, listAsk, marked, loads, met>>
  BY DEF WriteMark
<1>3. RowsTypeOK'
  <2>1. talk' \in [Talks -> ReadStates] BY <1>1, <1>2, BecomesIs DEF RowsTypeOK
  <2> QED BY <1>1, <1>2, <2>1 DEF RowsTypeOK
<1>4. marking'[k].pc = "written" /\ marking'[k].of = marking[k].of /\ marking'[k].to = marking[k].to
      /\ \A j \in Markings : j # k => marking'[j] = marking[j]
  BY <1>1, <1>2 DEF RowsTypeOK
<1>5. ListIsCurrent' BY <1>4 DEF ListIsCurrent, Meeting
<1>6. ASSUME ~met' PROVE Current(line) /\ ~Meeting({k})
  BY <1>1, <1>2, <1>6 DEF RowsOK, ListOK
<1>7. ASSUME Current(line) PROVE Current(Becomes(line, k))'
  <2>1. \A t \in Talks : line[t] = "absent" \/ line[t] = talk[t] BY <1>7 DEF Current
  <2>2. Becomes(line, k)' = Becomes(line, k) BY <1>2, <1>4 DEF Becomes
  <2>3. \A t \in Talks : Becomes(line, k)[t] = "absent" \/ Becomes(line, k)[t] = Becomes(talk, k)[t]
    BY <2>1 DEF Becomes
  <2> QED BY <1>2, <2>2, <2>3 DEF Current
<1>8. ListOK'
  <2>1. ASSUME ~met' PROVE listAsk'.pc = "idle" /\ \A j \in Markings : j # k => ~Underway(j)
    BY <1>2, <1>6, <2>1 DEF Meeting, Underway
  <2>2. ASSUME ~met' PROVE ~Meeting({k})' BY <1>4, <2>1, <2>2 DEF Meeting, Underway
  <2> QED BY <1>4, <1>6, <1>7, <2>1, <2>2 DEF ListOK, Underway
<1> QED BY <1>3, <1>5, <1>8 DEF RowsOK

LEMMA ShownMarkKeepsRows ==
  ASSUME InboxInv, NEW k \in Markings, ShowMark(k)
  PROVE  RowsOK'
<1>1. RowsOK /\ RowsTypeOK /\ line \in [Talks -> ReadStates] BY InTwo DEF RowsOK, SheetOK
<1>2. marking[k].pc = "written" /\ marking' = [marking EXCEPT ![k].pc = "over"] /\ marked' = NoTalk
      /\ line' = Becomes(line, k) /\ UNCHANGED <<talk, listAsk, loads, met>>
  BY DEF ShowMark, Shows
<1>3. RowsTypeOK' BY <1>1, <1>2 DEF RowsTypeOK
<1>4. marking'[k].pc = "over" /\ \A j \in Markings : j # k => marking'[j] = marking[j]
  BY <1>1, <1>2 DEF RowsTypeOK
<1>5. ASSUME ~met' PROVE /\ Current(line)' /\ listAsk'.pc = "idle"
                         /\ \A j \in Markings : marking'[j].pc \notin {"sent", "written"}
  <2>1. Current(Becomes(line, k)) /\ ~Meeting({k}) BY <1>1, <1>2, <1>5 DEF RowsOK, ListOK
  <2>2. Current(line)' BY <1>2, <2>1 DEF Current
  <2> QED BY <1>2, <1>4, <2>1, <2>2 DEF Meeting
<1>6. ListIsCurrent' /\ ListOK' BY <1>5 DEF ListIsCurrent, ListOK
<1> QED BY <1>3, <1>6 DEF RowsOK

LEMMA LosingKeepsRows ==
  ASSUME InboxInv, NEW k \in Markings, LoseMark(k)
  PROVE  RowsOK'
<1>1. RowsTypeOK BY InTwo DEF RowsOK
<1>2. marking' = [marking EXCEPT ![k].pc = "over"] /\ marked' = NoTalk /\ met' = TRUE
      /\ UNCHANGED <<talk, listAsk, loads>>
  BY DEF LoseMark
<1>3. RowsTypeOK' BY <1>1, <1>2 DEF RowsTypeOK
<1> QED BY <1>2, <1>3 DEF RowsOK, ListIsCurrent, ListOK

-----------------------------------------------------------------------------
(* Each step of the inbox.                                                 *)

LEMMA ListSteps ==
  ASSUME InboxInv, ListRead \/ ListShown \/ ListLost
  PROVE  InboxInv'
<1>1. SheetOK BY InTwo
<1>2. RowsOK' BY LoadingKeepsRows
<1>3. CASE ListRead BY <1>1, <1>2, <1>3, SheetRests, InTwoNext DEF ListRead
<1>4. CASE ListShown
  <2>1. listAsk.rows \in [Talks -> ReadStates] BY DEF InboxInv, InboxTypeOK
  <2>2. PICK key \in Talks \cup {NoTalk} : Shows(listAsk.rows, sieve, key, FALSE)
    BY <1>1, <1>4 DEF ListShown, SheetOK, Passes
  <2>3. sheet' = NoTalk \/ sheet' \in [of : Talks, is : {"read", "unread"}]
    BY <1>1, <1>4 DEF ListShown, SheetOK
  <2>4. sieve \in {"ALL", "UNREAD"} /\ FALSE \in BOOLEAN BY <1>1 DEF SheetOK
  <2>5. SheetOK' BY <1>1, <2>1, <2>2, <2>3, <2>4, ShowsKeepsSheet
  <2> QED BY <1>2, <2>5, InTwoNext
<1>5. CASE ListLost BY <1>1, <1>2, <1>5, SheetRests, InTwoNext DEF ListLost
<1> QED BY <1>3, <1>4, <1>5

LEMMA RefreshStep ==
  ASSUME InboxInv, Refresh
  PROVE  InboxInv'
<1>1. SheetOK /\ talk \in [Talks -> ReadStates] BY InTwo DEF RowsOK, RowsTypeOK
<1>2. Shows(line, sieve, chosen, TRUE) /\ UNCHANGED <<talk, sheet, marking, marked>>
      /\ loads < MaxLoads /\ loads' = loads + 1 /\ met' = (met \/ Meeting({}))
      /\ listAsk' = [NoList EXCEPT !.pc = "sent"]
  BY DEF Refresh
<1>3. line \in [Talks -> ReadStates] /\ sieve \in {"ALL", "UNREAD"} /\ chosen \in Talks \cup {NoTalk}
      /\ TRUE \in BOOLEAN /\ (sheet' = NoTalk \/ sheet' \in [of : Talks, is : {"read", "unread"}])
  BY <1>1, <1>2 DEF SheetOK
<1>4. SheetOK' /\ line' = line BY <1>1, <1>2, <1>3, ShowsKeepsSheet
<1>5. RowsOK' BY <1>1, <1>2, <1>4, RefreshKeepsRows
<1> QED BY <1>4, <1>5, InTwoNext

LEMMA ComposeStep ==
  ASSUME InboxInv, NEW t \in Talks, Compose(t)
  PROVE  InboxInv'
<1>1. SheetOK /\ talk \in [Talks -> ReadStates] BY InTwo DEF RowsOK, RowsTypeOK
<1>2. Shows(line, sieve, t, TRUE) /\ UNCHANGED <<sheet, marking, marked>>
      /\ talk' = [talk EXCEPT ![t] = "read"]
      /\ loads < MaxLoads /\ loads' = loads + 1 /\ met' = (met \/ Meeting({}))
      /\ listAsk' = [NoList EXCEPT !.pc = "sent"]
  BY DEF Compose
<1>3. line \in [Talks -> ReadStates] /\ sieve \in {"ALL", "UNREAD"} /\ t \in Talks \cup {NoTalk}
      /\ TRUE \in BOOLEAN /\ (sheet' = NoTalk \/ sheet' \in [of : Talks, is : {"read", "unread"}])
  BY <1>1, <1>2 DEF SheetOK
<1>4. SheetOK' /\ line' = line BY <1>1, <1>2, <1>3, ShowsKeepsSheet
<1>5. talk' \in [Talks -> ReadStates] BY <1>1, <1>2 DEF ReadStates
<1>6. RowsOK' BY <1>2, <1>4, <1>5, RefreshKeepsRows
<1> QED BY <1>4, <1>6, InTwoNext

LEMMA OpenStep ==
  ASSUME InboxInv, NEW t \in Talks, OpenConversation(t)
  PROVE  InboxInv'
<1>1. SheetOK /\ RowsOK BY InTwo
<1>2. Shows(line, sieve, t, FALSE) /\ UNCHANGED <<talk, sheet, listAsk, loads>>
      /\ ((\E k \in Markings : Asks(k, t, "read")) \/ UNCHANGED <<marking, marked, met>>)
  BY DEF OpenConversation
<1>3. line \in [Talks -> ReadStates] /\ sieve \in {"ALL", "UNREAD"} /\ t \in Talks \cup {NoTalk}
      /\ FALSE \in BOOLEAN /\ (sheet' = NoTalk \/ sheet' \in [of : Talks, is : {"read", "unread"}])
  BY <1>1, <1>2 DEF SheetOK
<1>4. SheetOK' /\ line' = line BY <1>1, <1>2, <1>3, ShowsKeepsSheet
<1>5. CASE \E k \in Markings : Asks(k, t, "read")
  <2>1. PICK k \in Markings : Asks(k, t, "read") BY <1>5
  <2>2. t \in Talks \cup {NoTalk, "all"} /\ "read" \in {"read", "unread"} OBVIOUS
  <2>3. RowsOK' BY <1>1, <1>2, <1>4, <2>1, <2>2, AskingKeepsRows
  <2> QED BY <1>4, <2>3, InTwoNext
<1>6. CASE UNCHANGED <<marking, marked, met>>
  <2>1. RowsOK'
    BY <1>1, <1>2, <1>4, <1>6 DEF RowsOK, RowsTypeOK, ListIsCurrent, ListOK, Meeting, Current, Becomes
  <2> QED BY <1>4, <2>1, InTwoNext
<1> QED BY <1>2, <1>5, <1>6

LEMMA AskedStep ==
  ASSUME InboxInv, NEW k \in Markings, MarkSheet(k) \/ MarkAllRead(k)
  PROVE  InboxInv'
<1>1. SheetOK /\ RowsOK BY InTwo
<1>2. UNCHANGED <<talk, line, chosen, sieve, sheet, spins, listAsk, sheetAsk, loads>>
  BY DEF MarkSheet, MarkAllRead
<1>3. \E of \in Talks \cup {NoTalk, "all"} : \E to \in {"read", "unread"} : Asks(k, of, to)
  <2>1. CASE MarkSheet(k)
    <3>1. sheet.of \in Talks BY <1>1, <2>1 DEF MarkSheet, SheetOK
    <3> QED BY <2>1, <3>1 DEF MarkSheet
  <2>2. CASE MarkAllRead(k) BY <2>2 DEF MarkAllRead
  <2> QED BY <2>1, <2>2
<1>4. RowsOK' BY <1>1, <1>2, <1>3, AskingKeepsRows
<1>5. SheetOK' BY <1>1, <1>2, SheetRests
<1> QED BY <1>4, <1>5, InTwoNext

LEMMA FilterStep ==
  ASSUME InboxInv, Filter
  PROVE  InboxInv'
<1>1. SheetOK /\ RowsOK BY InTwo
<1>2. UNCHANGED <<talk, sheet, listAsk, marking, marked, loads, met>> BY DEF Filter
<1>3. PICK filter \in {"ALL", "UNREAD"} : Shows(line, filter, chosen, FALSE) BY DEF Filter
<1>4. line \in [Talks -> ReadStates] /\ chosen \in Talks \cup {NoTalk}
      /\ FALSE \in BOOLEAN /\ (sheet' = NoTalk \/ sheet' \in [of : Talks, is : {"read", "unread"}])
  BY <1>1, <1>2 DEF SheetOK
<1>5. SheetOK' /\ line' = line BY <1>1, <1>3, <1>4, ShowsKeepsSheet
<1>6. RowsOK'
  BY <1>1, <1>2, <1>5 DEF RowsOK, RowsTypeOK, ListIsCurrent, ListOK, Meeting, Current, Becomes
<1> QED BY <1>5, <1>6, InTwoNext

LEMMA AnswerStep ==
  ASSUME InboxInv, NEW k \in Markings, WriteMark(k) \/ ShowMark(k) \/ LoseMark(k)
  PROVE  InboxInv'
<1>1. SheetOK /\ RowsTypeOK BY InTwo DEF RowsOK
<1>2. CASE WriteMark(k)
  BY <1>1, <1>2, WritingKeepsRows, SheetRests, InTwoNext DEF WriteMark
<1>3. CASE ShowMark(k)
  <2>1. RowsOK' BY <1>3, ShownMarkKeepsRows
  <2>2. Shows(Becomes(line, k), sieve, chosen, FALSE) BY <1>3 DEF ShowMark
  <2>3. line \in [Talks -> ReadStates] /\ sieve \in {"ALL", "UNREAD"}
        /\ chosen \in Talks \cup {NoTalk} /\ FALSE \in BOOLEAN
    BY <1>1 DEF SheetOK
  <2>4. Becomes(line, k) \in [Talks -> ReadStates] BY <1>1, <2>3, BecomesIs
  <2>5. sheet' = NoTalk \/ sheet' \in [of : Talks, is : {"read", "unread"}]
    BY <1>1, <1>3 DEF ShowMark, SheetOK, RowsTypeOK
  <2>6. SheetOK' BY <1>1, <2>2, <2>3, <2>4, <2>5, ShowsKeepsSheet
  <2> QED BY <2>1, <2>6, InTwoNext
<1>4. CASE LoseMark(k)
  BY <1>1, <1>4, LosingKeepsRows, SheetRests, InTwoNext DEF LoseMark
<1> QED BY <1>2, <1>3, <1>4

LEMMA InboxStep == InboxInv /\ [InboxNext]_inboxVars => InboxInv'
<1> SUFFICES ASSUME InboxInv, [InboxNext]_inboxVars PROVE InboxInv' OBVIOUS
<1>1. SheetOK /\ RowsOK BY InTwo
<1>2. CASE UNCHANGED inboxVars
  <2>1. SheetOK' BY <1>1, <1>2, SheetRests DEF inboxVars
  <2>2. RowsOK'
    BY <1>1, <1>2 DEF inboxVars, RowsOK, RowsTypeOK, ListIsCurrent, ListOK, Meeting, Current, Becomes
  <2> QED BY <2>1, <2>2, InTwoNext
<1>3. CASE ListRead \/ ListShown \/ ListLost BY <1>3, ListSteps
<1>4. CASE Refresh BY <1>4, RefreshStep
<1>5. CASE SheetRead \/ SheetShown \/ SheetLost BY <1>5, SheetStep
<1>6. CASE Filter BY <1>6, FilterStep
<1>7. ASSUME NEW t \in Talks, Compose(t) \/ Notify(t) \/ OpenConversation(t) PROVE InboxInv'
  <2>1. CASE Notify(t)
    BY <1>1, <2>1, NotifyKeepsRows, SheetRests, InTwoNext DEF Notify
  <2> QED BY <1>7, <2>1, ComposeStep, OpenStep
<1>8. ASSUME NEW k \in Markings,
             MarkSheet(k) \/ MarkAllRead(k) \/ WriteMark(k) \/ ShowMark(k) \/ LoseMark(k)
      PROVE  InboxInv'
  BY <1>8, AskedStep, AnswerStep
<1> QED BY <1>2, <1>3, <1>4, <1>5, <1>6, <1>7, <1>8 DEF InboxNext

LEMMA InboxStarts == InboxInit => InboxInv
<1> SUFFICES ASSUME InboxInit PROVE InboxInv OBVIOUS
<1>1. NoList.rows \in [Talks -> ReadStates] /\ [NoList EXCEPT !.pc = "sent"].pc = "sent"
      /\ [NoList EXCEPT !.pc = "sent"] \in [pc : {"idle", "sent", "read"}, rows : [Talks -> ReadStates]]
  BY DEF NoList, ReadStates
<1>2. Blank.pc = "idle" /\ Blank \in SheetAsks BY DEF Blank, SheetAsks, ReadStates
<1>3. SheetOK
  BY <1>1, <1>2 DEF InboxInit, SheetOK, SpinnerIsAnswered, SheetIsPicked, SheetAskOK
<1>4. RowsTypeOK
  <2>1. 0 \in 0..MaxLoads BY InboxAssumption
  <2>2. Unmarked \in [pc : {"none", "sent", "written", "over"}, of : Talks \cup {NoTalk, "all"},
                      to : {"read", "unread"}]
    BY DEF Unmarked
  <2> QED BY <1>1, <2>1, <2>2 DEF InboxInit, RowsTypeOK
<1>5. listAsk.pc = "sent" /\ \A k \in Markings : marking[k].pc = "none"
  BY <1>1 DEF InboxInit, Unmarked
<1>6. ListIsCurrent /\ ListOK BY <1>5 DEF ListIsCurrent, ListOK, Meeting
<1> QED BY <1>3, <1>4, <1>6, InTwo DEF RowsOK

(* The panel shows a spinner only while it waits for the conversation that *)
(* is selected, and, unless a reply was lost or two requests met, lists    *)
(* every conversation as read or unread as the database has it.            *)
THEOREM InboxCorrect == InboxSpec => []InboxInv
<1>1. InboxInit => InboxInv BY InboxStarts
<1>2. InboxInv /\ [InboxNext]_inboxVars => InboxInv' BY InboxStep
<1> QED BY <1>1, <1>2, PTL DEF InboxSpec

-----------------------------------------------------------------------------
(* Checklist and submissions.                                               *)

(* What holds whatever fails, and is inductive alone.                      *)
ProgressStands ==
  ProgressTypeOK /\ LatestOutcomeStands /\ TicksStand /\ EditsOK /\ RecordsAgree

Statuses == {"MISSING", "OPTIONAL", "FOUND", "COMPLETE"}

LEMMA ItemStatusIs ==
  ASSUME NEW view, NEW i
  PROVE  /\ ItemStatus(view, i) \in Statuses
         /\ i \in view.ticked => ItemStatus(view, i) = "COMPLETE"
         /\ ItemStatus(view, i) = "FOUND" => Supporting(view, i) # {}
         /\ Supporting(view, i) # {} => ItemStatus(view, i) \in {"FOUND", "COMPLETE"}
BY DEF ItemStatus, Statuses

LEMMA AnalyzedStatusIs ==
  ASSUME NEW view \in Views
  PROVE  /\ AnalyzedStatus(view) \in CaseStatuses
         /\ view.status \notin Ongoing => AnalyzedStatus(view) = view.status
         /\ view.status \in Ongoing => AnalyzedStatus(view) \in Ongoing
BY DEF AnalyzedStatus, Views, CaseStatuses, Ongoing

LEMMA CaseStatusForIs ==
  ASSUME NEW outcome
  PROVE  CaseStatusFor(outcome) \in CaseStatuses
BY DEF CaseStatusFor, CaseStatuses, Ongoing

LEMMA NoEditIs ==
  /\ NoEdit \in EditStates /\ NoEdit.pc = "idle" /\ NoEdit.tick = Null /\ NoEdit.round = 0
  /\ [NoEdit EXCEPT !.pc = "done"] \in EditStates
  /\ [NoEdit EXCEPT !.pc = "done"].pc = "done" /\ [NoEdit EXCEPT !.pc = "done"].tick = Null
  /\ Analysis \in EditStates /\ Analysis.pc = "read" /\ Analysis.tick = Null
<1>1. 0 \in 0..MaxRounds /\ Null \in Outcomes \cup {Null} /\ Null \in Items \cup {Null}
      /\ Null \in Views \cup {Null} /\ {} \subseteq Matches
  BY ProgressAssumption
<1>2. NoEdit \in EditStates BY <1>1 DEF NoEdit, EditStates
<1>3. NoEdit.pc = "idle" /\ NoEdit.tick = Null /\ NoEdit.round = 0 BY DEF NoEdit
<1>4. ASSUME NEW pc \in {"done", "read"}
      PROVE  /\ [NoEdit EXCEPT !.pc = pc] \in EditStates
             /\ [NoEdit EXCEPT !.pc = pc].pc = pc /\ [NoEdit EXCEPT !.pc = pc].tick = Null
  BY <1>2, <1>3 DEF EditStates
<1> QED BY <1>2, <1>3, <1>4 DEF Analysis

LEMMA Counted == ProgressTypeOK => LatestRound \in Nat /\ Recorded \subseteq Rounds
<1> SUFFICES ASSUME ProgressTypeOK PROVE LatestRound \in Nat /\ Recorded \subseteq Rounds
  OBVIOUS
<1>1. IsFiniteSet(Rounds) BY FS_Interval, ProgressAssumption DEF Rounds
<1>2. Recorded \subseteq Rounds BY DEF Recorded
<1>3. IsFiniteSet(Recorded) BY <1>1, <1>2, FS_Subset
<1> QED BY <1>2, <1>3, FS_CardinalityType DEF LatestRound

-----------------------------------------------------------------------------
(* A step of request q, which then is r.                                   *)
LEMMA EditsMove ==
  ASSUME ProgressTypeOK, EditsOK, NEW q \in Edits, NEW r \in EditStates,
         edit' = [edit EXCEPT ![q] = r], LatestRound' \in Nat, LatestRound <= LatestRound',
         EditOK(r, LatestRound', Ticked'), r.tick # Null => ~Locked(q),
         Locked(q) => Ticked' = Ticked
  PROVE  EditsOK' /\ edit' \in [Edits -> EditStates]
<1>1. edit \in [Edits -> EditStates] /\ LatestRound \in Nat BY Counted DEF ProgressTypeOK
<1>2. edit'[q] = r /\ \A p \in Edits : p # q => edit'[p] = edit[p] BY <1>1
<1>3. ASSUME NEW p \in Edits, p # q
      PROVE  EditOK(edit'[p], LatestRound', Ticked') /\ (edit'[p].tick # Null => ~Locked(p)')
  <2>1. edit'[p] = edit[p] BY <1>2, <1>3
  <2>2. EditOK(edit[p], LatestRound, Ticked) /\ (edit[p].tick # Null => ~Locked(p)) BY DEF EditsOK
  <2>3. edit[p].tick # Null => Locked(q) BY <1>3 DEF Locked
  <2>4. edit[p].tick # Null => r.tick = Null BY <2>3
  <2>5. edit[p].tick # Null => ~Locked(p)' BY <1>2, <2>2, <2>4 DEF Locked
  <2>6. EditOK(edit[p], LatestRound', Ticked')
    <3>1. EditOK(edit[p], LatestRound', Ticked)
      BY <1>1, <2>2 DEF EditOK
    <3>2. CASE edit[p].tick = Null BY <3>1, <3>2 DEF EditOK
    <3>3. CASE edit[p].tick # Null BY <3>1, <3>3, <2>3
    <3> QED BY <3>2, <3>3
  <2> QED BY <2>1, <2>5, <2>6
<1>4. r.tick # Null => ~Locked(q)' BY <1>2 DEF Locked
<1> QED BY <1>1, <1>2, <1>3, <1>4 DEF EditsOK

(* A step that leaves the rounds and the checklist as they are.            *)
LEMMA EditsRest ==
  ASSUME ProgressTypeOK, EditsOK, UNCHANGED <<round, checklist>>
  PROVE  /\ LatestRound' = LatestRound /\ Ticked' = Ticked /\ Recorded' = Recorded
         /\ LatestRound' \in Nat /\ LatestRound <= LatestRound'
         /\ edit' = edit => EditsOK'
<1>1. Recorded' = Recorded /\ Ticked' = Ticked BY DEF Recorded, Ticked
<1>2. LatestRound' = LatestRound BY <1>1 DEF LatestRound
<1>3. LatestRound \in Nat BY Counted
<1>4. ASSUME edit' = edit PROVE EditsOK'
  BY <1>1, <1>2, <1>4 DEF EditsOK, Locked
<1> QED BY <1>1, <1>2, <1>3, <1>4

(* Nothing that the outcome is about changes, or the case stays Ongoing.   *)
LEMMA OutcomeIsLeft ==
  ASSUME FollowsOutcome, UNCHANGED <<round, moved>>,
         appeal'.status = appeal.status \/ {appeal.status, appeal'.status} \subseteq Ongoing
  PROVE  FollowsOutcome'
<1>1. LatestRound' = LatestRound BY DEF LatestRound, Recorded
<1> QED BY <1>1 DEF FollowsOutcome

LEMMA OutcomeRests ==
  ASSUME LatestOutcomeStands, UNCHANGED <<round, moved>>, stale => stale',
         appeal'.status = appeal.status \/ {appeal.status, appeal'.status} \subseteq Ongoing
  PROVE  LatestOutcomeStands'
BY OutcomeIsLeft DEF LatestOutcomeStands

(* A step that changes at most a request, the documents and the matches.   *)
LEMMA OnlyEditMoves ==
  ASSUME ProgressStands, NEW q \in Edits, NEW r \in EditStates,
         edit' = [edit EXCEPT ![q] = r], EditOK(r, LatestRound, Ticked), r.tick # Null => ~Locked(q),
         UNCHANGED <<appeal, checklist, round, stale, moved>>,
         ready' \subseteq Evidence, deleted' \subseteq Evidence, matches' \subseteq Matches,
         ready' \cap deleted' = {}
  PROVE  ProgressStands'
<1>1. ProgressTypeOK /\ EditsOK BY DEF ProgressStands
<1>2. /\ LatestRound' = LatestRound /\ Ticked' = Ticked /\ Recorded' = Recorded
      /\ LatestRound' \in Nat /\ LatestRound <= LatestRound'
  BY <1>1, EditsRest
<1>3. EditOK(r, LatestRound', Ticked') BY <1>2
<1>4. EditsOK' /\ edit' \in [Edits -> EditStates] BY <1>1, <1>2, <1>3, EditsMove
<1>5. ProgressTypeOK' BY <1>1, <1>4 DEF ProgressTypeOK
<1>6. LatestOutcomeStands' BY OutcomeRests DEF ProgressStands
<1>7. TicksStand' BY <1>2 DEF ProgressStands, TicksStand
<1>8. RecordsAgree' BY <1>2 DEF ProgressStands, RecordsAgree
<1> QED BY <1>4, <1>5, <1>6, <1>7, <1>8 DEF ProgressStands

(* A step that only changes a request.                                     *)
LEMMA OnlyEditMovesAlone ==
  ASSUME ProgressStands, NEW q \in Edits, NEW r \in EditStates,
         edit' = [edit EXCEPT ![q] = r], EditOK(r, LatestRound, Ticked), r.tick # Null => ~Locked(q),
         UNCHANGED <<appeal, ready, deleted, checklist, matches, round, stale, moved>>
  PROVE  ProgressStands'
<1>1. ready' \subseteq Evidence /\ deleted' \subseteq Evidence /\ matches' \subseteq Matches
      /\ ready' \cap deleted' = {}
  BY DEF ProgressStands, ProgressTypeOK, RecordsAgree
<1>2. UNCHANGED <<appeal, checklist, round, stale, moved>> OBVIOUS
<1> QED BY <1>1, <1>2, OnlyEditMoves

LEMMA StartRoundStands ==
  ASSUME ProgressStands, NEW q \in Edits, StartRound(q)
  PROVE  ProgressStands'
<1>1. LatestRound \in Nat /\ LatestRound < MaxRounds
  BY Counted DEF ProgressStands, StartRound
<1>2. LatestRound + 1 \in 0..MaxRounds BY <1>1, ProgressAssumption
<1>3. PICK r \in EditStates : r = [NoEdit EXCEPT !.pc = "submit", !.round = LatestRound + 1]
  BY <1>2, NoEditIs DEF EditStates
<1>4. r.pc = "submit" /\ r.round = LatestRound + 1 /\ r.tick = Null
  BY <1>3, NoEditIs DEF EditStates
<1>5. EditOK(r, LatestRound, Ticked) BY <1>1, <1>4 DEF EditOK
<1>6. edit' = [edit EXCEPT ![q] = r]
      /\ UNCHANGED <<appeal, ready, deleted, checklist, matches, round, stale, moved>>
  BY <1>3 DEF StartRound, Send
<1> QED BY <1>4, <1>5, <1>6, OnlyEditMovesAlone

LEMMA AddUpdateStands ==
  ASSUME ProgressStands, NEW q \in Edits, AddUpdate(q)
  PROVE  ProgressStands'
<1>1. PICK n \in Recorded, outcome \in Outcomes \cup {Null} :
        Send(q, [NoEdit EXCEPT !.pc = "latest", !.round = n, !.outcome = outcome])
  BY DEF AddUpdate
<1>2. n \in 1..LatestRound /\ n \in 0..MaxRounds
  BY <1>1, Counted, ProgressAssumption DEF ProgressStands, RecordsAgree, Rounds
<1>3. PICK r \in EditStates : r = [NoEdit EXCEPT !.pc = "latest", !.round = n, !.outcome = outcome]
  BY <1>2, NoEditIs DEF EditStates
<1>4. r.pc = "latest" /\ r.round = n /\ r.tick = Null BY <1>3, NoEditIs DEF EditStates
<1>5. EditOK(r, LatestRound, Ticked) BY <1>2, <1>4 DEF EditOK
<1>6. edit' = [edit EXCEPT ![q] = r]
      /\ UNCHANGED <<appeal, ready, deleted, checklist, matches, round, stale, moved>>
  BY <1>1, <1>3 DEF AddUpdate, Send
<1> QED BY <1>4, <1>5, <1>6, OnlyEditMovesAlone

LEMMA ReadLatestRoundStands ==
  ASSUME ProgressStands, NEW q \in Edits, ReadLatestRound(q)
  PROVE  ProgressStands'
<1>1. edit[q] \in EditStates /\ LatestRound \in Nat /\ Recorded \subseteq Rounds
      /\ Recorded = 1..LatestRound
  BY Counted DEF ProgressStands, ProgressTypeOK, RecordsAgree
<1>2. LatestRound \in 0..MaxRounds BY <1>1, ProgressAssumption DEF Rounds
<1>3. EditOK(edit[q], LatestRound, Ticked) /\ (edit[q].tick # Null => ~Locked(q))
      /\ edit[q].pc = "latest"
  BY DEF ProgressStands, EditsOK, ReadLatestRound, At
<1>4. PICK r \in EditStates : r = [edit[q] EXCEPT !.pc = "update", !.latest = LatestRound]
  BY <1>1, <1>2 DEF EditStates
<1>5. r.pc = "update" /\ r.round = edit[q].round /\ r.tick = edit[q].tick
  BY <1>1, <1>4 DEF EditStates
<1>6. EditOK(r, LatestRound, Ticked) BY <1>3, <1>5 DEF EditOK
<1>7. edit' = [edit EXCEPT ![q] = r]
      /\ UNCHANGED <<appeal, ready, deleted, checklist, matches, round, stale, moved>>
  BY <1>4 DEF ReadLatestRound
<1> QED BY <1>3, <1>5, <1>6, <1>7, OnlyEditMovesAlone

LEMMA AnalyzeStands ==
  ASSUME ProgressStands, NEW q \in Edits, Analyze(q)
  PROVE  ProgressStands'
<1>1. edit' = [edit EXCEPT ![q] = Analysis]
      /\ UNCHANGED <<appeal, ready, deleted, checklist, matches, round, stale, moved>>
  BY DEF Analyze, Send
<1>2. EditOK(Analysis, LatestRound, Ticked) BY NoEditIs DEF EditOK
<1> QED BY <1>1, <1>2, NoEditIs, OnlyEditMovesAlone

LEMMA TickItemStands ==
  ASSUME ProgressStands, NEW q \in Edits, NEW i \in Items, NEW completed \in BOOLEAN,
         TickItem(q, i, completed)
  PROVE  ProgressStands'
<1>. Analysis \in EditStates /\ Analysis.pc = "read" /\ i \in Items \cup {Null} BY NoEditIs
<1>1. PICK r \in EditStates : r = [Analysis EXCEPT !.tick = i, !.completed = completed]
  <2>1. [Analysis EXCEPT !.tick = i, !.completed = completed] \in EditStates BY DEF EditStates
  <2> QED BY <2>1
<1>2. r.pc = "read" BY <1>1 DEF EditStates
<1>3. EditOK(r, LatestRound, Ticked) BY <1>2 DEF EditOK
<1>4. edit' = [edit EXCEPT ![q] = r] /\ ~Locked(q)
      /\ UNCHANGED <<appeal, ready, deleted, checklist, matches, round, stale, moved>>
  BY <1>1 DEF TickItem, Send
<1> QED BY <1>3, <1>4, OnlyEditMovesAlone

LEMMA ViewIs ==
  ASSUME ProgressTypeOK
  PROVE  View \in Views /\ View.status = appeal.status /\ View.ready = ready /\ View.ticked = Ticked
BY DEF ProgressTypeOK, View, Views, Ticked

LEMMA ReadCaseIs ==
  ASSUME ProgressStands, NEW q \in Edits, ReadCase(q)
  PROVE  \E r \in EditStates :
           /\ edit' = [edit EXCEPT ![q] = r] /\ EditOK(r, LatestRound, Ticked)
           /\ r.tick # Null => ~Locked(q)
           /\ \/ r.pc = "done" /\ appeal.archived
              \/ r.pc = "clear" /\ r.view.ready = ready
<1>1. ProgressTypeOK /\ EditsOK /\ edit[q] \in EditStates BY DEF ProgressStands, ProgressTypeOK
<1>2. CASE appeal.archived
  <2>1. edit' = [edit EXCEPT ![q] = [NoEdit EXCEPT !.pc = "done"]] BY <1>2 DEF ReadCase, Finish
  <2>2. EditOK([NoEdit EXCEPT !.pc = "done"], LatestRound, Ticked) BY NoEditIs DEF EditOK
  <2> QED BY <1>2, <2>1, <2>2, NoEditIs
<1>3. CASE ~appeal.archived
  <2> DEFINE ticked == IF edit[q].tick = Null THEN Ticked
                       ELSE IF edit[q].completed THEN Ticked \cup {edit[q].tick}
                       ELSE Ticked \ {edit[q].tick}
  <2>1. ticked \subseteq Items
    <3>1. edit[q].tick \in Items \cup {Null} BY <1>1 DEF EditStates
    <3> QED BY <3>1 DEF Ticked
  <2>2. PICK view \in Views : view = [View EXCEPT !.ticked = ticked]
    BY <1>1, <2>1, ViewIs DEF Views
  <2>3. view.ready = ready /\ view.ticked = ticked BY <1>1, <2>2, ViewIs DEF Views
  <2>4. PICK r \in EditStates : r = [edit[q] EXCEPT !.pc = "clear", !.view = view]
    BY <1>1, <2>2 DEF EditStates
  <2>5. r.pc = "clear" /\ r.view = view /\ r.tick = edit[q].tick /\ r.completed = edit[q].completed
    BY <1>1, <2>4 DEF EditStates
  <2>6. EditOK(r, LatestRound, Ticked) BY <2>3, <2>5 DEF EditOK
  <2>7. edit' = [edit EXCEPT ![q] = r]
    <3>1. ticked = CASE edit[q].tick = Null -> Ticked
                     [] edit[q].tick # Null /\ edit[q].completed -> Ticked \cup {edit[q].tick}
                     [] OTHER -> Ticked \ {edit[q].tick}
      OBVIOUS
    <3> QED BY <1>3, <2>2, <2>4, <3>1 DEF ReadCase
  <2>8. edit[q].tick # Null => ~Locked(q) BY <1>1 DEF EditsOK
  <2> QED BY <2>3, <2>5, <2>6, <2>7, <2>8
<1> QED BY <1>2, <1>3

LEMMA ReadCaseStands ==
  ASSUME ProgressStands, NEW q \in Edits, ReadCase(q)
  PROVE  ProgressStands'
<1>1. PICK r \in EditStates :
        edit' = [edit EXCEPT ![q] = r] /\ EditOK(r, LatestRound, Ticked) /\ (r.tick # Null => ~Locked(q))
  BY ReadCaseIs
<1>2. UNCHANGED <<appeal, ready, deleted, checklist, matches, round, stale, moved>> BY DEF ReadCase
<1> QED BY <1>1, <1>2, OnlyEditMovesAlone

LEMMA ClearMatchesIs ==
  ASSUME ProgressStands, NEW q \in Edits, ClearMatches(q)
  PROVE  \E r \in EditStates :
           /\ edit' = [edit EXCEPT ![q] = r] /\ EditOK(r, LatestRound, Ticked)
           /\ r.tick # Null => ~Locked(q)
           /\ edit[q].pc = "clear" /\ r.pc = "write" /\ r.view = edit[q].view
<1>1. edit[q] \in EditStates /\ matches \subseteq Matches BY DEF ProgressStands, ProgressTypeOK
<1>2. EditOK(edit[q], LatestRound, Ticked) /\ (edit[q].tick # Null => ~Locked(q))
      /\ edit[q].pc = "clear"
  BY DEF ProgressStands, EditsOK, ClearMatches, At
<1>3. PICK r \in EditStates : r = [edit[q] EXCEPT !.pc = "write", !.seen = matches]
  BY <1>1 DEF EditStates
<1>4. /\ r.pc = "write" /\ r.view = edit[q].view /\ r.tick = edit[q].tick
      /\ r.completed = edit[q].completed
  BY <1>1, <1>3 DEF EditStates
<1>5. EditOK(r, LatestRound, Ticked) BY <1>2, <1>4 DEF EditOK
<1>6. edit' = [edit EXCEPT ![q] = r] BY <1>3 DEF ClearMatches
<1> QED BY <1>2, <1>4, <1>5, <1>6

LEMMA ClearMatchesStands ==
  ASSUME ProgressStands, NEW q \in Edits, ClearMatches(q)
  PROVE  ProgressStands'
<1>1. PICK r \in EditStates :
        edit' = [edit EXCEPT ![q] = r] /\ EditOK(r, LatestRound, Ticked) /\ (r.tick # Null => ~Locked(q))
  BY ClearMatchesIs
<1>2. UNCHANGED <<appeal, ready, deleted, checklist, matches, round, stale, moved>>
  BY DEF ClearMatches
<1> QED BY <1>1, <1>2, OnlyEditMovesAlone

(* The steps of the documents.                                             *)
LEMMA EvidenceStands ==
  ASSUME ProgressStands, NEW e \in Evidence,
         (\E q \in Edits : ProcessEvidence(q, e) \/ DeleteEvidence(q, e)) \/ ReprocessEvidence(e)
  PROVE  ProgressStands'
<1>1. ready \subseteq Evidence /\ deleted \subseteq Evidence /\ matches \subseteq Matches
      /\ ready \cap deleted = {}
  BY DEF ProgressStands, ProgressTypeOK, RecordsAgree
<1>2. ASSUME NEW q \in Edits, ProcessEvidence(q, e) \/ DeleteEvidence(q, e) PROVE ProgressStands'
  <2>1. /\ edit' = [edit EXCEPT ![q] = Analysis]
        /\ UNCHANGED <<appeal, checklist, round, stale, moved>>
        /\ ready' \subseteq Evidence /\ deleted' \subseteq Evidence /\ matches' \subseteq Matches
        /\ ready' \cap deleted' = {}
    BY <1>1, <1>2 DEF ProcessEvidence, DeleteEvidence, Send
  <2>2. EditOK(Analysis, LatestRound, Ticked) BY NoEditIs DEF EditOK
  <2> QED BY <2>1, <2>2, NoEditIs, OnlyEditMoves
<1>3. CASE ReprocessEvidence(e)
  <2>1. /\ UNCHANGED <<appeal, deleted, checklist, matches, round, edit, stale, moved>>
        /\ ready' \subseteq Evidence /\ ready' \cap deleted' = {}
    BY <1>1, <1>3 DEF ReprocessEvidence
  <2>2. ProgressTypeOK /\ EditsOK /\ LatestOutcomeStands BY DEF ProgressStands
  <2>3. ProgressTypeOK' BY <2>1, <2>2 DEF ProgressTypeOK
  <2>4. LatestOutcomeStands' BY <2>1, <2>2, OutcomeRests
  <2>5. /\ EditsOK' /\ Ticked' = Ticked /\ Recorded' = Recorded /\ LatestRound' = LatestRound
    BY <2>1, <2>2, EditsRest
  <2>6. TicksStand' /\ RecordsAgree' BY <2>1, <2>5 DEF ProgressStands, TicksStand, RecordsAgree
  <2> QED BY <2>3, <2>4, <2>5, <2>6 DEF ProgressStands
<1> QED BY <1>2, <1>3

-----------------------------------------------------------------------------
(* The steps of the rounds and of the case.                                *)

Done == [NoEdit EXCEPT !.pc = "done"]

LEMMA FinishStands ==
  ASSUME ProgressTypeOK, EditsOK, NEW q \in Edits, Finish(q), LatestRound' \in Nat,
         LatestRound <= LatestRound', Locked(q) => Ticked' = Ticked
  PROVE  EditsOK' /\ edit' \in [Edits -> EditStates]
<1>1. Done \in EditStates /\ Done.pc = "done" /\ Done.tick = Null BY NoEditIs DEF Done
<1>2. EditOK(Done, LatestRound', Ticked') BY <1>1 DEF EditOK
<1>3. edit' = [edit EXCEPT ![q] = Done] BY DEF Finish, Done
<1> QED BY <1>1, <1>2, <1>3, EditsMove

(* A request that fails changes nothing but itself.                        *)
LEMMA FailedStands ==
  ASSUME ProgressStands, NEW q \in Edits, Finish(q),
         UNCHANGED <<appeal, ready, deleted, checklist, matches, round, stale, moved>>
  PROVE  ProgressStands'
<1>1. Done \in EditStates /\ Done.pc = "done" /\ Done.tick = Null BY NoEditIs DEF Done
<1>2. EditOK(Done, LatestRound, Ticked) BY <1>1 DEF EditOK
<1>3. edit' = [edit EXCEPT ![q] = Done] BY DEF Finish, Done
<1> QED BY <1>1, <1>2, <1>3, OnlyEditMovesAlone

LEMMA FinishIsDone ==
  ASSUME ProgressTypeOK, NEW q \in Edits, Finish(q)
  PROVE  At(q, "done")'
<1>1. Done.pc = "done" BY NoEditIs DEF Done
<1> QED BY <1>1 DEF ProgressTypeOK, Finish, Done, At

(* A round that is recorded is the latest one.                             *)
LEMMA RoundIsNext ==
  ASSUME ProgressStands, NEW q \in Edits, At(q, "submit"), round[edit[q].round] = Null,
         round' = [round EXCEPT ![edit[q].round] = "SUBMITTED"]
  PROVE  /\ edit[q].round \in Rounds /\ round' \in [Rounds -> Outcomes \cup {Null}]
         /\ LatestRound' = LatestRound + 1 /\ LatestRound' = edit[q].round
         /\ Recorded' = 1..LatestRound'
<1> DEFINE n == edit[q].round
<1>1. ProgressTypeOK /\ EditsOK /\ Recorded = 1..LatestRound BY DEF ProgressStands, RecordsAgree
<1>2. LatestRound \in Nat /\ Recorded \subseteq Rounds BY <1>1, Counted
<1>3. n \in 0..MaxRounds /\ n \in 1..(LatestRound + 1)
  BY <1>1 DEF ProgressTypeOK, EditStates, EditsOK, EditOK, At
<1>4. n \in Rounds /\ n \notin Recorded BY <1>3, ProgressAssumption DEF Rounds, Recorded
<1>5. n = LatestRound + 1 BY <1>1, <1>2, <1>3, <1>4
<1>6. round \in [Rounds -> Outcomes \cup {Null}] /\ "SUBMITTED" \in Outcomes /\ "SUBMITTED" # Null
  BY <1>1, ProgressAssumption DEF ProgressTypeOK
<1>7. Recorded' = Recorded \cup {n} BY <1>4, <1>6 DEF Recorded
<1>8. IsFiniteSet(Recorded)
  <2>1. IsFiniteSet(Rounds) BY FS_Interval, ProgressAssumption DEF Rounds
  <2> QED BY <1>2, <2>1, FS_Subset
<1>9. Cardinality(Recorded \cup {n}) = Cardinality(Recorded) + 1 BY <1>4, <1>8, FS_AddElement
<1>10. LatestRound' = LatestRound + 1 BY <1>7, <1>9 DEF LatestRound
<1>11. round' \in [Rounds -> Outcomes \cup {Null}] BY <1>6
<1> HIDE DEF n
<1>12. LatestRound' = n BY <1>5, <1>10
<1>13. Recorded' = 1..LatestRound' BY <1>1, <1>2, <1>5, <1>7, <1>12
<1> QED BY <1>4, <1>10, <1>11, <1>12, <1>13 DEF n

(* A new round puts the case where it belongs.                             *)
LEMMA SubmittedFollows ==
  ASSUME ProgressStands, NEW q \in Edits, SubmitRound(q), round[edit[q].round] = Null,
         round' = [round EXCEPT ![edit[q].round] = "SUBMITTED"],
         appeal' = [appeal EXCEPT !.status = "SUBMITTED"]
  PROVE  FollowsOutcome'
<1>1. At(q, "submit") BY DEF SubmitRound
<1>2. edit[q].round \in Rounds /\ LatestRound' = edit[q].round BY <1>1, RoundIsNext
<1>3. round'[LatestRound'] = "SUBMITTED" BY <1>2 DEF ProgressStands, ProgressTypeOK
<1>4. appeal'.status = "SUBMITTED" BY DEF ProgressStands, ProgressTypeOK
<1>5. CaseStatusFor("SUBMITTED") = "SUBMITTED" BY DEF CaseStatusFor
<1>6. "SUBMITTED" \notin Ongoing BY DEF Ongoing
<1> QED BY <1>3, <1>4, <1>5, <1>6 DEF FollowsOutcome

(* An update that knows which round is the latest leaves the case there.   *)
LEMMA UpdateFollows ==
  ASSUME ProgressStands, NEW q \in Edits, CommitUpdate(q), edit[q].latest = LatestRound,
         FollowsOutcome
  PROVE  FollowsOutcome'
<1> DEFINE n == edit[q].round
           outcome == edit[q].outcome
           latest == edit[q].latest
<1>1. CASE UNCHANGED <<appeal, round, moved>> BY <1>1, OutcomeIsLeft
<1>2. CASE /\ round' = [round EXCEPT ![n] = IF outcome = Null THEN @ ELSE outcome]
           /\ IF MovesCase(n, outcome, latest)
                THEN appeal' = [appeal EXCEPT !.status = CaseStatusFor(outcome)] /\ moved' = FALSE
                ELSE UNCHANGED <<appeal, moved>>
  <2>1. ProgressTypeOK /\ EditsOK /\ Recorded = 1..LatestRound BY DEF ProgressStands, RecordsAgree
  <2>2. LatestRound \in Nat /\ Recorded \subseteq Rounds BY <2>1, Counted
  <2>3. n \in Recorded /\ n \in Rounds
    BY <2>1, <2>2 DEF ProgressTypeOK, EditStates, EditsOK, EditOK, CommitUpdate, At
  <2>4. round \in [Rounds -> Outcomes \cup {Null}] /\ outcome \in Outcomes \cup {Null}
    BY <2>1 DEF ProgressTypeOK, EditStates
  <2>5. /\ round'[n] = IF outcome = Null THEN round[n] ELSE outcome
        /\ \A m \in Rounds : m # n => round'[m] = round[m]
    BY <1>2, <2>3, <2>4
  <2>6. Recorded' = Recorded BY <1>2, <2>3, <2>4, <2>5, ProgressAssumption DEF Recorded
  <2>7. LatestRound' = LatestRound BY <2>6 DEF LatestRound
  <2>8. CASE MovesCase(n, outcome, latest)
    <3>1. n = LatestRound' /\ outcome # Null BY <2>7, <2>8 DEF MovesCase
    <3>2. appeal'.status = CaseStatusFor(outcome) BY <1>2, <2>1, <2>8 DEF ProgressTypeOK
    <3>3. round'[LatestRound'] = outcome BY <2>5, <3>1
    <3> QED BY <3>2, <3>3 DEF FollowsOutcome
  <2>9. CASE ~MovesCase(n, outcome, latest)
    <3>1. UNCHANGED <<appeal, moved>> BY <1>2, <2>9
    <3>2. LatestRound > 0 => LatestRound \in Rounds BY <2>1, <2>2
    <3>3. LatestRound > 0 => round'[LatestRound] = round[LatestRound]
      BY <2>5, <2>9, <3>2 DEF MovesCase
    <3> HIDE DEF n, outcome, latest
    <3> QED BY <2>7, <3>1, <3>3 DEF FollowsOutcome
  <2> QED BY <2>8, <2>9
<1> QED BY <1>1, <1>2 DEF CommitUpdate

LEMMA SubmitRoundStands ==
  ASSUME ProgressStands, NEW q \in Edits, SubmitRound(q)
  PROVE  ProgressStands'
<1> DEFINE n == edit[q].round
<1>1. Finish(q) /\ UNCHANGED <<ready, deleted, checklist, matches>> BY DEF SubmitRound
<1>2. CASE UNCHANGED <<appeal, round, moved, stale>> BY <1>1, <1>2, FailedStands
<1>3. CASE /\ round[n] = Null /\ round' = [round EXCEPT ![n] = "SUBMITTED"]
           /\ appeal' = [appeal EXCEPT !.status = "SUBMITTED"]
           /\ moved' = FALSE /\ stale' = (stale \/ appeal.archived)
  <2>1. ProgressTypeOK /\ EditsOK /\ ready \cap deleted = {} BY DEF ProgressStands, RecordsAgree
  <2>2. LatestRound \in Nat BY <2>1, Counted
  <2>3. At(q, "submit") BY DEF SubmitRound
  <2>4. /\ round' \in [Rounds -> Outcomes \cup {Null}]
        /\ LatestRound' = LatestRound + 1 /\ Recorded' = 1..LatestRound'
    BY <1>3, <2>3, RoundIsNext
  <2> HIDE DEF n
  <2>5. RecordsAgree' BY <1>1, <2>1, <2>4 DEF RecordsAgree
  <2>6. Ticked' = Ticked BY <1>1 DEF Ticked
  <2>7. EditsOK' /\ edit' \in [Edits -> EditStates]
    BY <1>1, <2>1, <2>2, <2>4, <2>6, FinishStands
  <2>8. appeal' \in [status : CaseStatuses, archived : BOOLEAN, summarized : BOOLEAN]
         /\ appeal'.status = "SUBMITTED"
    BY <1>3, <2>1 DEF ProgressTypeOK, CaseStatuses, Ongoing
  <2>9. stale' \in BOOLEAN /\ moved' \in BOOLEAN
    <3>1. stale \in BOOLEAN /\ appeal.archived \in BOOLEAN BY <2>1 DEF ProgressTypeOK
    <3> QED BY <1>3, <3>1, Zenon
  <2>10. ProgressTypeOK'
    <3>1. UNCHANGED <<ready, deleted, checklist, matches>> BY <1>1
    <3> QED BY <2>1, <2>4, <2>7, <2>8, <2>9, <3>1 DEF ProgressTypeOK
  <2>11. TicksStand' BY <1>1, <1>3, <2>6 DEF ProgressStands, TicksStand
  <2>12. LatestOutcomeStands' BY <1>3, SubmittedFollows DEF LatestOutcomeStands, n
  <2> QED BY <2>5, <2>7, <2>10, <2>11, <2>12 DEF ProgressStands
<1> QED BY <1>2, <1>3 DEF SubmitRound

LEMMA CommitUpdateStands ==
  ASSUME ProgressStands, NEW q \in Edits, CommitUpdate(q)
  PROVE  ProgressStands'
<1> DEFINE n == edit[q].round
           outcome == edit[q].outcome
           latest == edit[q].latest
<1>1. Finish(q) /\ UNCHANGED <<ready, deleted, checklist, matches>> BY DEF CommitUpdate
<1>2. CASE UNCHANGED <<appeal, round, moved, stale>> BY <1>1, <1>2, FailedStands
<1>3. CASE /\ round' = [round EXCEPT ![n] = IF outcome = Null THEN @ ELSE outcome]
           /\ IF MovesCase(n, outcome, latest)
                THEN appeal' = [appeal EXCEPT !.status = CaseStatusFor(outcome)] /\ moved' = FALSE
                ELSE UNCHANGED <<appeal, moved>>
           /\ stale' = (stale \/ appeal.archived \/ latest # LatestRound)
  <2>1. ProgressTypeOK /\ EditsOK /\ Recorded = 1..LatestRound /\ ready \cap deleted = {}
        /\ LatestOutcomeStands
    BY DEF ProgressStands, RecordsAgree
  <2>2. LatestRound \in Nat /\ Recorded \subseteq Rounds BY <2>1, Counted
  <2>3. n \in Recorded /\ n \in Rounds /\ outcome \in Outcomes \cup {Null}
    BY <2>1, <2>2 DEF ProgressTypeOK, EditStates, EditsOK, EditOK, CommitUpdate, At
  <2>4. round \in [Rounds -> Outcomes \cup {Null}] BY <2>1 DEF ProgressTypeOK
  <2>5. /\ round'[n] = IF outcome = Null THEN round[n] ELSE outcome
        /\ \A m \in Rounds : m # n => round'[m] = round[m]
        /\ round' \in [Rounds -> Outcomes \cup {Null}]
    BY <1>3, <2>3, <2>4
  <2>6. Recorded' = Recorded BY <2>3, <2>5, ProgressAssumption DEF Recorded
  <2>7. LatestRound' = LatestRound BY <2>6 DEF LatestRound
  <2>8. RecordsAgree' BY <1>1, <2>1, <2>6, <2>7 DEF RecordsAgree
  <2>9. Ticked' = Ticked BY <1>1 DEF Ticked
  <2>10. EditsOK' /\ edit' \in [Edits -> EditStates]
    BY <1>1, <2>1, <2>2, <2>7, <2>9, FinishStands
  <2>11. appeal' \in [status : CaseStatuses, archived : BOOLEAN, summarized : BOOLEAN]
         /\ (MovesCase(n, outcome, latest) => appeal'.status = CaseStatusFor(outcome))
    <3>1. appeal \in [status : CaseStatuses, archived : BOOLEAN, summarized : BOOLEAN]
      BY <2>1 DEF ProgressTypeOK
    <3>2. CaseStatusFor(outcome) \in CaseStatuses BY CaseStatusForIs
    <3> QED BY <1>3, <3>1, <3>2
  <2>12. stale' \in BOOLEAN /\ moved' \in BOOLEAN
    <3>1. stale \in BOOLEAN /\ appeal.archived \in BOOLEAN /\ moved \in BOOLEAN
      BY <2>1 DEF ProgressTypeOK
    <3> QED BY <1>3, <3>1, Zenon
  <2>13. ProgressTypeOK'
    <3>1. UNCHANGED <<ready, deleted, checklist, matches>> BY <1>1
    <3> QED BY <2>1, <2>5, <2>10, <2>11, <2>12, <3>1 DEF ProgressTypeOK
  <2>14. TicksStand' BY <1>1, <1>3, <2>9 DEF ProgressStands, TicksStand
  <2>15. LatestOutcomeStands'
    <3> SUFFICES ASSUME ~stale' PROVE FollowsOutcome' BY DEF LatestOutcomeStands
    <3>1. latest = LatestRound /\ FollowsOutcome BY <1>3, <2>1 DEF LatestOutcomeStands
    <3> QED BY <3>1, UpdateFollows
  <2> QED BY <2>8, <2>10, <2>13, <2>14, <2>15 DEF ProgressStands
<1> QED BY <1>2, <1>3 DEF CommitUpdate

LEMMA CaseStands ==
  ASSUME ProgressStands, EditCase("PACKET_GENERATED") \/ SummarizeCase \/ ArchiveAppeal
  PROVE  ProgressStands'
<1>1. ProgressTypeOK /\ EditsOK /\ LatestOutcomeStands BY DEF ProgressStands
<1>2. UNCHANGED <<ready, deleted, checklist, matches, round, edit, stale>>
  BY DEF EditCase, SummarizeCase, ArchiveAppeal
<1>3. /\ EditsOK' /\ Ticked' = Ticked /\ Recorded' = Recorded /\ LatestRound' = LatestRound
  BY <1>1, <1>2, EditsRest
<1>4. TicksStand' /\ RecordsAgree' BY <1>2, <1>3 DEF ProgressStands, TicksStand, RecordsAgree
<1>5. appeal' \in [status : CaseStatuses, archived : BOOLEAN, summarized : BOOLEAN] /\ moved' \in BOOLEAN
      /\ (moved' \/ (moved' = moved /\ appeal'.status = appeal.status))
  <2>1. appeal \in [status : CaseStatuses, archived : BOOLEAN, summarized : BOOLEAN]
    BY <1>1 DEF ProgressTypeOK
  <2>2. CASE EditCase("PACKET_GENERATED")
    <3>1. "PACKET_GENERATED" \in CaseStatuses BY DEF CaseStatuses
    <3> QED BY <2>1, <2>2, <3>1 DEF EditCase
  <2>3. CASE SummarizeCase BY <1>1, <2>1, <2>3 DEF SummarizeCase, ProgressTypeOK
  <2>4. CASE ArchiveAppeal
    <3>1. "ARCHIVED" \in CaseStatuses BY DEF CaseStatuses
    <3> QED BY <2>1, <2>4, <3>1 DEF ArchiveAppeal
  <2> QED BY <2>2, <2>3, <2>4
<1>6. ProgressTypeOK' BY <1>1, <1>2, <1>5 DEF ProgressTypeOK
<1>7. LatestOutcomeStands'
  <2>1. CASE moved' BY <2>1 DEF LatestOutcomeStands, FollowsOutcome
  <2>2. CASE moved' = moved /\ appeal'.status = appeal.status BY <1>1, <1>2, <2>2, OutcomeRests
  <2> QED BY <1>5, <2>1, <2>2
<1> QED BY <1>3, <1>4, <1>6, <1>7 DEF ProgressStands

-----------------------------------------------------------------------------
(* The analysis.                                                           *)

LEMMA NewMatchesIs ==
  ASSUME NEW view \in Views, NEW q \in Edits
  PROVE  /\ NewMatches(view, q) \subseteq Matches
         /\ \A m \in NewMatches(view, q) : m.document \in view.ready
         /\ \A i \in Items : Supporting(view, i) # {} => \E m \in NewMatches(view, q) : m.item = i
<1>1. view.ready \subseteq Evidence BY DEF Views
<1>2. ASSUME NEW i \in Items, Supporting(view, i) # {}
      PROVE  /\ (CHOOSE e \in Supporting(view, i) : TRUE) \in Evidence
             /\ (CHOOSE e \in Supporting(view, i) : TRUE) \in view.ready
  <2>1. (CHOOSE e \in Supporting(view, i) : TRUE) \in Supporting(view, i) BY <1>2
  <2> QED BY <1>1, <2>1 DEF Supporting
<1>3. ASSUME NEW m \in NewMatches(view, q) PROVE m \in Matches /\ m.document \in view.ready
  <2>1. PICK i \in Items : /\ Supporting(view, i) # {}
                          /\ m = [item |-> i, document |-> CHOOSE e \in Supporting(view, i) : TRUE,
                                  analysis |-> q]
    BY <1>3 DEF NewMatches
  <2> DEFINE d == CHOOSE e \in Supporting(view, i) : TRUE
  <2>2. d \in Evidence /\ d \in view.ready BY <1>2, <2>1
  <2>3. m = [item |-> i, document |-> d, analysis |-> q] BY <2>1
  <2> HIDE DEF d
  <2> QED BY <2>2, <2>3 DEF Matches
<1>4. ASSUME NEW i \in Items, Supporting(view, i) # {}
      PROVE  \E m \in NewMatches(view, q) : m.item = i
  <2> DEFINE m == [item |-> i, document |-> CHOOSE e \in Supporting(view, i) : TRUE, analysis |-> q]
  <2>1. m \in NewMatches(view, q) BY <1>4 DEF NewMatches
  <2>2. m.item = i OBVIOUS
  <2> QED BY <2>1, <2>2
<1> QED BY <1>3, <1>4

(* What an analysis writes, or does not.                                   *)
Rolled(q) == UNCHANGED <<matches, checklist, appeal, stale>>

Wrote(q) ==
  /\ matches' = (matches \ edit[q].seen) \cup NewMatches(edit[q].view, q)
  /\ checklist' = Rewritten(edit[q])
  /\ appeal' = [appeal EXCEPT !.status = AnalyzedStatus(edit[q].view)]
  /\ stale' = (stale \/ appeal.archived
               \/ edit[q].view # [View EXCEPT !.ticked = IF edit[q].tick = Null THEN @
                                                         ELSE edit[q].view.ticked])

LEMMA AnalysisWrites ==
  ASSUME NEW q \in Edits, WriteAnalysis(q)
  PROVE  /\ Finish(q) /\ UNCHANGED <<ready, deleted, round, moved>> /\ ~Locked(q) /\ edit[q].pc = "write"
         /\ \/ Wrote(q)
            \/ /\ Rolled(q)
               /\ \/ \E m \in NewMatches(edit[q].view, q) : m.document \in deleted
                  \/ Faulty("analysis")
BY DEF WriteAnalysis, At, Wrote, Rolled

LEMMA WroteIs ==
  ASSUME ProgressStands, NEW q \in Edits, edit[q].pc = "write", Wrote(q)
  PROVE  /\ edit[q].view \in Views
         /\ checklist' \in [Items -> [status : Statuses, ticked : BOOLEAN]]
         /\ \A i \in Items : checklist'[i].status = ItemStatus(edit[q].view, i)
         /\ \A i \in Items : checklist'[i].ticked = IF i = edit[q].tick THEN edit[q].completed
                                                   ELSE checklist[i].ticked
         /\ ~stale' => /\ ~stale /\ ~appeal.archived /\ edit[q].view.status = appeal.status
                       /\ edit[q].view.ready = ready
                       /\ (edit[q].tick = Null => edit[q].view.ticked = Ticked)
<1>1. ProgressTypeOK /\ EditsOK BY DEF ProgressStands
<1>2. edit[q].view \in Views BY <1>1 DEF EditsOK, EditOK
<1>3. edit[q].completed \in BOOLEAN /\ checklist \in [Items -> [status : Statuses, ticked : BOOLEAN]]
  BY <1>1 DEF ProgressTypeOK, EditStates, Statuses
<1>4. checklist' = [i \in Items |-> [status |-> ItemStatus(edit[q].view, i),
                      ticked |-> IF i = edit[q].tick THEN edit[q].completed ELSE checklist[i].ticked]]
  BY DEF Wrote, Rewritten
<1>5. ASSUME NEW i \in Items
      PROVE  /\ checklist'[i] \in [status : Statuses, ticked : BOOLEAN]
             /\ checklist'[i].status = ItemStatus(edit[q].view, i)
             /\ checklist'[i].ticked = IF i = edit[q].tick THEN edit[q].completed
                                       ELSE checklist[i].ticked
  <2>1. PICK status \in Statuses : status = ItemStatus(edit[q].view, i) BY ItemStatusIs
  <2>2. PICK ticked \in BOOLEAN :
          ticked = IF i = edit[q].tick THEN edit[q].completed ELSE checklist[i].ticked
    BY <1>3
  <2>3. checklist'[i] = [status |-> status, ticked |-> ticked] BY <1>4, <2>1, <2>2
  <2> QED BY <2>1, <2>2, <2>3
<1>6. DOMAIN checklist' = Items /\ checklist' = [i \in Items |-> checklist'[i]] BY <1>4
<1>7. ASSUME ~stale'
      PROVE  /\ ~stale /\ ~appeal.archived /\ edit[q].view.status = appeal.status
             /\ edit[q].view.ready = ready /\ (edit[q].tick = Null => edit[q].view.ticked = Ticked)
  <2>1. ~stale /\ ~appeal.archived
        /\ edit[q].view = [View EXCEPT !.ticked = IF edit[q].tick = Null THEN @
                                                  ELSE edit[q].view.ticked]
    BY <1>7 DEF Wrote
  <2>2. View \in Views /\ View.status = appeal.status /\ View.ready = ready /\ View.ticked = Ticked
    BY <1>1, ViewIs
  <2> QED BY <2>1, <2>2 DEF Views
<1> QED BY <1>2, <1>5, <1>6, <1>7

LEMMA WriteAnalysisStands ==
  ASSUME ProgressStands, NEW q \in Edits, WriteAnalysis(q)
  PROVE  ProgressStands'
<1>1. /\ Finish(q) /\ UNCHANGED <<ready, deleted, round, moved>> /\ ~Locked(q) /\ edit[q].pc = "write"
      /\ Wrote(q) \/ Rolled(q)
  BY AnalysisWrites
<1>2. CASE Rolled(q) BY <1>1, <1>2, FailedStands DEF Rolled
<1>3. CASE Wrote(q)
  <2> DEFINE view == edit[q].view
  <2>1. ProgressTypeOK /\ EditsOK /\ RecordsAgree /\ LatestOutcomeStands
    BY DEF ProgressStands
  <2>2. /\ view \in Views
        /\ checklist' \in [Items -> [status : Statuses, ticked : BOOLEAN]]
        /\ \A i \in Items : checklist'[i].status = ItemStatus(view, i)
        /\ \A i \in Items : checklist'[i].ticked = IF i = edit[q].tick THEN edit[q].completed
                                                  ELSE checklist[i].ticked
        /\ ~stale' => /\ ~stale /\ ~appeal.archived /\ view.status = appeal.status /\ view.ready = ready
                      /\ (edit[q].tick = Null => view.ticked = Ticked)
    BY <1>1, <1>3, WroteIs
  <2>3. Recorded' = Recorded /\ LatestRound' = LatestRound /\ LatestRound \in Nat
    BY <1>1, <2>1, Counted DEF LatestRound, Recorded
  <2>4. EditsOK' /\ edit' \in [Edits -> EditStates] BY <1>1, <2>1, <2>3, FinishStands
  <2>5. RecordsAgree' BY <1>1, <2>1, <2>3 DEF RecordsAgree
  <2>6. AnalyzedStatus(view) \in CaseStatuses BY <2>2, AnalyzedStatusIs
  <2>7. appeal' \in [status : CaseStatuses, archived : BOOLEAN, summarized : BOOLEAN]
        /\ appeal'.status = AnalyzedStatus(view)
    BY <1>3, <2>1, <2>6 DEF ProgressTypeOK, Wrote
  <2>8. stale' \in BOOLEAN
    <3>1. stale \in BOOLEAN /\ appeal.archived \in BOOLEAN BY <2>1 DEF ProgressTypeOK
    <3> QED BY <1>3, <3>1, Zenon DEF Wrote
  <2>9. matches' \subseteq Matches BY <1>3, <2>1, <2>2, NewMatchesIs DEF ProgressTypeOK, Wrote
  <2>10. ProgressTypeOK'
    BY <1>1, <2>1, <2>2, <2>4, <2>7, <2>8, <2>9 DEF ProgressTypeOK, Statuses
  <2>11. LatestOutcomeStands'
    <3> SUFFICES ASSUME ~stale' PROVE LatestOutcomeStands' BY DEF LatestOutcomeStands
    <3>1. ~stale /\ view.status = appeal.status BY <2>2
    <3>2. appeal'.status = appeal.status \/ {appeal.status, appeal'.status} \subseteq Ongoing
      BY <2>2, <2>7, <3>1, AnalyzedStatusIs
    <3> QED BY <1>1, <2>1, <3>1, <3>2, OutcomeRests
  <2>12. TicksStand'
    <3> SUFFICES ASSUME ~stale', NEW i \in Ticked' PROVE checklist'[i].status = "COMPLETE"
      BY DEF TicksStand
    <3>1. i \in Items /\ checklist'[i].ticked BY DEF Ticked
    <3>2. i \in view.ticked
      <4>1. CASE edit[q].tick = Null
        <5>1. i # edit[q].tick BY <3>1, <4>1, ProgressAssumption
        <5>2. checklist[i].ticked BY <2>2, <3>1, <5>1
        <5> QED BY <2>2, <3>1, <4>1, <5>2 DEF Ticked
      <4>2. CASE edit[q].tick # Null
        <5>1. view.ticked = IF edit[q].completed THEN Ticked \cup {edit[q].tick}
                            ELSE Ticked \ {edit[q].tick}
          BY <1>1, <2>1, <4>2 DEF EditsOK, EditOK
        <5>2. CASE i = edit[q].tick BY <2>2, <3>1, <5>1, <5>2
        <5>3. CASE i # edit[q].tick
          <6>1. i \in Ticked BY <2>2, <3>1, <5>3 DEF Ticked
          <6> QED BY <5>1, <5>3, <6>1
        <5> QED BY <5>2, <5>3
      <4> QED BY <4>1, <4>2
    <3> QED BY <2>2, <3>1, <3>2, ItemStatusIs
  <2> QED BY <2>4, <2>5, <2>10, <2>11, <2>12 DEF ProgressStands
<1> QED BY <1>1, <1>2, <1>3

LEMMA ProgressStandsStep == ProgressStands /\ [ProgressNext]_progressVars => ProgressStands'
<1> SUFFICES ASSUME ProgressStands, [ProgressNext]_progressVars PROVE ProgressStands' OBVIOUS
<1>1. CASE UNCHANGED progressVars
  <2>1. UNCHANGED <<appeal, ready, deleted, checklist, matches, round, edit, stale, moved>>
    BY <1>1 DEF progressVars
  <2>2. ProgressTypeOK /\ EditsOK /\ LatestOutcomeStands BY DEF ProgressStands
  <2>3. /\ EditsOK' /\ Ticked' = Ticked /\ Recorded' = Recorded /\ LatestRound' = LatestRound
    BY <2>1, <2>2, EditsRest
  <2>4. TicksStand' /\ RecordsAgree' BY <2>1, <2>3 DEF ProgressStands, TicksStand, RecordsAgree
  <2>5. LatestOutcomeStands' BY <2>1, <2>2, OutcomeRests
  <2>6. ProgressTypeOK' BY <2>1, <2>2 DEF ProgressTypeOK
  <2> QED BY <2>3, <2>4, <2>5, <2>6 DEF ProgressStands
<1>2. ASSUME NEW q \in Edits, StartRound(q) \/ AddUpdate(q) \/ Analyze(q) PROVE ProgressStands'
  BY <1>2, StartRoundStands, AddUpdateStands, AnalyzeStands
<1>3. ASSUME NEW q \in Edits, EditStep(q) PROVE ProgressStands'
  BY <1>3, SubmitRoundStands, ReadLatestRoundStands, CommitUpdateStands, ReadCaseStands,
     ClearMatchesStands, WriteAnalysisStands DEF EditStep
<1>4. ASSUME NEW q \in Edits, NEW e \in Evidence, ProcessEvidence(q, e) \/ DeleteEvidence(q, e)
      PROVE  ProgressStands'
  BY <1>4, EvidenceStands
<1>5. ASSUME NEW q \in Edits, NEW i \in Items, NEW completed \in BOOLEAN, TickItem(q, i, completed)
      PROVE  ProgressStands'
  BY <1>5, TickItemStands
<1>6. ASSUME NEW e \in Evidence, ReprocessEvidence(e) PROVE ProgressStands' BY <1>6, EvidenceStands
<1>7. CASE EditCase("PACKET_GENERATED") \/ SummarizeCase \/ ArchiveAppeal BY <1>7, CaseStands
<1> QED BY <1>1, <1>2, <1>3, <1>4, <1>5, <1>6, <1>7 DEF ProgressNext

LEMMA ProgressStandsFirst == ProgressInit => ProgressStands
<1> SUFFICES ASSUME ProgressInit PROVE ProgressStands OBVIOUS
<1>1. Recorded = {} BY DEF ProgressInit, Recorded
<1>2. LatestRound = 0 BY <1>1, FS_EmptySet DEF LatestRound
<1>3. RecordsAgree BY <1>1, <1>2 DEF RecordsAgree, ProgressInit
<1>4. ProgressTypeOK
  <2>1. appeal \in [status : CaseStatuses, archived : BOOLEAN, summarized : BOOLEAN]
    BY DEF ProgressInit, CaseStatuses, Ongoing
  <2>2. checklist \in [Items -> [status : {"MISSING", "OPTIONAL", "FOUND", "COMPLETE"},
                                ticked : BOOLEAN]]
    BY DEF ProgressInit
  <2>3. edit \in [Edits -> EditStates] BY NoEditIs DEF ProgressInit
  <2> QED BY <2>1, <2>2, <2>3 DEF ProgressInit, ProgressTypeOK
<1>5. EditsOK
  <2>1. \A q \in Edits : edit[q] = NoEdit BY DEF ProgressInit
  <2> QED BY <2>1, NoEditIs DEF EditsOK, EditOK
<1>6. TicksStand BY DEF ProgressInit, TicksStand, Ticked
<1>7. LatestOutcomeStands BY <1>2 DEF LatestOutcomeStands, FollowsOutcome
<1> QED BY <1>3, <1>4, <1>5, <1>6, <1>7 DEF ProgressStands

LEMMA TicksKeptStep == ProgressStands /\ [ProgressNext]_progressVars => TicksAreKept
<1> SUFFICES ASSUME ProgressStands, [ProgressNext]_progressVars,
                    NEW i \in Items, checklist'[i].ticked, checklist'[i].status # "COMPLETE"
             PROVE  /\ checklist[i].ticked
                    /\ \/ checklist[i].status # "COMPLETE"
                       \/ \E q \in Edits :
                            At(q, "write") /\ At(q, "done")' /\ i \notin edit[q].view.ticked
  BY DEF TicksAreKept
<1>1. CASE checklist' = checklist BY <1>1
<1>2. ASSUME NEW q \in Edits, WriteAnalysis(q)
      PROVE  /\ checklist[i].ticked
             /\ \/ checklist[i].status # "COMPLETE"
                \/ At(q, "write") /\ At(q, "done")' /\ i \notin edit[q].view.ticked
  <2>1. Finish(q) /\ edit[q].pc = "write" /\ (Wrote(q) \/ Rolled(q)) BY <1>2, AnalysisWrites
  <2>2. CASE Rolled(q) BY <2>2 DEF Rolled
  <2>3. CASE Wrote(q)
    <3>1. /\ checklist'[i].status = ItemStatus(edit[q].view, i)
          /\ checklist'[i].ticked = IF i = edit[q].tick THEN edit[q].completed
                                    ELSE checklist[i].ticked
      BY <2>1, <2>3, WroteIs
    <3>2. i \notin edit[q].view.ticked BY <3>1, ItemStatusIs
    <3>3. checklist[i].ticked
      <4>1. CASE i = edit[q].tick
        <5>1. edit[q].completed /\ edit[q].tick # Null BY <3>1, <4>1, ProgressAssumption
        <5>2. edit[q].view.ticked = Ticked \cup {edit[q].tick}
          BY <2>1, <5>1 DEF ProgressStands, EditsOK, EditOK
        <5> QED BY <3>2, <4>1, <5>2
      <4>2. CASE i # edit[q].tick BY <3>1, <4>2
      <4> QED BY <4>1, <4>2
    <3>4. At(q, "done")' BY <2>1, FinishIsDone DEF ProgressStands
    <3> QED BY <2>1, <3>2, <3>3, <3>4 DEF At
  <2> QED BY <2>1, <2>2, <2>3
<1>3. ASSUME NEW q \in Edits,
             \/ StartRound(q) \/ AddUpdate(q) \/ Analyze(q) \/ SubmitRound(q) \/ ReadLatestRound(q)
             \/ CommitUpdate(q) \/ ReadCase(q) \/ ClearMatches(q)
      PROVE  checklist' = checklist
  BY <1>3 DEF StartRound, AddUpdate, Analyze, SubmitRound, ReadLatestRound, CommitUpdate, ReadCase,
              ClearMatches
<1>4. ASSUME NEW q \in Edits, NEW e \in Evidence, ProcessEvidence(q, e) \/ DeleteEvidence(q, e)
      PROVE  checklist' = checklist
  BY <1>4 DEF ProcessEvidence, DeleteEvidence
<1>5. ASSUME NEW q \in Edits, NEW j \in Items, NEW completed \in BOOLEAN, TickItem(q, j, completed)
      PROVE  checklist' = checklist
  BY <1>5 DEF TickItem
<1>6. ASSUME NEW e \in Evidence, ReprocessEvidence(e) PROVE checklist' = checklist
  BY <1>6 DEF ReprocessEvidence
<1>7. CASE EditCase("PACKET_GENERATED") \/ SummarizeCase \/ ArchiveAppeal
  BY <1>1, <1>7 DEF EditCase, SummarizeCase, ArchiveAppeal
<1>8. CASE UNCHANGED progressVars BY <1>1, <1>8 DEF progressVars
<1> QED BY <1>1, <1>2, <1>3, <1>4, <1>5, <1>6, <1>7, <1>8 DEF ProgressNext, EditStep

LEMMA OutcomeKeptStep == ProgressStands /\ [ProgressNext]_progressVars => OutcomeIsKept
<1> SUFFICES ASSUME ProgressStands, [ProgressNext]_progressVars, FollowsOutcome, ~FollowsOutcome'
             PROVE  \E q \in Edits :
                      /\ At(q, "done")'
                      /\ \/ At(q, "update") /\ edit[q].latest # LatestRound
                         \/ At(q, "write") /\ edit[q].view.status # appeal.status
  BY DEF OutcomeIsKept
<1>1. ~UNCHANGED <<round, moved, appeal>> BY OutcomeIsLeft
<1>2. ASSUME NEW q \in Edits, SubmitRound(q) PROVE FALSE
  <2>1. CASE UNCHANGED <<appeal, round, moved, stale>> BY <1>1, <2>1
  <2>2. CASE /\ round[edit[q].round] = Null /\ round' = [round EXCEPT ![edit[q].round] = "SUBMITTED"]
             /\ appeal' = [appeal EXCEPT !.status = "SUBMITTED"]
             /\ moved' = FALSE /\ stale' = (stale \/ appeal.archived)
    BY <1>2, <2>2, SubmittedFollows
  <2> QED BY <1>2, <2>1, <2>2 DEF SubmitRound
<1>3. ASSUME NEW q \in Edits, CommitUpdate(q)
      PROVE  At(q, "done")' /\ At(q, "update") /\ edit[q].latest # LatestRound
  <2>1. Finish(q) /\ At(q, "update") BY <1>3 DEF CommitUpdate
  <2>2. At(q, "done")' BY <2>1, FinishIsDone DEF ProgressStands
  <2>3. edit[q].latest # LatestRound BY <1>1, <1>3, UpdateFollows
  <2> QED BY <2>1, <2>2, <2>3
<1>4. ASSUME NEW q \in Edits, WriteAnalysis(q)
      PROVE  At(q, "done")' /\ At(q, "write") /\ edit[q].view.status # appeal.status
  <2>1. /\ Finish(q) /\ UNCHANGED <<round, moved>> /\ edit[q].pc = "write"
        /\ Wrote(q) \/ Rolled(q)
    BY <1>4, AnalysisWrites
  <2>2. Wrote(q) BY <1>1, <2>1 DEF Rolled
  <2>3. At(q, "done")' BY <2>1, FinishIsDone DEF ProgressStands
  <2>4. edit[q].view \in Views BY <2>1, <2>2, WroteIs
  <2>5. appeal'.status = AnalyzedStatus(edit[q].view)
    BY <2>2 DEF ProgressStands, ProgressTypeOK, Wrote
  <2>6. ASSUME edit[q].view.status = appeal.status PROVE FALSE
    <3>1. appeal'.status = appeal.status \/ {appeal.status, appeal'.status} \subseteq Ongoing
      BY <2>4, <2>5, <2>6, AnalyzedStatusIs
    <3> QED BY <2>1, <3>1, OutcomeIsLeft
  <2> QED BY <2>1, <2>3, <2>6 DEF At
<1>5. ASSUME NEW q \in Edits,
             StartRound(q) \/ AddUpdate(q) \/ Analyze(q) \/ ReadLatestRound(q) \/ ReadCase(q)
               \/ ClearMatches(q)
      PROVE  FALSE
  BY <1>1, <1>5 DEF StartRound, AddUpdate, Analyze, ReadLatestRound, ReadCase, ClearMatches
<1>6. ASSUME NEW q \in Edits, NEW e \in Evidence, ProcessEvidence(q, e) \/ DeleteEvidence(q, e)
      PROVE  FALSE
  BY <1>1, <1>6 DEF ProcessEvidence, DeleteEvidence
<1>7. ASSUME NEW q \in Edits, NEW i \in Items, NEW completed \in BOOLEAN, TickItem(q, i, completed)
      PROVE  FALSE
  BY <1>1, <1>7 DEF TickItem
<1>8. ASSUME NEW e \in Evidence, ReprocessEvidence(e) PROVE FALSE
  BY <1>1, <1>8 DEF ReprocessEvidence
<1>9. CASE EditCase("PACKET_GENERATED") \/ SummarizeCase \/ ArchiveAppeal
  <2>1. ~moved' BY DEF FollowsOutcome
  <2>2. SummarizeCase BY <1>9, <2>1 DEF EditCase, ArchiveAppeal
  <2>3. appeal'.status = appeal.status /\ UNCHANGED <<round, moved>>
    BY <2>2 DEF SummarizeCase, ProgressStands, ProgressTypeOK
  <2> QED BY <2>3, OutcomeIsLeft
<1>10. CASE UNCHANGED progressVars BY <1>1, <1>10 DEF progressVars
<1> QED BY <1>2, <1>3, <1>4, <1>5, <1>6, <1>7, <1>8, <1>9, <1>10 DEF ProgressNext, EditStep

(* In every behaviour, whatever fails and whatever stale writes came        *)
(* before: only a write from a read that has been overtaken undoes a manual *)
(* completion or takes the case from where its latest outcome put it.       *)
THEOREM LateWritesAlone == ProgressSpec => OnlyLateWritesUndo
<1>1. ProgressSpec => []ProgressStands
  BY ProgressStandsFirst, ProgressStandsStep, PTL DEF ProgressSpec
<1>2. ProgressStands /\ [ProgressNext]_progressVars => [TicksAreKept /\ OutcomeIsKept]_progressVars
  BY TicksKeptStep, OutcomeKeptStep
<1> QED BY <1>1, <1>2, PTL DEF ProgressSpec, OnlyLateWritesUndo

-----------------------------------------------------------------------------
(* The checklist, when the database rolls back no analysis.                *)

LEMMA OwedRests ==
  ASSUME ChecklistIsOwed, \A p \in Edits : Fresh(p) => edit'[p] = edit[p],
         UNCHANGED <<checklist, matches, deleted>>, ready' \subseteq ready,
         appeal.archived => appeal'.archived, stale => stale'
  PROVE  ChecklistIsOwed'
<1>1. CASE appeal.archived BY <1>1 DEF ChecklistIsOwed
<1>2. CASE ChecklistShows
  <2>1. ChecklistShows' BY <1>2 DEF ChecklistShows
  <2> QED BY <2>1 DEF ChecklistIsOwed
<1>3. CASE \E q \in Edits : Fresh(q)
  <2>1. PICK q \in Edits : Fresh(q) BY <1>3
  <2>2. Fresh(q)' BY <2>1 DEF Fresh
  <2> QED BY <2>1, <2>2 DEF ChecklistIsOwed
<1> QED BY <1>1, <1>2, <1>3 DEF ChecklistIsOwed

LEMMA IdleIsNotFresh ==
  ASSUME NEW q, edit[q].pc \notin {"read", "clear", "write"}
  PROVE  ~Fresh(q)
BY DEF Fresh

LEMMA RequestOwes ==
  ASSUME ProgressStands, ChecklistIsOwed, NEW q \in Edits,
         StartRound(q) \/ AddUpdate(q) \/ SubmitRound(q) \/ ReadLatestRound(q) \/ CommitUpdate(q)
  PROVE  ChecklistIsOwed'
<1>1. edit \in [Edits -> EditStates] /\ appeal \in [status : CaseStatuses, archived : BOOLEAN,
                                                   summarized : BOOLEAN]
  BY DEF ProgressStands, ProgressTypeOK
<1>2. ~Fresh(q)
  BY IdleIsNotFresh
  DEF StartRound, AddUpdate, SubmitRound, ReadLatestRound, CommitUpdate, Send, Idle, At
<1>3. \A p \in Edits : p # q => edit'[p] = edit[p]
  BY <1>1 DEF StartRound, AddUpdate, SubmitRound, ReadLatestRound, CommitUpdate, Send, Finish
<1>4. UNCHANGED <<checklist, matches, deleted, ready>>
  BY DEF StartRound, AddUpdate, SubmitRound, ReadLatestRound, CommitUpdate
<1>5. appeal'.archived = appeal.archived
  <2>1. CASE StartRound(q) \/ AddUpdate(q) \/ ReadLatestRound(q)
    BY <2>1 DEF StartRound, AddUpdate, ReadLatestRound
  <2>2. CASE SubmitRound(q) BY <1>1, <2>2 DEF SubmitRound
  <2>3. CASE CommitUpdate(q)
    <3>1. appeal' = appeal \/ appeal' = [appeal EXCEPT !.status = CaseStatusFor(edit[q].outcome)]
      BY <2>3 DEF CommitUpdate
    <3> QED BY <1>1, <3>1
  <2> QED BY <2>1, <2>2, <2>3
<1>6. stale => stale'
  BY Zenon DEF StartRound, AddUpdate, SubmitRound, ReadLatestRound, CommitUpdate
<1>7. \A p \in Edits : Fresh(p) => edit'[p] = edit[p] BY <1>2, <1>3
<1>8. ready' \subseteq ready BY <1>4
<1>9. UNCHANGED <<checklist, matches, deleted>> /\ (appeal.archived => appeal'.archived)
  BY <1>4, <1>5
<1> QED BY <1>6, <1>7, <1>8, <1>9, OwedRests

LEMMA AnalysisIsOwed ==
  ASSUME ProgressStands, NEW q \in Edits,
         \/ Analyze(q)
         \/ \E e \in Evidence : ProcessEvidence(q, e) \/ DeleteEvidence(q, e)
         \/ \E i \in Items, completed \in BOOLEAN : TickItem(q, i, completed)
  PROVE  ChecklistIsOwed'
<1>1. edit \in [Edits -> EditStates] BY DEF ProgressStands, ProgressTypeOK
<1>2. edit'[q].pc = "read"
  <2>1. CASE Analyze(q) \/ \E e \in Evidence : ProcessEvidence(q, e) \/ DeleteEvidence(q, e)
    <3>1. edit' = [edit EXCEPT ![q] = Analysis]
      BY <2>1 DEF Analyze, ProcessEvidence, DeleteEvidence, Send
    <3> QED BY <1>1, <3>1, NoEditIs
  <2>2. CASE \E i \in Items, completed \in BOOLEAN : TickItem(q, i, completed)
    <3>1. PICK i \in Items, completed \in BOOLEAN : TickItem(q, i, completed) BY <2>2
    <3>2. edit' = [edit EXCEPT ![q] = [Analysis EXCEPT !.tick = i, !.completed = completed]]
      BY <3>1 DEF TickItem, Send
    <3>3. [Analysis EXCEPT !.tick = i, !.completed = completed].pc = "read"
      BY DEF Analysis, NoEdit
    <3> QED BY <1>1, <3>2, <3>3
  <2> QED BY <2>1, <2>2
<1>3. Fresh(q)' BY <1>2 DEF Fresh
<1> QED BY <1>3 DEF ChecklistIsOwed

LEMMA ReadingOwes ==
  ASSUME ProgressStands, ChecklistIsOwed, NEW q \in Edits, ReadCase(q) \/ ClearMatches(q)
  PROVE  ChecklistIsOwed'
<1>1. edit \in [Edits -> EditStates] /\ ready \cap deleted = {}
  BY DEF ProgressStands, ProgressTypeOK, RecordsAgree
<1>2. UNCHANGED <<appeal, ready, deleted, checklist, matches, stale>> BY DEF ReadCase, ClearMatches
<1>3. CASE ReadCase(q)
  <2>1. PICK r \in EditStates :
          edit' = [edit EXCEPT ![q] = r]
            /\ ((r.pc = "done" /\ appeal.archived) \/ (r.pc = "clear" /\ r.view.ready = ready))
    BY <1>3, ReadCaseIs
  <2>2. edit'[q] = r BY <1>1, <2>1
  <2>3. CASE appeal.archived BY <1>2, <2>3 DEF ChecklistIsOwed
  <2>4. CASE r.pc = "clear" /\ r.view.ready = ready
    <3>1. Fresh(q)' BY <1>1, <1>2, <2>2, <2>4 DEF Fresh
    <3> QED BY <3>1 DEF ChecklistIsOwed
  <2> QED BY <2>1, <2>3, <2>4
<1>4. CASE ClearMatches(q)
  <2>1. PICK r \in EditStates :
          edit' = [edit EXCEPT ![q] = r]
            /\ edit[q].pc = "clear" /\ r.pc = "write" /\ r.view = edit[q].view
    BY <1>4, ClearMatchesIs
  <2>2. edit'[q] = r /\ \A p \in Edits : p # q => edit'[p] = edit[p] BY <1>1, <2>1
  <2>3. CASE Fresh(q)
    <3>1. Fresh(q)' BY <1>2, <2>1, <2>2, <2>3 DEF Fresh
    <3> QED BY <3>1 DEF ChecklistIsOwed
  <2>4. CASE ~Fresh(q)
    <3>1. \A p \in Edits : Fresh(p) => edit'[p] = edit[p] BY <2>2, <2>4
    <3>2. ready' \subseteq ready /\ (appeal.archived => appeal'.archived) /\ (stale => stale')
          /\ UNCHANGED <<checklist, matches, deleted>>
      BY <1>2
    <3> QED BY <3>1, <3>2, OwedRests
  <2> QED BY <2>3, <2>4
<1> QED BY <1>3, <1>4

LEMMA WritingOwes ==
  ASSUME ProgressStands, ChecklistIsOwed, "analysis" \notin Faults, NEW q \in Edits, WriteAnalysis(q)
  PROVE  ChecklistIsOwed'
<1>1. edit \in [Edits -> EditStates] /\ EditsOK BY DEF ProgressStands, ProgressTypeOK
<1>2. /\ Finish(q) /\ UNCHANGED <<ready, deleted, round, moved>> /\ edit[q].pc = "write"
      /\ \/ Wrote(q)
         \/ /\ Rolled(q)
            /\ \/ \E m \in NewMatches(edit[q].view, q) : m.document \in deleted
               \/ Faulty("analysis")
  BY AnalysisWrites
<1>3. edit[q].view \in Views BY <1>1, <1>2 DEF EditsOK, EditOK
<1>4. CASE Wrote(q)
  <2>1. /\ \A i \in Items : checklist'[i].status = ItemStatus(edit[q].view, i)
        /\ ~stale' => edit[q].view.ready = ready
    BY <1>2, <1>4, WroteIs
  <2>2. ASSUME NEW i \in Items, checklist'[i].status = "FOUND" PROVE \E m \in matches' : m.item = i
    <3>1. Supporting(edit[q].view, i) # {} BY <2>1, <2>2, ItemStatusIs
    <3>2. \E m \in NewMatches(edit[q].view, q) : m.item = i BY <1>3, <3>1, NewMatchesIs
    <3> QED BY <1>4, <3>2 DEF Wrote
  <2>3. ASSUME NEW i \in Items, ~stale', NEW e \in ready', i \in Supports[e]
        PROVE  checklist'[i].status \in {"FOUND", "COMPLETE"}
    <3>1. e \in Supporting(edit[q].view, i) BY <1>2, <2>1, <2>3 DEF Supporting
    <3> QED BY <2>1, <3>1, ItemStatusIs
  <2>4. ChecklistShows' BY <2>2, <2>3 DEF ChecklistShows
  <2> QED BY <2>4 DEF ChecklistIsOwed
<1>5. CASE Rolled(q) /\ \E m \in NewMatches(edit[q].view, q) : m.document \in deleted
  <2>1. ~Fresh(q) BY <1>2, <1>3, <1>5, NewMatchesIs DEF Fresh
  <2>2. \A p \in Edits : Fresh(p) => edit'[p] = edit[p] BY <1>1, <1>2, <2>1 DEF Finish
  <2>3. ready' \subseteq ready /\ (appeal.archived => appeal'.archived) /\ (stale => stale')
        /\ UNCHANGED <<checklist, matches, deleted>>
    BY <1>2, <1>5 DEF Rolled
  <2> QED BY <2>2, <2>3, OwedRests
<1>6. ~Faulty("analysis") BY DEF Faulty
<1> QED BY <1>2, <1>4, <1>5, <1>6

LEMMA CaseOwes ==
  ASSUME ProgressStands, ChecklistIsOwed,
         \/ \E e \in Evidence : ReprocessEvidence(e)
         \/ EditCase("PACKET_GENERATED") \/ SummarizeCase \/ ArchiveAppeal
         \/ UNCHANGED progressVars
  PROVE  ChecklistIsOwed'
<1>1. appeal \in [status : CaseStatuses, archived : BOOLEAN, summarized : BOOLEAN]
  BY DEF ProgressStands, ProgressTypeOK
<1>2. UNCHANGED <<edit, checklist, matches, deleted, stale>> /\ ready' \subseteq ready
  BY DEF ReprocessEvidence, EditCase, SummarizeCase, ArchiveAppeal, progressVars
<1>3. appeal.archived => appeal'.archived
  BY <1>1 DEF ReprocessEvidence, EditCase, SummarizeCase, ArchiveAppeal, progressVars
<1> QED BY <1>2, <1>3, OwedRests

LEMMA ChecklistFirst == ProgressInit => ChecklistIsOwed
<1>1. ProgressInit => ChecklistShows BY DEF ProgressInit, ChecklistShows
<1> QED BY <1>1 DEF ChecklistIsOwed

LEMMA ChecklistStep ==
  ASSUME "analysis" \notin Faults
  PROVE  ProgressStands /\ ChecklistIsOwed /\ [ProgressNext]_progressVars => ChecklistIsOwed'
<1> SUFFICES ASSUME ProgressStands, ChecklistIsOwed, [ProgressNext]_progressVars
             PROVE  ChecklistIsOwed'
  OBVIOUS
<1>1. CASE UNCHANGED progressVars BY <1>1, CaseOwes
<1>2. ASSUME NEW q \in Edits, StartRound(q) \/ AddUpdate(q) PROVE ChecklistIsOwed'
  BY <1>2, RequestOwes
<1>3. ASSUME NEW q \in Edits, EditStep(q) PROVE ChecklistIsOwed'
  BY <1>3, RequestOwes, ReadingOwes, WritingOwes DEF EditStep
<1>4. ASSUME NEW q \in Edits, Analyze(q) PROVE ChecklistIsOwed' BY <1>4, AnalysisIsOwed
<1>5. ASSUME NEW q \in Edits, NEW e \in Evidence, ProcessEvidence(q, e) \/ DeleteEvidence(q, e)
      PROVE  ChecklistIsOwed'
  BY <1>5, AnalysisIsOwed
<1>6. ASSUME NEW q \in Edits, NEW i \in Items, NEW completed \in BOOLEAN, TickItem(q, i, completed)
      PROVE  ChecklistIsOwed'
  BY <1>6, AnalysisIsOwed
<1>7. ASSUME NEW e \in Evidence, ReprocessEvidence(e) PROVE ChecklistIsOwed' BY <1>7, CaseOwes
<1>8. CASE EditCase("PACKET_GENERATED") \/ SummarizeCase \/ ArchiveAppeal BY <1>8, CaseOwes
<1> QED BY <1>1, <1>2, <1>3, <1>4, <1>5, <1>6, <1>7, <1>8 DEF ProgressNext

LEMMA OwedIsShown == ProgressStands /\ ChecklistIsOwed => ProgressInv
<1> SUFFICES ASSUME ProgressStands, ChecklistIsOwed PROVE ProgressInv OBVIOUS
<1>1. Settled => \A q \in Edits : ~Fresh(q) BY DEF Settled, Fresh
<1>2. FoundItemHasMatch BY <1>1 DEF ChecklistIsOwed, ChecklistShows, FoundItemHasMatch
<1>3. ChecklistIsCurrent
  BY <1>1 DEF ProgressStands, TicksStand, ChecklistIsOwed, ChecklistShows, ChecklistIsCurrent
<1> QED BY <1>2, <1>3 DEF ProgressStands, ProgressInv

(* The checklist says what its evidence says once every analysis has       *)
(* ended, whichever of them was rolled back for a document that is gone;   *)
(* it may stay behind when the database loses the analysis a deletion owes. *)
THEOREM ProgressCorrect ==
  ASSUME "analysis" \notin Faults
  PROVE  ProgressSpec => []ProgressInv
<1>1. ProgressInit => ProgressStands /\ ChecklistIsOwed BY ProgressStandsFirst, ChecklistFirst
<1>2. ProgressStands /\ ChecklistIsOwed /\ [ProgressNext]_progressVars
        => ProgressStands' /\ ChecklistIsOwed'
  BY ProgressStandsStep, ChecklistStep
<1>3. ProgressSpec => [](ProgressStands /\ ChecklistIsOwed) BY <1>1, <1>2, PTL DEF ProgressSpec
<1> QED BY <1>3, OwedIsShown, PTL

-----------------------------------------------------------------------------
(* The timeline.                                                            *)

(* What a set of events of one timeline is like.                           *)
Well(E) ==
  /\ E \subseteq Events /\ IsFiniteSet(E)
  /\ \E n \in Nat : \A e \in E : e.order <= n
  /\ \A e \in E : e.made = Null <=> e.id.document = Null
  /\ \A e, f \in E : e.id = f.id => e = f

Made == \A e \in events : change[e.id.request].pc = "done"

(* The places that are asked for are numbers, and there is a last one.     *)
Numbered(w) == \E n \in Nat : \A id \in DOMAIN w : w[id] \in Nat /\ w[id] <= n

TimelineOK ==
  /\ Well(events) /\ Made /\ readable \subseteq Dated
  /\ change \in [Changes -> ChangeStates] /\ ChangesOK
  /\ \A q \in Changes : change[q].pc = "arrange" => Numbered(change[q].wanted)
  /\ arranged \in BOOLEAN /\ overtaken \in BOOLEAN
  /\ ReadsInOrder

LEMMA TimelineOKIsInv == TimelineOK => TimelineInv
BY DEF TimelineOK, Well, Made, TimelineInv, TimelineTypeOK, EventsOK, ChangeStates

LEMMA NoChangeIs ==
  /\ NoChange \in ChangeStates
  /\ NoChange.pc = "idle" /\ NoChange.seen = {} /\ NoChange.late = FALSE
  /\ [NoChange EXCEPT !.pc = "done"] \in ChangeStates
  /\ [NoChange EXCEPT !.pc = "done"].pc = "done" /\ [NoChange EXCEPT !.pc = "done"].seen = {}
<1>1. NoChange \in ChangeStates BY DEF NoChange, ChangeStates
<1>2. NoChange.pc = "idle" /\ NoChange.seen = {} /\ NoChange.late = FALSE BY DEF NoChange
<1>3. [NoChange EXCEPT !.pc = "done"] \in ChangeStates BY <1>1 DEF ChangeStates
<1>4. [NoChange EXCEPT !.pc = "done"].pc = "done" /\ [NoChange EXCEPT !.pc = "done"].seen = {}
  BY DEF NoChange
<1> QED BY <1>1, <1>2, <1>3, <1>4

-----------------------------------------------------------------------------
(* Sets of naturals and of events.                                         *)

LEMMA LeastExists ==
  ASSUME NEW S \in SUBSET Nat, S # {}
  PROVE  \E n \in S : \A m \in S : n <= m
<1>1. \E n \in S : \A m \in S : ~(<<m, n>> \in OpToRel(<, Nat))
  BY NatLessThanWellFounded, WFMin
<1>2. PICK n \in S : \A m \in S : ~(<<m, n>> \in OpToRel(<, Nat)) BY <1>1
<1>3. \A m \in S : ~(m < n) BY <1>2 DEF OpToRel
<1> QED BY <1>3

LEMMA LeastIs ==
  ASSUME NEW S \in SUBSET Nat, S # {}
  PROVE  Least(S) \in S /\ \A m \in S : Least(S) <= m
BY LeastExists DEF Least

LEMMA GreatestIs ==
  ASSUME NEW S \in SUBSET Nat, S # {}, NEW bound \in Nat, \A m \in S : m <= bound
  PROVE  Greatest(S) \in S /\ \A m \in S : m <= Greatest(S)
<1> DEFINE above == {k \in Nat : \A m \in S : m <= k}
<1>1. above \in SUBSET Nat /\ above # {} OBVIOUS
<1>2. PICK n \in above : \A k \in above : n <= k BY <1>1, LeastExists
<1>3. n \in S
  <2> SUFFICES ASSUME n \notin S PROVE FALSE OBVIOUS
  <2>1. n \in Nat /\ \A m \in S : m <= n /\ m # n BY <1>2
  <2>2. PICK m \in S : TRUE OBVIOUS
  <2>3. n - 1 \in Nat /\ \A l \in S : l <= n - 1 BY <2>1, <2>2
  <2>4. n - 1 \in above BY <2>3
  <2> QED BY <1>2, <2>1, <2>4
<1>4. \E k \in S : \A m \in S : m <= k BY <1>2, <1>3
<1> QED BY <1>4 DEF Greatest

LEMMA ImageIsFinite ==
  ASSUME NEW S, IsFiniteSet(S), NEW g
  PROVE  IsFiniteSet({g[e] : e \in S})
<1> DEFINE T == {g[e] : e \in S}
           h == [e \in S |-> g[e]]
<1>1. h \in Surjection(S, T) BY DEF Surjection
<1> HIDE DEF h, T
<1>2. IsFiniteSet(T) BY <1>1, FS_Surjection
<1> QED BY <1>2 DEF T

(* Events that keep their ids and what made them.                          *)
LEMMA MappedIsWell ==
  ASSUME NEW E, Well(E), NEW g,
         \A e \in E : g[e] \in Events /\ g[e].id = e.id /\ g[e].made = e.made,
         NEW n \in Nat, \A e \in E : g[e].order <= n
  PROVE  Well({g[e] : e \in E})
<1>1. IsFiniteSet({g[e] : e \in E}) BY ImageIsFinite DEF Well
<1> QED BY <1>1 DEF Well

LEMMA PartIsWell ==
  ASSUME NEW E, Well(E), NEW F \in SUBSET E
  PROVE  Well(F)
BY FS_Subset DEF Well

LEMMA JoinedIsWell ==
  ASSUME NEW E, Well(E), NEW F, Well(F), \A e \in E, f \in F : e.id # f.id
  PROVE  Well(E \cup F)
<1>1. IsFiniteSet(E \cup F) BY FS_Union DEF Well
<1>2. PICK n \in Nat : \A e \in E : e.order <= n BY DEF Well
<1>3. PICK k \in Nat : \A e \in F : e.order <= k BY DEF Well
<1>4. PICK l \in Nat : n <= l /\ k <= l
  <2>1. n <= k \/ k <= n OBVIOUS
  <2> QED BY <2>1
<1>5. \A e \in E \cup F : e.order <= l
  <2>1. \A e \in E \cup F : e.order \in Nat BY DEF Well, Events
  <2> QED BY <1>2, <1>3, <1>4, <2>1
<1> QED BY <1>1, <1>5 DEF Well

-----------------------------------------------------------------------------
(* What a request reads.                                                   *)

Ended == [NoChange EXCEPT !.pc = "done"]

(* A request goes on to r; nothing is committed.                           *)
LEMMA ChangeMoves ==
  ASSUME TimelineOK, NEW q \in Changes, NEW r \in ChangeStates, change[q].pc # "done",
         change' = [change EXCEPT ![q] = r],
         UNCHANGED <<events, arranged, overtaken>>, readable' \subseteq Dated,
         r.pc \in {"insert", "edit"} => r.day \in Days,
         r.pc = "arrange" => Numbered(r.wanted),
         r.pc = "insert" => r.slot = Slot(r.day) /\ (r.event = Null <=> Later(r.day) = {}),
         \A id \in r.seen : id.document # Null
  PROVE  TimelineOK'
<1>1. change \in [Changes -> ChangeStates] /\ ChangesOK /\ Well(events) /\ Made /\ ReadsInOrder
      /\ arranged \in BOOLEAN /\ overtaken \in BOOLEAN
  BY DEF TimelineOK
<1>2. change' \in [Changes -> ChangeStates] /\ change'[q] = r
      /\ \A p \in Changes : p # q => change'[p] = change[p]
  BY <1>1
<1>3. Well(events') BY <1>1
<1>4. Made'
  <2> SUFFICES ASSUME NEW e \in events PROVE change'[e.id.request].pc = "done" BY DEF Made
  <2>1. e.id.request \in Changes BY <1>1 DEF Well, Events, Ids
  <2>2. change[e.id.request].pc = "done" BY <1>1 DEF Made
  <2> QED BY <1>2, <2>1, <2>2
<1>5. ReadsInOrder' BY <1>1 DEF ReadsInOrder
<1>6. \A day : Slot(day)' = Slot(day) /\ Later(day)' = Later(day) BY DEF Slot, Later
<1>7. ASSUME NEW p \in Changes
      PROVE  /\ change'[p].pc \in {"insert", "edit"} => change'[p].day \in Days
             /\ change'[p].pc = "arrange" => Numbered(change'[p].wanted)
             /\ change'[p].pc = "insert" /\ ~change'[p].late =>
                  /\ change'[p].slot = Slot(change'[p].day)
                  /\ change'[p].event = Null <=> Later(change'[p].day) = {}
             /\ \A id \in change'[p].seen : id.document # Null
  <2>1. CASE p = q BY <1>2, <2>1
  <2>2. CASE p # q
    <3>1. change'[p] = change[p] BY <1>2, <2>2
    <3>2. change[p].pc = "arrange" => Numbered(change[p].wanted) BY DEF TimelineOK
    <3> QED BY <1>1, <3>1, <3>2 DEF ChangesOK
  <2> QED BY <2>1, <2>2
<1>8. ChangesOK' BY <1>7 DEF ChangesOK, Slot, Later
<1>9. \A p \in Changes : (change[p].pc = "arrange" => Numbered(change[p].wanted))'
  BY <1>7 DEF Numbered
<1> QED BY <1>1, <1>2, <1>3, <1>4, <1>5, <1>8, <1>9 DEF TimelineOK

LEMMA RefusedStands ==
  ASSUME TimelineOK, NEW q \in Changes, change[q].pc # "done", Refuse(q), UNCHANGED readable
  PROVE  TimelineOK'
<1>1. Ended \in ChangeStates /\ Ended.pc = "done" /\ Ended.seen = {} BY NoChangeIs DEF Ended
<1>2. change' = [change EXCEPT ![q] = Ended] /\ UNCHANGED <<events, arranged, overtaken>>
  BY DEF Refuse, Ended
<1>3. readable' \subseteq Dated BY DEF TimelineOK
<1> QED BY <1>1, <1>2, <1>3, ChangeMoves

LEMMA AskStands ==
  ASSUME TimelineOK, NEW q \in Changes,
         CreateEvent(q) \/ FindEvent(q) \/ ReorderEvents(q) \/ AnalyzeTimeline(q) \/ ClearGenerated(q)
  PROVE  TimelineOK'
<1>1. /\ Well(events) /\ readable \subseteq Dated /\ change[q] \in ChangeStates
      /\ UNCHANGED <<events, readable, arranged, overtaken>> /\ readable' \subseteq Dated
      /\ change[q].pc # "done"
  BY DEF TimelineOK, CreateEvent, FindEvent, ReorderEvents, AnalyzeTimeline, ClearGenerated, Ask
<1>2. \A e \in events : e \in Events /\ e.id \in Ids /\ e.order \in Nat /\ e.day \in Days
  BY <1>1 DEF Well, Events
<1>3. CASE CreateEvent(q)
  <2>1. PICK day \in Days :
          Ask(q, [NoChange EXCEPT !.pc = "insert", !.day = day, !.slot = Slot(day),
                                  !.event = IF Later(day) = {} THEN Null
                                            ELSE [request |-> q, document |-> Null]])
    BY <1>3 DEF CreateEvent
  <2>2. Slot(day) \in Nat
    <3>1. Later(day) \subseteq Nat BY <1>2 DEF Later
    <3>2. CASE Later(day) # {} BY <3>1, <3>2, LeastIs DEF Slot
    <3>3. CASE Later(day) = {} /\ events # {}
      <4> DEFINE S == {e.order : e \in events}
      <4>1. S \in SUBSET Nat /\ S # {} BY <1>2, <3>3
      <4>2. PICK n \in Nat : \A m \in S : m <= n BY <1>1 DEF Well
      <4>3. Greatest(S) \in S BY <4>1, <4>2, GreatestIs
      <4>4. PICK g \in Nat : g = Greatest(S) BY <4>1, <4>3
      <4>5. Slot(day) = g + 1 BY <3>3, <4>4 DEF Slot
      <4> QED BY <4>5
    <3>4. CASE Later(day) = {} /\ events = {} BY <3>4 DEF Slot
    <3> QED BY <3>2, <3>3, <3>4
  <2>3. PICK event \in Ids \cup {Null} :
          event = IF Later(day) = {} THEN Null ELSE [request |-> q, document |-> Null]
    BY DEF Ids
  <2>4. event = Null <=> Later(day) = {}
    <3>1. [request |-> q, document |-> Null] \in Ids BY DEF Ids
    <3> QED BY <2>3, <3>1, TimelineAssumption
  <2>5. PICK slot \in Nat : slot = Slot(day) BY <2>2
  <2>6. PICK r \in ChangeStates :
          r = [NoChange EXCEPT !.pc = "insert", !.day = day, !.slot = slot, !.event = event]
    BY NoChangeIs DEF ChangeStates
  <2>7. r.pc = "insert" /\ r.day = day /\ r.slot = slot /\ r.event = event /\ r.seen = {}
    BY <2>6, NoChangeIs DEF ChangeStates
  <2>8. change' = [change EXCEPT ![q] = r] BY <2>1, <2>3, <2>5, <2>6 DEF Ask
  <2> QED BY <1>1, <2>4, <2>5, <2>7, <2>8, ChangeMoves
<1>4. CASE FindEvent(q)
  <2>1. PICK e \in events, pc \in {"edit", "remove"}, day \in Days :
          Ask(q, [NoChange EXCEPT !.pc = pc, !.event = e.id, !.day = day])
    BY <1>4 DEF FindEvent
  <2>2. PICK id \in Ids : id = e.id BY <1>2
  <2>3. PICK r \in ChangeStates : r = [NoChange EXCEPT !.pc = pc, !.event = id, !.day = day]
    BY NoChangeIs DEF ChangeStates
  <2>4. r.pc = pc /\ r.day = day /\ r.seen = {} BY <2>3, NoChangeIs DEF ChangeStates
  <2>5. change' = [change EXCEPT ![q] = r] BY <2>1, <2>2, <2>3 DEF Ask
  <2> QED BY <1>1, <2>4, <2>5, ChangeMoves
<1>5. CASE ReorderEvents(q)
  <2>1. PICK wanted \in [Present -> 0..(Cardinality(events) - 1)] :
          Ask(q, [NoChange EXCEPT !.pc = "arrange", !.wanted = wanted])
    BY <1>5 DEF ReorderEvents
  <2>2. Cardinality(events) \in Nat BY <1>1, FS_CardinalityType DEF Well
  <2>3. Present \in SUBSET Ids BY <1>2 DEF Present
  <2>4. wanted \in [Present -> Nat] BY <2>2
  <2>5. wanted \in Orders BY <2>3, <2>4, Zenon DEF Orders
  <2>6. Numbered(wanted)
    <3>1. \A id \in DOMAIN wanted : wanted[id] \in Nat /\ wanted[id] <= Cardinality(events) BY <2>2
    <3> QED BY <2>2, <3>1 DEF Numbered
  <2>7. PICK r \in ChangeStates : r = [NoChange EXCEPT !.pc = "arrange", !.wanted = wanted]
    BY <2>5, NoChangeIs DEF ChangeStates
  <2>8. r.pc = "arrange" /\ r.wanted = wanted /\ r.seen = {}
    BY <2>7, NoChangeIs DEF ChangeStates
  <2>9. change' = [change EXCEPT ![q] = r] BY <2>1, <2>7 DEF Ask
  <2> QED BY <1>1, <2>6, <2>8, <2>9, ChangeMoves
<1>6. CASE AnalyzeTimeline(q)
  <2>1. PICK r \in ChangeStates : r = [NoChange EXCEPT !.pc = "clear", !.found = readable]
    BY <1>1, NoChangeIs DEF ChangeStates
  <2>2. r.pc = "clear" /\ r.seen = {} BY <2>1, NoChangeIs DEF ChangeStates
  <2>3. change' = [change EXCEPT ![q] = r] BY <1>6, <2>1 DEF AnalyzeTimeline, Ask
  <2> QED BY <1>1, <2>2, <2>3, ChangeMoves
<1>7. CASE ClearGenerated(q)
  <2>1. Generated \in SUBSET Ids /\ \A id \in Generated : id.document # Null
    BY <1>1, <1>2 DEF Generated, Well
  <2>2. PICK r \in ChangeStates : r = [change[q] EXCEPT !.pc = "derive", !.seen = Generated]
    BY <1>1, <2>1 DEF ChangeStates
  <2>3. r.pc = "derive" /\ r.seen = Generated BY <1>1, <2>2 DEF ChangeStates
  <2>4. change' = [change EXCEPT ![q] = r] BY <1>7, <2>2 DEF ClearGenerated
  <2> QED BY <1>1, <2>1, <2>3, <2>4, ChangeMoves
<1> QED BY <1>3, <1>4, <1>5, <1>6, <1>7

-----------------------------------------------------------------------------
(* What a request commits.                                                 *)

LEMMA SettleIs ==
  ASSUME change \in [Changes -> ChangeStates], overtaken \in BOOLEAN, NEW q \in Changes, Settle(q)
  PROVE  /\ change' \in [Changes -> ChangeStates] /\ overtaken' \in BOOLEAN
         /\ change'[q].pc = "done" /\ change'[q].seen = {}
         /\ \A p \in Changes : p # q =>
              /\ change'[p].pc = change[p].pc /\ change'[p].day = change[p].day
              /\ change'[p].wanted = change[p].wanted /\ change'[p].seen = change[p].seen
              /\ change[p].pc = "insert" => change'[p].late
<1>1. change' = [p \in Changes |->
        IF p = q THEN Ended ELSE [change[p] EXCEPT !.late = @ \/ change[p].pc \notin {"idle", "done"}]]
  BY DEF Settle, Ended
<1>2. overtaken' \in BOOLEAN BY Zenon DEF Settle, ChangeStates
<1>3. Ended \in ChangeStates /\ Ended.pc = "done" /\ Ended.seen = {} BY NoChangeIs DEF Ended
<1>4. ASSUME NEW p \in Changes, p # q
      PROVE  /\ change'[p] \in ChangeStates
             /\ change'[p].pc = change[p].pc /\ change'[p].day = change[p].day
             /\ change'[p].wanted = change[p].wanted /\ change'[p].seen = change[p].seen
             /\ change[p].pc = "insert" => change'[p].late
  <2>1. change[p] \in ChangeStates OBVIOUS
  <2>2. PICK late \in BOOLEAN : late = (change[p].late \/ change[p].pc \notin {"idle", "done"})
    BY Zenon
  <2>3. change[p].pc = "insert" => late BY <2>2
  <2>4. change'[p] = [change[p] EXCEPT !.late = late] BY <1>1, <1>4, <2>2, Zenon
  <2> QED BY <2>1, <2>3, <2>4 DEF ChangeStates
<1>5. change'[q] = Ended BY <1>1
<1>6. \A p \in Changes : change'[p] \in ChangeStates BY <1>3, <1>4, <1>5
<1>7. change' \in [Changes -> ChangeStates] BY <1>1, <1>6
<1> QED BY <1>2, <1>3, <1>4, <1>5, <1>7

(* What is left of the invariant, when a request commits the events.       *)
LEMMA SettledStands ==
  ASSUME TimelineOK, NEW q \in Changes, Settle(q), UNCHANGED readable, arranged' \in BOOLEAN,
         Well(events'), ReadsInOrder',
         \A e \in events' : e.id.request = q \/ \E f \in events : f.id = e.id
  PROVE  TimelineOK'
<1>1. /\ change \in [Changes -> ChangeStates] /\ overtaken \in BOOLEAN /\ ChangesOK /\ Made
      /\ readable' \subseteq Dated
  BY DEF TimelineOK
<1>2. /\ change' \in [Changes -> ChangeStates] /\ overtaken' \in BOOLEAN
      /\ change'[q].pc = "done" /\ change'[q].seen = {}
      /\ \A p \in Changes : p # q =>
           /\ change'[p].pc = change[p].pc /\ change'[p].day = change[p].day
           /\ change'[p].wanted = change[p].wanted /\ change'[p].seen = change[p].seen
           /\ change[p].pc = "insert" => change'[p].late
  BY <1>1, SettleIs
<1>3. Made'
  <2> SUFFICES ASSUME NEW e \in events' PROVE change'[e.id.request].pc = "done" BY DEF Made
  <2>1. CASE e.id.request = q BY <1>2, <2>1
  <2>2. CASE e.id.request # q
    <3>1. PICK f \in events : f.id = e.id BY <2>2
    <3>2. change[e.id.request].pc = "done" BY <1>1, <3>1 DEF Made
    <3>3. e.id.request \in Changes BY DEF Well, Events, Ids
    <3> QED BY <1>2, <2>2, <3>2, <3>3
  <2> QED BY <2>1, <2>2
<1>4. ASSUME NEW p \in Changes
      PROVE  /\ change'[p].pc \in {"insert", "edit"} => change'[p].day \in Days
             /\ change'[p].pc = "arrange" => Numbered(change'[p].wanted)
             /\ ~(change'[p].pc = "insert" /\ ~change'[p].late)
             /\ \A id \in change'[p].seen : id.document # Null
  <2>1. CASE p = q BY <1>2, <2>1
  <2>2. CASE p # q
    <3>1. change[p].pc = "arrange" => Numbered(change[p].wanted) BY DEF TimelineOK
    <3> QED BY <1>1, <1>2, <2>2, <3>1 DEF ChangesOK
  <2> QED BY <2>1, <2>2
<1>5. ChangesOK' BY <1>4 DEF ChangesOK
<1>6. \A p \in Changes : (change[p].pc = "arrange" => Numbered(change[p].wanted))'
  BY <1>4 DEF Numbered
<1> QED BY <1>1, <1>2, <1>3, <1>5, <1>6 DEF TimelineOK

(* What an insertion that nothing overtook makes of the events: those from *)
(* its place on are moved by one.                                          *)
Moved(order, slot) == IF order >= slot THEN order + 1 ELSE order

Inserts(q) ==
  /\ change[q].pc = "insert"
  /\ events' = Opened(q) \cup
       {[id |-> [request |-> q, document |-> Null], order |-> change[q].slot,
         day |-> change[q].day, made |-> Null]}
  /\ Settle(q) /\ UNCHANGED arranged

LEMMA InsertEventIs ==
  ASSUME NEW q \in Changes, InsertEvent(q)
  PROVE  /\ change[q].pc = "insert" /\ UNCHANGED readable
         /\ Inserts(q) \/ Refuse(q)
BY DEF InsertEvent, Inserts

LEMMA OpenedIs ==
  ASSUME TimelineOK, NEW q \in Changes
  PROVE  /\ Well(Opened(q))
         /\ \A x \in Opened(q) : \E e \in events :
              /\ x.id = e.id /\ x.day = e.day
              /\ x.order = IF change[q].event = Null THEN e.order ELSE Moved(e.order, change[q].slot)
         /\ \A e \in events : \E x \in Opened(q) : x.id = e.id
<1>1. Well(events) /\ change[q].slot \in Nat BY DEF TimelineOK, ChangeStates
<1>2. CASE change[q].event = Null BY <1>1, <1>2 DEF Opened
<1>3. CASE change[q].event # Null
  <2> DEFINE slot == change[q].slot
             g == [e \in events |-> [e EXCEPT !.order = Moved(e.order, slot)]]
  <2>1. PICK n \in Nat : \A e \in events : e.order <= n BY <1>1 DEF Well
  <2>2. ASSUME NEW e \in events
        PROVE  /\ g[e] \in Events /\ g[e].id = e.id /\ g[e].made = e.made /\ g[e].day = e.day
               /\ g[e].order = Moved(e.order, slot) /\ g[e].order <= n + 1
    <3>1. e \in Events /\ e.order \in Nat /\ e.order <= n BY <1>1, <2>1 DEF Well, Events
    <3>2. PICK o \in Nat : o = Moved(e.order, slot) BY <1>1, <3>1 DEF Moved
    <3>3. o <= n + 1 BY <3>1, <3>2 DEF Moved
    <3>4. g[e] = [e EXCEPT !.order = o] BY <3>2
    <3> HIDE DEF g
    <3> QED BY <3>1, <3>2, <3>3, <3>4 DEF Events
  <2>3. Opened(q) = {g[e] : e \in events} BY <1>3 DEF Opened, Moved
  <2> HIDE DEF g
  <2>4. n + 1 \in Nat /\ \A e \in events : g[e].order <= n + 1 BY <2>2
  <2>5. \A e \in events : g[e] \in Events /\ g[e].id = e.id /\ g[e].made = e.made BY <2>2
  <2>6. Well(Opened(q)) BY <1>1, <2>3, <2>4, <2>5, MappedIsWell
  <2>7. \A x \in Opened(q) : \E e \in events :
          x.id = e.id /\ x.day = e.day /\ x.order = Moved(e.order, slot)
    BY <2>2, <2>3
  <2>8. \A e \in events : \E x \in Opened(q) : x.id = e.id BY <2>2, <2>3
  <2> QED BY <1>3, <2>6, <2>7, <2>8
<1> QED BY <1>2, <1>3

(* The event a request makes has an id of its own.                         *)
LEMMA InsertedIsWell ==
  ASSUME TimelineOK, NEW q \in Changes, Inserts(q)
  PROVE  /\ Well(events')
         /\ \A e \in events' : e.id.request = q \/ \E f \in events : f.id = e.id
         /\ \A e \in events : e.id # [request |-> q, document |-> Null]
<1> DEFINE id == [request |-> q, document |-> Null]
           new == [id |-> id, order |-> change[q].slot, day |-> change[q].day, made |-> Null]
<1>1. /\ change[q] \in ChangeStates /\ change[q].day \in Days /\ change[q].slot \in Nat
      /\ change[q].pc = "insert" /\ Made
  BY DEF TimelineOK, ChangesOK, ChangeStates, Inserts
<1>2. /\ Well(Opened(q))
      /\ \A x \in Opened(q) : \E e \in events : x.id = e.id
  BY OpenedIs
<1>3. id \in Ids /\ id.request = q /\ id.document = Null BY DEF Ids
<1>4. new.id = id /\ new.order = change[q].slot /\ new.day = change[q].day /\ new.made = Null OBVIOUS
<1>5. new \in Events BY <1>1, <1>3 DEF Events
<1>6. events' = Opened(q) \cup {new} BY DEF Inserts
<1>7. \A e \in events : e.id # id BY <1>1, <1>3 DEF Made
<1> HIDE DEF new, id
<1>8. Well({new})
  <2>1. IsFiniteSet({new}) BY FS_Singleton
  <2>2. \E n \in Nat : \A e \in {new} : e.order <= n
    <3>1. \A e \in {new} : e.order <= change[q].slot BY <1>1, <1>4
    <3> QED BY <1>1, <3>1
  <2>3. \A e \in {new} : e.made = Null <=> e.id.document = Null BY <1>3, <1>4
  <2> QED BY <1>5, <2>1, <2>2, <2>3 DEF Well
<1>9. \A x \in Opened(q), y \in {new} : x.id # y.id BY <1>2, <1>4, <1>7
<1>10. Well(events') BY <1>2, <1>6, <1>8, <1>9, JoinedIsWell
<1>11. \A e \in events' : e.id.request = q \/ \E f \in events : f.id = e.id
  BY <1>2, <1>3, <1>4, <1>6
<1> QED BY <1>7, <1>10, <1>11 DEF id

(* Where an insertion that nothing overtook puts the events.               *)
LEMMA InsertedIs ==
  ASSUME TimelineOK, NEW q \in Changes, Inserts(q), ~change[q].late
  PROVE  LET slot == change[q].slot
             day == change[q].day
         IN /\ slot \in Nat /\ day \in Days
            /\ \A x \in events' :
                 \/ x.id = [request |-> q, document |-> Null] /\ x.order = slot /\ x.day = day
                 \/ \E e \in events : x.id = e.id /\ x.day = e.day /\ x.order = Moved(e.order, slot)
            /\ \A e \in events : e.order \in Nat /\ (e.day > day => e.order >= slot)
            /\ (\A e \in events : e.order < slot) \/ (\E b \in events : b.day > day /\ b.order = slot)
<1> DEFINE slot == change[q].slot
           day == change[q].day
<1>1. /\ Well(events) /\ change[q] \in ChangeStates /\ day \in Days /\ slot \in Nat
      /\ slot = Slot(day) /\ (change[q].event = Null <=> Later(day) = {})
  BY DEF TimelineOK, ChangesOK, ChangeStates, Inserts
<1>2. \A e \in events : e.order \in Nat /\ e.day \in Days BY <1>1 DEF Well, Events
<1>3. events' = Opened(q) \cup {[id |-> [request |-> q, document |-> Null], order |-> slot,
                                day |-> day, made |-> Null]}
  BY DEF Inserts
<1>4. \A x \in Opened(q) : \E e \in events :
        /\ x.id = e.id /\ x.day = e.day
        /\ x.order = IF change[q].event = Null THEN e.order ELSE Moved(e.order, slot)
  BY OpenedIs
<1>5. Later(day) \in SUBSET Nat BY <1>2 DEF Later
<1>6. CASE Later(day) # {}
  <2>1. slot \in Later(day) /\ \A m \in Later(day) : slot <= m BY <1>1, <1>5, <1>6, LeastIs DEF Slot
  <2>2. \A e \in events : e.day > day => e.order >= slot BY <1>1, <1>2, <2>1 DEF Later
  <2>3. \E b \in events : b.day > day /\ b.order = slot BY <2>1 DEF Later
  <2>4. \A x \in Opened(q) : \E e \in events :
          x.id = e.id /\ x.day = e.day /\ x.order = Moved(e.order, slot)
    BY <1>1, <1>4, <1>6
  <2> HIDE DEF slot, day
  <2>5. \A x \in events' :
          \/ x.id = [request |-> q, document |-> Null] /\ x.order = slot /\ x.day = day
          \/ \E e \in events : x.id = e.id /\ x.day = e.day /\ x.order = Moved(e.order, slot)
    BY <1>3, <2>4
  <2> QED BY <1>1, <1>2, <2>2, <2>3, <2>5 DEF slot, day
<1>7. CASE Later(day) = {}
  <2>1. \A e \in events : ~(e.day > day) BY <1>7 DEF Later
  <2>2. \A e \in events : e.order < slot
    <3>1. CASE events = {} BY <3>1
    <3>2. CASE events # {}
      <4> DEFINE S == {e.order : e \in events}
      <4>1. S \in SUBSET Nat /\ S # {} BY <1>2, <3>2
      <4>2. PICK n \in Nat : \A m \in S : m <= n BY <1>1 DEF Well
      <4>3. Greatest(S) \in S /\ \A m \in S : m <= Greatest(S) BY <4>1, <4>2, GreatestIs
      <4>4. PICK g \in Nat : g = Greatest(S) /\ \A m \in S : m <= g BY <4>1, <4>3
      <4>5. slot = g + 1 BY <1>1, <1>7, <3>2, <4>4 DEF Slot
      <4>6. \A e \in events : e.order <= g BY <4>4
      <4> QED BY <1>2, <4>5, <4>6
    <3> QED BY <3>1, <3>2
  <2>3. \A x \in Opened(q) : \E e \in events :
          x.id = e.id /\ x.day = e.day /\ x.order = Moved(e.order, slot)
    <3>1. \A e \in events : Moved(e.order, slot) = e.order BY <1>1, <1>2, <2>2 DEF Moved
    <3> QED BY <1>1, <1>4, <1>7, <3>1
  <2> HIDE DEF slot, day
  <2>4. \A x \in events' :
          \/ x.id = [request |-> q, document |-> Null] /\ x.order = slot /\ x.day = day
          \/ \E e \in events : x.id = e.id /\ x.day = e.day /\ x.order = Moved(e.order, slot)
    BY <1>3, <2>3
  <2> QED BY <1>1, <1>2, <2>1, <2>2, <2>4 DEF slot, day
<1> QED BY <1>6, <1>7

LEMMA InsertEventStands ==
  ASSUME TimelineOK, NEW q \in Changes, InsertEvent(q)
  PROVE  TimelineOK'
<1>1. change[q].pc = "insert" /\ UNCHANGED readable BY InsertEventIs
<1>2. CASE Refuse(q) BY <1>1, <1>2, RefusedStands
<1>3. CASE Inserts(q)
  <2>1. /\ Well(events')
        /\ \A e \in events' : e.id.request = q \/ \E f \in events : f.id = e.id
    BY <1>3, InsertedIsWell
  <2>2. Settle(q) /\ arranged' = arranged /\ arranged \in BOOLEAN /\ ReadsInOrder /\ Well(events)
        /\ overtaken' = (overtaken \/ change[q].late)
    BY <1>3 DEF Inserts, Settle, TimelineOK
  <2>3. ReadsInOrder'
    <3> SUFFICES ASSUME ~arranged', ~overtaken', NEW x \in events', NEW y \in events', x.id # y.id
                 PROVE  x.order # y.order /\ (x.day < y.day => x.order < y.order)
      BY DEF ReadsInOrder
    <3> DEFINE slot == change[q].slot
               day == change[q].day
               new == [request |-> q, document |-> Null]
    <3>1. ~arranged /\ ~overtaken /\ ~change[q].late BY <2>2
    <3>2. /\ slot \in Nat /\ day \in Days
          /\ \A z \in events' :
               \/ z.id = new /\ z.order = slot /\ z.day = day
               \/ \E e \in events : z.id = e.id /\ z.day = e.day /\ z.order = Moved(e.order, slot)
          /\ \A e \in events : e.order \in Nat /\ (e.day > day => e.order >= slot)
          /\ (\A e \in events : e.order < slot) \/ (\E b \in events : b.day > day /\ b.order = slot)
      BY <1>3, <3>1, InsertedIs
    <3>3. \A e, f \in events : e.id # f.id => e.order # f.order /\ (e.day < f.day => e.order < f.order)
      BY <2>2, <3>1 DEF ReadsInOrder
    <3>4. \A e \in events : e.day \in Nat BY <2>2, TimelineAssumption DEF Well, Events
    <3>5. day \in Nat BY <3>2, TimelineAssumption
    <3> HIDE DEF slot, day, new
    <3>6. ASSUME NEW e \in events, e.day < day PROVE e.order < slot
      <4>1. CASE \A f \in events : f.order < slot BY <4>1
      <4>2. CASE \E b \in events : b.day > day /\ b.order = slot
        <5>1. PICK b \in events : b.day > day /\ b.order = slot BY <4>2
        <5>2. e.day < b.day BY <3>4, <3>5, <3>6, <5>1
        <5>3. e.id # b.id
          <6>1. e.id = b.id => e = b BY <2>2 DEF Well
          <6> QED BY <3>4, <5>2, <6>1
        <5> QED BY <3>3, <5>1, <5>2, <5>3
      <4> QED BY <3>2, <4>1, <4>2
    <3>7. ASSUME NEW e \in events
          PROVE  /\ Moved(e.order, slot) # slot
                 /\ e.day < day => Moved(e.order, slot) < slot
                 /\ day < e.day => slot < Moved(e.order, slot)
      <4>1. e.order \in Nat /\ (e.day > day => e.order >= slot) /\ slot \in Nat BY <3>2
      <4> QED BY <3>4, <3>5, <3>6, <4>1 DEF Moved
    <3>8. CASE x.id = new /\ x.order = slot /\ x.day = day
      <4>1. PICK f \in events : y.id = f.id /\ y.day = f.day /\ y.order = Moved(f.order, slot)
        BY <3>2, <3>8
      <4> QED BY <3>7, <3>8, <4>1
    <3>9. CASE y.id = new /\ y.order = slot /\ y.day = day
      <4>1. PICK e \in events : x.id = e.id /\ x.day = e.day /\ x.order = Moved(e.order, slot)
        BY <3>2, <3>9
      <4> QED BY <3>7, <3>9, <4>1
    <3>10. CASE (\E e \in events : x.id = e.id /\ x.day = e.day /\ x.order = Moved(e.order, slot))
                /\ \E f \in events : y.id = f.id /\ y.day = f.day /\ y.order = Moved(f.order, slot)
      <4>1. PICK e \in events : x.id = e.id /\ x.day = e.day /\ x.order = Moved(e.order, slot)
        BY <3>10
      <4>2. PICK f \in events : y.id = f.id /\ y.day = f.day /\ y.order = Moved(f.order, slot)
        BY <3>10
      <4>3. e.order # f.order /\ (e.day < f.day => e.order < f.order) BY <3>3, <4>1, <4>2
      <4>4. e.order \in Nat /\ f.order \in Nat /\ slot \in Nat BY <3>2
      <4> QED BY <4>1, <4>2, <4>3, <4>4 DEF Moved
    <3> QED BY <3>2, <3>8, <3>9, <3>10
  <2>4. arranged' \in BOOLEAN BY <2>2
  <2> QED BY <1>1, <2>1, <2>2, <2>3, <2>4, SettledStands
<1> QED BY <1>2, <1>3, InsertEventIs

-----------------------------------------------------------------------------
(* The other requests that commit.                                         *)

LEMMA EditEventIs ==
  ASSUME TimelineOK, NEW q \in Changes, EditEvent(q), ~Refuse(q)
  PROVE  /\ Well(events') /\ Settle(q) /\ arranged' = TRUE /\ UNCHANGED readable
         /\ \A x \in events' : \E e \in events : x.id = e.id
         /\ \A e \in events : \E x \in events' : x.id = e.id
<1>1. Well(events) /\ change[q].day \in Days BY DEF TimelineOK, ChangesOK, EditEvent
<1>2. /\ events' = {IF e.id = change[q].event THEN [e EXCEPT !.day = change[q].day] ELSE e : e \in events}
      /\ arranged' = TRUE /\ Settle(q) /\ UNCHANGED readable
  BY DEF EditEvent
<1> DEFINE g == [e \in events |-> IF e.id = change[q].event THEN [e EXCEPT !.day = change[q].day] ELSE e]
<1>3. ASSUME NEW e \in events
      PROVE  g[e] \in Events /\ g[e].id = e.id /\ g[e].made = e.made /\ g[e].order = e.order
  <2>1. e \in Events BY <1>1 DEF Well
  <2>2. g[e] = e \/ g[e] = [e EXCEPT !.day = change[q].day] OBVIOUS
  <2> HIDE DEF g
  <2> QED BY <1>1, <2>1, <2>2 DEF Events
<1>4. events' = {g[e] : e \in events} BY <1>2
<1> HIDE DEF g
<1>5. PICK n \in Nat : \A e \in events : e.order <= n BY <1>1 DEF Well
<1>6. \A e \in events : g[e].order <= n BY <1>3, <1>5
<1>7. \A e \in events : g[e] \in Events /\ g[e].id = e.id /\ g[e].made = e.made BY <1>3
<1>8. Well(events') BY <1>1, <1>4, <1>6, <1>7, MappedIsWell
<1> QED BY <1>2, <1>3, <1>4, <1>8

LEMMA RemoveEventIs ==
  ASSUME TimelineOK, NEW q \in Changes, RemoveEvent(q), ~Refuse(q)
  PROVE  /\ Well(events') /\ Settle(q) /\ UNCHANGED <<arranged, readable>> /\ events' \subseteq events
         /\ \A e \in events : e \in events' \/ e.id = change[q].event
<1>1. Well(events) BY DEF TimelineOK
<1>2. events' = events \ Listed({change[q].event}) /\ Settle(q) /\ UNCHANGED <<arranged, readable>>
  BY DEF RemoveEvent
<1>3. events' \in SUBSET events BY <1>2
<1>4. Well(events') BY <1>1, <1>3, PartIsWell
<1> QED BY <1>2, <1>4 DEF Listed

LEMMA ArrangeEventsIs ==
  ASSUME TimelineOK, NEW q \in Changes, ArrangeEvents(q), ~Refuse(q)
  PROVE  /\ Well(events') /\ Settle(q) /\ arranged' = TRUE /\ UNCHANGED readable
         /\ \A x \in events' : \E e \in events : x.id = e.id
         /\ \A e \in events : \E x \in events' : x.id = e.id
<1> DEFINE wanted == change[q].wanted
           g == [e \in events |-> IF e.id \in DOMAIN wanted THEN [e EXCEPT !.order = wanted[e.id]] ELSE e]
<1>1. Well(events) /\ Numbered(wanted) BY DEF TimelineOK, ArrangeEvents
<1>2. /\ events' = {IF e.id \in DOMAIN wanted THEN [e EXCEPT !.order = wanted[e.id]] ELSE e : e \in events}
      /\ arranged' = TRUE /\ Settle(q) /\ UNCHANGED readable
  BY DEF ArrangeEvents
<1>3. PICK n \in Nat : \A id \in DOMAIN wanted : wanted[id] \in Nat /\ wanted[id] <= n
  BY <1>1 DEF Numbered
<1>4. PICK k \in Nat : \A e \in events : e.order <= k BY <1>1 DEF Well
<1>5. PICK l \in Nat : n <= l /\ k <= l
  <2>1. n <= k \/ k <= n OBVIOUS
  <2> QED BY <2>1
<1>6. ASSUME NEW e \in events
      PROVE  g[e] \in Events /\ g[e].id = e.id /\ g[e].made = e.made /\ g[e].order <= l
  <2>1. e \in Events /\ e.order \in Nat /\ e.order <= k BY <1>1, <1>4 DEF Well, Events
  <2>2. CASE e.id \in DOMAIN wanted
    <3>1. PICK o \in Nat : o = wanted[e.id] /\ o <= n BY <1>3, <2>2
    <3>2. g[e] = [e EXCEPT !.order = o] BY <2>2, <3>1
    <3> HIDE DEF g
    <3> QED BY <1>5, <2>1, <3>1, <3>2 DEF Events
  <2>3. CASE e.id \notin DOMAIN wanted
    <3>1. g[e] = e BY <2>3
    <3> HIDE DEF g
    <3> QED BY <1>5, <2>1, <3>1
  <2> QED BY <2>2, <2>3
<1>7. events' = {g[e] : e \in events} BY <1>2
<1> HIDE DEF g, wanted
<1>8. \A e \in events : g[e] \in Events /\ g[e].id = e.id /\ g[e].made = e.made BY <1>6
<1>9. \A e \in events : g[e].order <= l BY <1>6
<1>10. Well(events') BY <1>1, <1>7, <1>8, <1>9, MappedIsWell
<1> QED BY <1>2, <1>6, <1>7, <1>10

LEMMA DerivedIs ==
  ASSUME TimelineOK, NEW q \in Changes
  PROVE  Well(Derived(q)) /\ \A e \in Derived(q) : e.id.request = q
<1> DEFINE found == change[q].found
           g == [d \in found |-> [id |-> [request |-> q, document |-> d], order |-> 0,
                                  day |-> DayOf[d], made |-> q]]
<1>1. found \subseteq Dated BY DEF TimelineOK, ChangeStates
<1>2. IsFiniteSet(found) BY <1>1, TimelineAssumption, FS_Subset
<1>3. Derived(q) = {g[d] : d \in found} BY DEF Derived
<1>4. ASSUME NEW d \in found
      PROVE  /\ g[d] \in Events /\ g[d].order = 0 /\ g[d].made = q /\ q # Null /\ d # Null
             /\ g[d].id.document = d /\ g[d].id.request = q /\ g[d].id = [request |-> q, document |-> d]
             /\ g[d].day = DayOf[d]
  <2>1. d \in Dated /\ DayOf[d] \in Days /\ d # Null /\ q # Null BY <1>1, TimelineAssumption
  <2>2. [request |-> q, document |-> d] \in Ids BY <2>1 DEF Ids
  <2> QED BY <2>1, <2>2 DEF Events
<1>5. IsFiniteSet({g[d] : d \in found}) BY <1>2, ImageIsFinite
<1>6. \A d, c \in found : g[d].id = g[c].id => d = c BY <1>4
<1> HIDE DEF g, found
<1>7. \A e \in Derived(q) : /\ e \in Events /\ e.order = 0 /\ e.id.request = q
                           /\ e.made # Null /\ e.id.document # Null
  <2> SUFFICES ASSUME NEW e \in Derived(q)
               PROVE  /\ e \in Events /\ e.order = 0 /\ e.id.request = q
                      /\ e.made # Null /\ e.id.document # Null
    OBVIOUS
  <2>1. PICK d \in found : e = g[d] BY <1>3
  <2> QED BY <1>4, <2>1
<1>8. \A e, f \in Derived(q) : e.id = f.id => e = f BY <1>3, <1>4, <1>6
<1>9. \E n \in Nat : \A e \in Derived(q) : e.order <= n
  <2>1. \A e \in Derived(q) : e.order <= 0 BY <1>7
  <2> QED BY <2>1
<1> QED BY <1>3, <1>5, <1>7, <1>8, <1>9 DEF Well

LEMMA DeriveEventsIs ==
  ASSUME TimelineOK, NEW q \in Changes, DeriveEvents(q), ~Refuse(q)
  PROVE  /\ Well(events') /\ Settle(q) /\ arranged' = FALSE /\ UNCHANGED readable
         /\ \A x \in events' : x.id.request = q \/ \E e \in events : x.id = e.id
         /\ \A e \in events : e.id \in change[q].seen \/ \E x \in events' : x.id = e.id
         /\ \A a, b \in events' : a.id # b.id =>
              a.order # b.order /\ (a.day < b.day => a.order < b.order)
<1> DEFINE left == events \ Listed(change[q].seen)
           all == left \cup Derived(q)
<1>1. Well(events) /\ Made /\ change[q].pc = "derive" BY DEF TimelineOK, DeriveEvents
<1>2. PICK order \in Chronological(all) : events' = {[e EXCEPT !.order = order[e.id]] : e \in all}
  BY DEF DeriveEvents
<1>3. arranged' = FALSE /\ Settle(q) /\ UNCHANGED readable BY DEF DeriveEvents
<1>4. Well(all)
  <2>1. Well(left) BY <1>1, PartIsWell
  <2>2. Well(Derived(q)) /\ \A e \in Derived(q) : e.id.request = q BY DerivedIs
  <2>3. \A e \in left, f \in Derived(q) : e.id # f.id BY <1>1, <2>2 DEF Made
  <2> HIDE DEF left
  <2> QED BY <2>1, <2>2, <2>3, JoinedIsWell
<1>5. \A e \in all : e.id.request = q \/ e \in events BY DerivedIs
<1>6. \A e \in events : e.id \in change[q].seen \/ e \in all BY DEF Listed
<1> HIDE DEF left, all
<1>7. /\ order \in [{e.id : e \in all} -> 0..(Cardinality(all) - 1)]
      /\ \A a, b \in all : (a.day < b.day => order[a.id] < order[b.id])
                           /\ (a.id # b.id => order[a.id] # order[b.id])
  BY DEF Chronological
<1>8. Cardinality(all) \in Nat BY <1>4, FS_CardinalityType DEF Well
<1> DEFINE g == [e \in all |-> [e EXCEPT !.order = order[e.id]]]
<1>9. ASSUME NEW e \in all
      PROVE  /\ g[e] \in Events /\ g[e].id = e.id /\ g[e].made = e.made /\ g[e].day = e.day
             /\ g[e].order = order[e.id] /\ g[e].order <= Cardinality(all)
  <2>1. e \in Events BY <1>4 DEF Well
  <2>2. PICK o \in Nat : o = order[e.id] /\ o <= Cardinality(all) BY <1>7, <1>8
  <2>3. g[e] = [e EXCEPT !.order = o] BY <2>2
  <2> HIDE DEF g
  <2> QED BY <2>1, <2>2, <2>3 DEF Events
<1>10. events' = {g[e] : e \in all} BY <1>2
<1> HIDE DEF g
<1>11. \A e \in all : g[e] \in Events /\ g[e].id = e.id /\ g[e].made = e.made BY <1>9
<1>12. \A e \in all : g[e].order <= Cardinality(all) BY <1>9
<1>13. Well(events') BY <1>4, <1>8, <1>10, <1>11, <1>12, MappedIsWell
<1>14. \A x \in events' : x.id.request = q \/ \E e \in events : x.id = e.id BY <1>5, <1>9, <1>10
<1>15. \A e \in events : e.id \in change[q].seen \/ \E x \in events' : x.id = e.id
  BY <1>6, <1>9, <1>10
<1>16. \A a, b \in events' : a.id # b.id =>
         a.order # b.order /\ (a.day < b.day => a.order < b.order)
  BY <1>7, <1>9, <1>10
<1> QED BY <1>3, <1>13, <1>14, <1>15, <1>16

LEMMA ChangeStepStands ==
  ASSUME TimelineOK, NEW q \in Changes, ChangeStep(q)
  PROVE  TimelineOK'
<1>1. change[q] \in ChangeStates /\ Well(events) /\ arranged \in BOOLEAN /\ ReadsInOrder
  BY DEF TimelineOK
<1>2. CASE Refuse(q) /\ (EditEvent(q) \/ RemoveEvent(q) \/ ArrangeEvents(q) \/ DeriveEvents(q))
  <2>1. change[q].pc # "done" /\ UNCHANGED readable
    BY <1>2 DEF EditEvent, RemoveEvent, ArrangeEvents, DeriveEvents
  <2> QED BY <1>2, <2>1, RefusedStands
<1>3. CASE EditEvent(q) /\ ~Refuse(q)
  <2>1. /\ Well(events') /\ Settle(q) /\ arranged' = TRUE /\ UNCHANGED readable
        /\ \A x \in events' : \E e \in events : x.id = e.id
    BY <1>3, EditEventIs
  <2>2. ReadsInOrder' BY <2>1 DEF ReadsInOrder
  <2>3. arranged' \in BOOLEAN /\ \A x \in events' : x.id.request = q \/ \E e \in events : e.id = x.id
    BY <2>1
  <2> QED BY <2>1, <2>2, <2>3, SettledStands
<1>4. CASE RemoveEvent(q) /\ ~Refuse(q)
  <2>1. /\ Well(events') /\ Settle(q) /\ UNCHANGED <<arranged, readable>> /\ events' \subseteq events
    BY <1>4, RemoveEventIs
  <2>2. overtaken => overtaken' BY <2>1 DEF Settle
  <2>3. ReadsInOrder' BY <1>1, <2>1, <2>2 DEF ReadsInOrder
  <2>4. arranged' \in BOOLEAN /\ \A x \in events' : x.id.request = q \/ \E e \in events : e.id = x.id
    BY <1>1, <2>1
  <2> QED BY <2>1, <2>3, <2>4, SettledStands
<1>5. CASE ArrangeEvents(q) /\ ~Refuse(q)
  <2>1. /\ Well(events') /\ Settle(q) /\ arranged' = TRUE /\ UNCHANGED readable
        /\ \A x \in events' : \E e \in events : x.id = e.id
    BY <1>5, ArrangeEventsIs
  <2>2. ReadsInOrder' BY <2>1 DEF ReadsInOrder
  <2>3. arranged' \in BOOLEAN /\ \A x \in events' : x.id.request = q \/ \E e \in events : e.id = x.id
    BY <2>1
  <2> QED BY <2>1, <2>2, <2>3, SettledStands
<1>6. CASE DeriveEvents(q) /\ ~Refuse(q)
  <2>1. /\ Well(events') /\ Settle(q) /\ arranged' = FALSE /\ UNCHANGED readable
        /\ \A x \in events' : x.id.request = q \/ \E e \in events : x.id = e.id
        /\ \A a, b \in events' : a.id # b.id =>
             a.order # b.order /\ (a.day < b.day => a.order < b.order)
    BY <1>6, DeriveEventsIs
  <2>2. ReadsInOrder' BY <2>1 DEF ReadsInOrder
  <2>3. arranged' \in BOOLEAN /\ \A x \in events' : x.id.request = q \/ \E e \in events : e.id = x.id
    BY <2>1
  <2> QED BY <2>1, <2>2, <2>3, SettledStands
<1>7. CASE InsertEvent(q) BY <1>7, InsertEventStands
<1>8. CASE ClearGenerated(q) BY <1>8, AskStands
<1> QED BY <1>2, <1>3, <1>4, <1>5, <1>6, <1>7, <1>8 DEF ChangeStep

LEMMA RestingStands ==
  ASSUME TimelineOK, UNCHANGED <<events, change, arranged, overtaken>>, readable' \subseteq Dated
  PROVE  TimelineOK'
<1>1. /\ Well(events) /\ Made /\ change \in [Changes -> ChangeStates] /\ ChangesOK
      /\ \A q \in Changes : change[q].pc = "arrange" => Numbered(change[q].wanted)
      /\ arranged \in BOOLEAN /\ overtaken \in BOOLEAN /\ ReadsInOrder
  BY DEF TimelineOK
<1>2. Well(events') /\ Made' /\ change' \in [Changes -> ChangeStates] /\ ReadsInOrder'
  BY <1>1 DEF Made, ReadsInOrder
<1>3. ChangesOK' BY <1>1 DEF ChangesOK, Slot, Later
<1>4. \A q \in Changes : (change[q].pc = "arrange" => Numbered(change[q].wanted))'
  BY <1>1 DEF Numbered
<1> QED BY <1>1, <1>2, <1>3, <1>4 DEF TimelineOK

LEMMA TimelineStep == TimelineOK /\ [TimelineNext]_timelineVars => TimelineOK'
<1> SUFFICES ASSUME TimelineOK, [TimelineNext]_timelineVars PROVE TimelineOK' OBVIOUS
<1>1. readable \subseteq Dated BY DEF TimelineOK
<1>2. CASE UNCHANGED timelineVars BY <1>1, <1>2, RestingStands DEF timelineVars
<1>3. ASSUME NEW d \in Dated, EvidenceRead(d) PROVE TimelineOK'
  BY <1>1, <1>3, RestingStands DEF EvidenceRead
<1>4. ASSUME NEW q \in Changes,
             CreateEvent(q) \/ FindEvent(q) \/ ReorderEvents(q) \/ AnalyzeTimeline(q) \/ ChangeStep(q)
      PROVE  TimelineOK'
  BY <1>4, AskStands, ChangeStepStands
<1> QED BY <1>2, <1>3, <1>4 DEF TimelineNext

LEMMA TimelineFirst == TimelineInit => TimelineOK
<1> SUFFICES ASSUME TimelineInit PROVE TimelineOK OBVIOUS
<1>1. Well({}) BY FS_EmptySet DEF Well
<1>2. \A q \in Changes : change[q] = NoChange BY DEF TimelineInit
<1>3. change \in [Changes -> ChangeStates] BY NoChangeIs DEF TimelineInit
<1>4. ChangesOK BY <1>2, NoChangeIs DEF ChangesOK
<1>5. Made /\ ReadsInOrder BY DEF TimelineInit, Made, ReadsInOrder
<1> QED BY <1>1, <1>2, <1>3, <1>4, <1>5, NoChangeIs DEF TimelineInit, TimelineOK

(* The timeline reads by the days, every event in a place of its own, until *)
(* somebody puts it in another order or a request commits after another    *)
(* that it has not read.                                                   *)
THEOREM TimelineCorrect == TimelineSpec => []TimelineInv
<1>1. TimelineSpec => []TimelineOK BY TimelineFirst, TimelineStep, PTL DEF TimelineSpec
<1> QED BY <1>1, TimelineOKIsInv, PTL

-----------------------------------------------------------------------------
(* What a step may never do.                                               *)

LEMMA CustomOrderStep == TimelineOK => CustomOrderIsStable
<1> SUFFICES ASSUME TimelineOK, arranged, ~overtaken', NEW q \in Changes,
                    InsertEvent(q) \/ RemoveEvent(q)
             PROVE  /\ OwnPlaces(events) => OwnPlaces(events')
                    /\ \A a, b \in events, x, y \in events' :
                         x.id = a.id /\ y.id = b.id /\ a.order < b.order => x.order < y.order
  BY DEF CustomOrderIsStable
<1>1. Well(events) BY DEF TimelineOK
<1>2. ASSUME events' \subseteq events
      PROVE  /\ OwnPlaces(events) => OwnPlaces(events')
             /\ \A a, b \in events, x, y \in events' :
                  x.id = a.id /\ y.id = b.id /\ a.order < b.order => x.order < y.order
  <2>1. \A a \in events, x \in events' : x.id = a.id => x = a BY <1>1, <1>2 DEF Well
  <2>2. OwnPlaces(events) => OwnPlaces(events') BY <1>2 DEF OwnPlaces
  <2> QED BY <2>1, <2>2
<1>3. CASE RemoveEvent(q)
  <2>1. CASE Refuse(q) BY <1>2, <2>1 DEF Refuse
  <2>2. CASE ~Refuse(q) BY <1>2, <1>3, <2>2, RemoveEventIs
  <2> QED BY <2>1, <2>2
<1>4. CASE InsertEvent(q)
  <2>1. CASE Refuse(q) BY <1>2, <2>1 DEF Refuse
  <2>2. CASE Inserts(q)
    <3> DEFINE slot == change[q].slot
               day == change[q].day
               new == [request |-> q, document |-> Null]
    <3>1. ~change[q].late BY <2>2 DEF Inserts, Settle
    <3>2. /\ slot \in Nat
          /\ \A z \in events' :
               \/ z.id = new /\ z.order = slot
               \/ \E e \in events : z.id = e.id /\ z.order = Moved(e.order, slot)
          /\ \A e \in events : e.order \in Nat
      BY <2>2, <3>1, InsertedIs
    <3>3. \A e \in events : e.id # new BY <2>2, InsertedIsWell
    <3> HIDE DEF slot, day, new
    <3>4. \A a \in events, x \in events' : x.id = a.id => x.order = Moved(a.order, slot)
      <4> SUFFICES ASSUME NEW a \in events, NEW x \in events', x.id = a.id
                   PROVE  x.order = Moved(a.order, slot)
        OBVIOUS
      <4>1. PICK e \in events : x.id = e.id /\ x.order = Moved(e.order, slot) BY <3>2, <3>3
      <4>2. e = a BY <1>1, <4>1 DEF Well
      <4> QED BY <4>1, <4>2
    <3>5. \A a, b \in events : a.order < b.order => Moved(a.order, slot) < Moved(b.order, slot)
      BY <3>2 DEF Moved
    <3>6. OwnPlaces(events) => OwnPlaces(events')
      <4> SUFFICES ASSUME OwnPlaces(events), NEW x \in events', NEW y \in events', x.id # y.id
                   PROVE  x.order # y.order
        BY DEF OwnPlaces
      <4>1. \A e \in events : Moved(e.order, slot) # slot BY <3>2 DEF Moved
      <4>2. CASE x.id = new /\ x.order = slot
        <5>1. \E f \in events : y.id = f.id /\ y.order = Moved(f.order, slot) BY <3>2, <4>2
        <5> QED BY <4>1, <4>2, <5>1
      <4>3. CASE y.id = new /\ y.order = slot
        <5>1. \E f \in events : x.id = f.id /\ x.order = Moved(f.order, slot) BY <3>2, <4>3
        <5> QED BY <4>1, <4>3, <5>1
      <4>4. CASE /\ \E e \in events : x.id = e.id /\ x.order = Moved(e.order, slot)
                 /\ \E f \in events : y.id = f.id /\ y.order = Moved(f.order, slot)
        <5>1. PICK e \in events : x.id = e.id /\ x.order = Moved(e.order, slot) BY <4>4
        <5>2. PICK f \in events : y.id = f.id /\ y.order = Moved(f.order, slot) BY <4>4
        <5>3. e.order # f.order BY <5>1, <5>2 DEF OwnPlaces
        <5>4. e.order \in Nat /\ f.order \in Nat /\ slot \in Nat BY <3>2
        <5> QED BY <5>1, <5>2, <5>3, <5>4 DEF Moved
      <4> QED BY <3>2, <4>2, <4>3, <4>4
    <3> QED BY <3>4, <3>5, <3>6
  <2> QED BY <1>4, <2>1, <2>2, InsertEventIs
<1> QED BY <1>3, <1>4

LEMMA ManualEntriesStep ==
  TimelineOK /\ [TimelineNext]_timelineVars => ManualEntriesArePreserved
<1> SUFFICES ASSUME TimelineOK, [TimelineNext]_timelineVars, NEW e \in events, e.made = Null,
                    \A x \in events' : x.id # e.id
             PROVE  \E q \in Changes : change[q].pc = "remove" /\ change[q].event = e.id
  BY DEF ManualEntriesArePreserved
<1>1. e \notin events' OBVIOUS
<1>2. Well(events) /\ ChangesOK BY DEF TimelineOK
<1>3. PICK q \in Changes : ChangeStep(q) /\ ~Refuse(q) /\ ~ClearGenerated(q)
  BY <1>1 DEF TimelineNext, timelineVars, EvidenceRead, CreateEvent, FindEvent, ReorderEvents,
     AnalyzeTimeline, ClearGenerated, Refuse
<1>4. CASE InsertEvent(q)
  <2>1. Inserts(q) BY <1>3, <1>4, InsertEventIs
  <2>2. PICK x \in Opened(q) : x.id = e.id BY OpenedIs
  <2>3. x \in events' BY <2>1, <2>2 DEF Inserts
  <2> QED BY <2>2, <2>3
<1>5. CASE EditEvent(q) BY <1>3, <1>5, EditEventIs
<1>6. CASE ArrangeEvents(q) BY <1>3, <1>6, ArrangeEventsIs
<1>7. CASE RemoveEvent(q)
  <2>1. e.id = change[q].event BY <1>1, <1>3, <1>7, RemoveEventIs
  <2> QED BY <1>7, <2>1 DEF RemoveEvent
<1>8. CASE DeriveEvents(q)
  <2>1. e.id \in change[q].seen BY <1>3, <1>8, DeriveEventsIs
  <2> QED BY <1>2, <2>1 DEF Well, ChangesOK
<1> QED BY <1>3, <1>4, <1>5, <1>6, <1>7, <1>8 DEF ChangeStep

(* However requests overlap: creating or deleting an event leaves an order *)
(* that was put by hand, and what was entered by hand stays until somebody *)
(* deletes it, whatever analyses replace.                                  *)
THEOREM TimelineKept == TimelineSpec => TimelineIsKept
<1>1. TimelineSpec => []TimelineOK BY TimelineFirst, TimelineStep, PTL DEF TimelineSpec
<1>2. TimelineOK /\ [TimelineNext]_timelineVars
        => [CustomOrderIsStable /\ ManualEntriesArePreserved]_timelineVars
  BY CustomOrderStep, ManualEntriesStep
<1>3. TimelineSpec => [][TimelineNext]_timelineVars BY DEF TimelineSpec
<1> QED BY <1>1, <1>2, <1>3, PTL DEF TimelineIsKept

-----------------------------------------------------------------------------
(* All the components of a case, of which one moves in a behaviour.        *)

OnePart ==
  /\ part \in Focus /\ TimelineOK
  /\ part = "progress" => ProgressStands /\ ChecklistIsOwed
  /\ part = "clone" => TemplateOK /\ CopyIsFaithful
  /\ part = "tasks" => TaskInv
  /\ part = "inbox" => InboxInv

LEMMA OnePartFirst == MCInit => OnePart
BY ProgressStandsFirst, ChecklistFirst, TimelineFirst, CopyStarts, TasksStart, InboxStarts
DEF MCInit, OnePart

LEMMA OnePartStep ==
  ASSUME "analysis" \notin Faults, Focus \subseteq {"progress", "timeline", "clone", "tasks", "inbox"},
         OnePart, [MCNext]_<<part, progress, timeline, boards, cloneVars, clock>>
  PROVE  OnePart'
<1>1. part' = part /\ part \in Focus BY DEF MCNext, OnePart
<1>2. TimelineOK'
  <2>1. CASE part = "timeline"
    <3>1. [TimelineNext]_timelineVars BY <2>1 DEF MCNext, timeline, timelineVars
    <3> QED BY <3>1, TimelineStep DEF OnePart
  <2>2. CASE part # "timeline"
    <3>1. UNCHANGED timeline BY <1>1, <2>2 DEF MCNext
    <3> QED BY <3>1, RestingStands DEF OnePart, TimelineOK, timeline
  <2> QED BY <2>1, <2>2
<1>3. CASE part = "progress"
  <2>1. [ProgressNext]_progressVars BY <1>3 DEF MCNext, progress, progressVars
  <2>2. ProgressStands /\ ChecklistIsOwed BY <1>3 DEF OnePart
  <2>3. ProgressStands' /\ ChecklistIsOwed' BY <2>1, <2>2, ProgressStandsStep, ChecklistStep
  <2> QED BY <1>1, <1>2, <1>3, <2>3 DEF OnePart
<1>4. CASE part = "timeline" BY <1>1, <1>2, <1>4 DEF OnePart
<1>5. CASE part = "clone"
  <2>1. [CloneUserData]_cloneVars BY <1>5 DEF MCNext, cloneVars
  <2>2. TemplateOK /\ CopyIsFaithful BY <1>5 DEF OnePart
  <2>3. TemplateOK' /\ CopyIsFaithful' BY <2>1, <2>2, CopyStep
  <2> QED BY <1>1, <1>2, <1>5, <2>3 DEF OnePart
<1>6. CASE part = "tasks"
  <2>1. [TaskNext]_taskVars BY <1>6 DEF MCNext, boards, taskVars
  <2>2. TaskInv BY <1>6 DEF OnePart
  <2>3. TaskInv' BY <2>1, <2>2, TasksStep
  <2> QED BY <1>1, <1>2, <1>6, <2>3 DEF OnePart
<1>7. CASE part = "inbox"
  <2>1. [InboxNext]_inboxVars BY <1>7 DEF MCNext, boards, inboxVars
  <2>2. InboxInv BY <1>7 DEF OnePart
  <2>3. InboxInv' BY <2>1, <2>2, InboxStep
  <2> QED BY <1>1, <1>2, <1>7, <2>3 DEF OnePart
<1> QED BY <1>1, <1>3, <1>4, <1>5, <1>6, <1>7

(* However the requests of a case overlap, its checklist, status and       *)
(* timeline agree with its records, the lists of the browser with what is  *)
(* stored, and a copy with its template, as long as no analysis is undone  *)
(* halfway by the database.                                                *)
THEOREM RecordsCorrect ==
  ASSUME "analysis" \notin Faults, Focus \subseteq {"progress", "timeline", "clone", "tasks", "inbox"}
  PROVE  MCSpec => []RecordsInv
<1>1. MCInit => OnePart BY OnePartFirst
<1>2. OnePart /\ [MCNext]_<<part, progress, timeline, boards, cloneVars, clock>> => OnePart'
  BY OnePartStep
<1>3. OnePart => RecordsInv BY OwedIsShown, TimelineOKIsInv DEF OnePart, RecordsInv
<1> QED BY <1>1, <1>2, <1>3, PTL DEF MCSpec

(* In the composition too, no step loses an order put by hand, nor an      *)
(* event entered by hand.                                                  *)
THEOREM TimelineKeptTogether ==
  ASSUME "analysis" \notin Faults, Focus \subseteq {"progress", "timeline", "clone", "tasks", "inbox"}
  PROVE  MCSpec => TimelineIsKept
<1> DEFINE all == <<part, progress, timeline, boards, cloneVars, clock>>
<1>1. MCInit => OnePart BY OnePartFirst
<1>2. OnePart /\ [MCNext]_all => OnePart' BY OnePartStep
<1>3. OnePart /\ [MCNext]_all => [CustomOrderIsStable /\ ManualEntriesArePreserved]_timelineVars
  <2> SUFFICES ASSUME OnePart, [MCNext]_all
               PROVE  [CustomOrderIsStable /\ ManualEntriesArePreserved]_timelineVars
    OBVIOUS
  <2>1. TimelineOK /\ CustomOrderIsStable BY CustomOrderStep DEF OnePart
  <2>2. CASE part = "timeline"
    <3>1. [TimelineNext]_timelineVars BY <2>2 DEF MCNext, timeline, timelineVars
    <3> QED BY <2>1, <3>1, ManualEntriesStep
  <2>3. CASE part # "timeline"
    <3>1. events' = events BY <2>3 DEF MCNext, timeline
    <3>2. ManualEntriesArePreserved BY <3>1 DEF ManualEntriesArePreserved
    <3> QED BY <2>1, <3>2
  <2> QED BY <2>2, <2>3
<1> QED BY <1>1, <1>2, <1>3, PTL DEF MCSpec, TimelineIsKept
=============================================================================
