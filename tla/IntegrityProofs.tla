-------------------------- MODULE IntegrityProofs ---------------------------
(***************************************************************************)
(* What READY and the hook's permission mean, for any files, any plan of   *)
(* edits and any number of tools.  A content only grows, so a value read   *)
(* before an instant is at most the one of that instant, and a value read  *)
(* after it at least that one; two passes that agree pin it down.          *)
(***************************************************************************)
EXTENDS Integrity, SequenceTheorems, TLAPS

-----------------------------------------------------------------------------
(* The reads of a pass *)

Record == [what : {"parse", "scan", "hash"}, file : File]

LEMMA ReadsOfShape ==
    ASSUME NEW w \in {"parse", "scan", "hash"}, NEW fs \in Seq(File)
    PROVE  /\ ReadsOf(w, fs) \in Seq(Record)
           /\ Len(ReadsOf(w, fs)) = Len(fs)
           /\ \A i \in 1..Len(fs) : ReadsOf(w, fs)[i].what = w /\ ReadsOf(w, fs)[i].file = fs[i]
  <1>1. DOMAIN fs = 1..Len(fs) /\ Len(fs) \in Nat
    OBVIOUS
  <1>2. \A i \in 1..Len(fs) : [what |-> w, file |-> fs[i]] \in Record
    BY DEF Record
  <1>3. ReadsOf(w, fs) = [i \in 1..Len(fs) |-> [what |-> w, file |-> fs[i]]]
    BY <1>1 DEF ReadsOf
  <1> QED
    BY <1>1, <1>2, <1>3

LEMMA SkillReadsShape ==
    /\ SkillReads \in Seq(Record)
    /\ Len(SkillReads) = 2 * Len(SkillFiles)
    /\ \A i \in 1 .. 2 * Len(SkillFiles) :
          SkillReads[i].what # "hash" =>
             /\ i + 1 \in 1 .. 2 * Len(SkillFiles)
             /\ SkillReads[i + 1].what = "hash"
             /\ SkillReads[i + 1].file = SkillReads[i].file
    /\ \A i \in 1 .. 2 * Len(SkillFiles) : SkillReads[i].file \in Skill
  <1> DEFINE n == Len(SkillFiles)
             W(i) == IF i % 2 = 1 THEN "scan" ELSE "hash"
             F(i) == SkillFiles[(i + 1) \div 2]
  <1>1. /\ SkillFiles \in Seq(Skill) /\ n \in Nat
        /\ DOMAIN SkillFiles = 1..n
        /\ \A i \in 1..n : SkillFiles[i] \in Skill /\ SkillFiles[i] \in File
    BY IntegrityAssumption DEF File
  <1>2. ASSUME NEW i \in 1 .. 2 * n
        PROVE  (i + 1) \div 2 \in 1..n
    BY <1>1, <1>2
  <1>3. ASSUME NEW i \in 1 .. 2 * n, i % 2 = 1
        PROVE  /\ i + 1 \in 1 .. 2 * n
               /\ (i + 1) % 2 # 1
               /\ ((i + 1) + 1) \div 2 = (i + 1) \div 2
    BY <1>1, <1>3
  <1>4. \A i \in 1 .. 2 * n : W(i) \in {"parse", "scan", "hash"} /\ F(i) \in Skill /\ F(i) \in File
    BY <1>1, <1>2
  <1>5. SkillReads = [i \in 1 .. 2 * n |-> [what |-> W(i), file |-> F(i)]]
    BY DEF SkillReads
  <1>6. \A i \in 1 .. 2 * n : F(i + 1) = SkillFiles[((i + 1) + 1) \div 2] /\ F(i) = SkillFiles[(i + 1) \div 2]
    OBVIOUS
  <1>7. \A i \in 1 .. 2 * n : W(i) # "hash" => i % 2 = 1
    OBVIOUS
  <1>8. \A i \in 1 .. 2 * n : (i + 1) % 2 # 1 => W(i + 1) = "hash"
    OBVIOUS
  <1> HIDE DEF W, F
  <1>9. SkillReads \in Seq(Record) /\ Len(SkillReads) = 2 * n
    BY <1>1, <1>4, <1>5 DEF Record
  <1>10. \A i \in 1 .. 2 * n : SkillReads[i].what = W(i) /\ SkillReads[i].file = F(i)
    BY <1>5
  <1>11. ASSUME NEW i \in 1 .. 2 * n, SkillReads[i].what # "hash"
         PROVE  /\ i + 1 \in 1 .. 2 * n
                /\ SkillReads[i + 1].what = "hash"
                /\ SkillReads[i + 1].file = SkillReads[i].file
    <2>1. i % 2 = 1
      BY <1>7, <1>10, <1>11
    <2>2. i + 1 \in 1 .. 2 * n /\ (i + 1) % 2 # 1 /\ ((i + 1) + 1) \div 2 = (i + 1) \div 2
      BY <1>3, <2>1, <1>1
    <2>3. W(i + 1) = "hash" /\ F(i + 1) = F(i)
      BY <1>6, <1>8, <2>2
    <2> QED
      BY <1>10, <2>2, <2>3
  <1> QED
    BY <1>4, <1>9, <1>10, <1>11

LEMMA Joined ==
    ASSUME NEW S, NEW s \in Seq(S), NEW t \in Seq(S)
    PROVE  /\ s \o t \in Seq(S)
           /\ Len(s \o t) = Len(s) + Len(t)
           /\ \A i \in 1..Len(s) : (s \o t)[i] = s[i]
           /\ \A i \in 1..Len(t) : (s \o t)[Len(s) + i] = t[i]
  <1>1. Len(s) \in Nat /\ Len(t) \in Nat
    OBVIOUS
  <1>2. /\ s \o t \in Seq(S)
        /\ Len(s \o t) = Len(s) + Len(t)
        /\ \A i \in 1 .. Len(s) + Len(t) :
              (s \o t)[i] = IF i <= Len(s) THEN s[i] ELSE t[i - Len(s)]
    BY ConcatProperties
  <1>3. \A i \in 1..Len(s) : i \in 1 .. Len(s) + Len(t) /\ i <= Len(s)
    BY <1>1
  <1>4. ASSUME NEW i \in 1..Len(t)
        PROVE  (s \o t)[Len(s) + i] = t[i]
    <2>1. /\ Len(s) + i \in 1 .. Len(s) + Len(t)
          /\ ~(Len(s) + i <= Len(s))
          /\ (Len(s) + i) - Len(s) = i
      BY <1>1
    <2> QED
      BY <1>2, <2>1
  <1> QED
    BY <1>2, <1>3, <1>4

\* A pass is five series of reads, one after the other.
LEMMA PlanParts ==
    LET A == ReadsOf("parse", <<"policy", "registry">>)
        C == ReadsOf("hash", OtherFiles)
        D == ReadsOf("hash", FileOrder)
        E == ReadsOf("hash", <<"policy">>)
        n == Len(SkillFiles)
    IN  /\ Plan \in Seq(Record)
        /\ Len(Plan) = 2 + 2 * n + Len(C) + Len(D) + 1
        /\ Plan[1] = A[1]
        /\ Plan[2] = A[2]
        /\ \A i \in 1 .. 2 * n : Plan[2 + i] = SkillReads[i]
        /\ \A i \in 1 .. Len(C) : Plan[2 + 2 * n + i] = C[i]
        /\ \A i \in 1 .. Len(D) : Plan[2 + 2 * n + Len(C) + i] = D[i]
        /\ Plan[Len(Plan)] = E[1]
  <1> DEFINE A == ReadsOf("parse", <<"policy", "registry">>)
             B == SkillReads
             C == ReadsOf("hash", OtherFiles)
             D == ReadsOf("hash", FileOrder)
             E == ReadsOf("hash", <<"policy">>)
             n == Len(SkillFiles)
  <1>1. /\ SkillFiles \in Seq(File) /\ OtherFiles \in Seq(File)
        /\ n \in Nat /\ DOMAIN SkillFiles = 1..n
    BY IntegrityAssumption DEF File
  <1>2. /\ <<"policy", "registry">> \in Seq(File)
        /\ <<"policy">> \in Seq(File)
    BY DEF File
  <1>3. FileOrder \in Seq(File)
    BY <1>1, <1>2 DEF FileOrder
  <1>4. /\ A \in Seq(Record) /\ Len(A) = 2
        /\ A[1].what = "parse" /\ A[1].file = "policy" /\ A[2].what = "parse"
    <2> DEFINE f == <<"policy", "registry">>
    <2>1. f \in Seq(File) /\ Len(f) = 2 /\ f[1] = "policy"
      BY <1>2
    <2> HIDE DEF f
    <2>2. /\ ReadsOf("parse", f) \in Seq(Record) /\ Len(ReadsOf("parse", f)) = Len(f)
          /\ \A i \in 1..Len(f) :
                ReadsOf("parse", f)[i].what = "parse" /\ ReadsOf("parse", f)[i].file = f[i]
      BY <2>1, ReadsOfShape
    <2> QED
      BY <2>1, <2>2 DEF f
  <1>5. C \in Seq(Record) /\ \A i \in 1..Len(C) : C[i].what = "hash"
    BY <1>1, ReadsOfShape
  <1>6. D \in Seq(Record) /\ \A i \in 1..Len(D) : D[i].what = "hash"
    BY <1>3, ReadsOfShape
  <1>7. E \in Seq(Record) /\ Len(E) = 1 /\ E[1].what = "hash" /\ E[1].file = "policy"
    <2>1. Len(<<"policy">>) = 1 /\ <<"policy">>[1] = "policy"
      OBVIOUS
    <2>2. /\ E \in Seq(Record) /\ Len(E) = Len(<<"policy">>)
          /\ \A i \in 1..Len(<<"policy">>) : E[i].what = "hash" /\ E[i].file = <<"policy">>[i]
      BY <1>2, ReadsOfShape
    <2> HIDE DEF E
    <2> QED
      BY <2>1, <2>2
  <1>8. B \in Seq(Record) /\ Len(B) = 2 * n
    BY SkillReadsShape
  <1> HIDE DEF A, B, C, D, E
  <1>9. /\ Plan \in Seq(Record)
        /\ Len(Plan) = 2 + 2 * n + Len(C) + Len(D) + 1
        /\ Plan[1] = A[1]
        /\ Plan[2] = A[2]
        /\ \A i \in 1 .. 2 * n : Plan[2 + i] = B[i]
        /\ \A i \in 1 .. Len(C) : Plan[2 + 2 * n + i] = C[i]
        /\ \A i \in 1 .. Len(D) : Plan[2 + 2 * n + Len(C) + i] = D[i]
        /\ Plan[Len(Plan)] = E[1]
    <2>0. Plan = (((A \o B) \o C) \o D) \o E
      BY DEF Plan, A, B, C, D, E
    <2> DEFINE P == A \o B
               Q == P \o C
               R == Q \o D
    <2>1. /\ P \in Seq(Record) /\ Len(P) = 2 + 2 * n
          /\ P[1] = A[1] /\ P[2] = A[2]
          /\ \A i \in 1 .. 2 * n : P[2 + i] = B[i]
      <3>1. /\ P \in Seq(Record) /\ Len(P) = Len(A) + Len(B)
            /\ \A i \in 1 .. Len(A) + Len(B) : P[i] = IF i <= Len(A) THEN A[i] ELSE B[i - Len(A)]
        BY <1>4, <1>8, ConcatProperties
      <3> HIDE DEF P
      <3>2. ASSUME NEW i \in 1 .. 2 * n
            PROVE  P[2 + i] = B[i]
        <4>1. 2 + i \in 1 .. Len(A) + Len(B) /\ ~(2 + i <= Len(A)) /\ (2 + i) - Len(A) = i
          BY <1>1, <1>4, <1>8
        <4> QED
          BY <3>1, <4>1
      <3> QED
        BY <1>1, <1>4, <1>8, <3>1, <3>2
    <2> HIDE DEF P
    <2>2. /\ Q \in Seq(Record) /\ Len(Q) = Len(P) + Len(C)
          /\ \A i \in 1 .. Len(P) : Q[i] = P[i]
          /\ \A i \in 1 .. Len(C) : Q[Len(P) + i] = C[i]
      <3>1. P \in Seq(Record) /\ C \in Seq(Record)
        BY <1>5, <2>1
      <3> QED
        BY <3>1, Joined
    <2> HIDE DEF Q
    <2>3. /\ R \in Seq(Record) /\ Len(R) = Len(Q) + Len(D)
          /\ \A i \in 1 .. Len(Q) : R[i] = Q[i]
          /\ \A i \in 1 .. Len(D) : R[Len(Q) + i] = D[i]
      <3>1. Q \in Seq(Record) /\ D \in Seq(Record)
        BY <1>6, <2>2
      <3> QED
        BY <3>1, Joined
    <2> HIDE DEF R
    <2>4. /\ Plan \in Seq(Record) /\ Len(Plan) = Len(R) + 1
          /\ \A i \in 1 .. Len(R) : Plan[i] = R[i]
          /\ Plan[Len(R) + 1] = E[1]
      <3>1. Plan = R \o E
        BY <2>0 DEF P, Q, R
      <3>2. /\ R \o E \in Seq(Record) /\ Len(R \o E) = Len(R) + Len(E)
            /\ \A i \in 1 .. Len(R) : (R \o E)[i] = R[i]
            /\ \A i \in 1 .. Len(E) : (R \o E)[Len(R) + i] = E[i]
        <4>1. R \in Seq(Record) /\ E \in Seq(Record)
          BY <1>7, <2>3
        <4> QED
          BY <4>1, Joined
      <3>3. /\ Plan \in Seq(Record) /\ Len(Plan) = Len(R) + Len(E)
            /\ \A i \in 1 .. Len(R) : Plan[i] = R[i]
            /\ \A i \in 1 .. Len(E) : Plan[Len(R) + i] = E[i]
        BY <3>1, <3>2, Zenon
      <3> QED
        BY <1>7, <3>3
    <2>5. Len(C) \in Nat /\ Len(D) \in Nat /\ Len(P) \in Nat /\ Len(Q) \in Nat /\ Len(R) \in Nat
      BY <1>5, <1>6, <2>1, <2>2, <2>3
    <2>6. /\ 1 \in 1..Len(P) /\ 2 \in 1..Len(P)
          /\ \A i \in 1 .. 2 * n : 2 + i \in 1..Len(P)
      BY <1>1, <2>1
    <2>7. \A i \in 1..Len(P) : i \in 1..Len(Q) /\ i \in 1..Len(R)
      BY <2>2, <2>3, <2>5
    <2>8. \A i \in 1..Len(P) : Plan[i] = P[i]
      BY <2>2, <2>3, <2>4, <2>7
    <2>9. \A i \in 1..Len(C) : Len(P) + i \in 1..Len(Q) /\ Len(P) + i \in 1..Len(R)
      BY <2>2, <2>3, <2>5
    <2>10. \A i \in 1..Len(C) : Plan[Len(P) + i] = C[i]
      BY <2>2, <2>3, <2>4, <2>9
    <2>11. \A i \in 1..Len(D) : Len(Q) + i \in 1..Len(R)
      BY <2>3, <2>5
    <2>12. \A i \in 1..Len(D) : Plan[Len(Q) + i] = D[i]
      BY <2>3, <2>4, <2>11
    <2>13. Len(P) = 2 + 2 * n /\ Len(Q) = 2 + 2 * n + Len(C)
           /\ Len(R) = 2 + 2 * n + Len(C) + Len(D)
      BY <2>1, <2>2, <2>3
    <2>14. Plan[1] = A[1] /\ Plan[2] = A[2] /\ \A i \in 1 .. 2 * n : Plan[2 + i] = B[i]
      BY <2>1, <2>6, <2>8
    <2> QED
      BY <2>4, <2>10, <2>12, <2>13, <2>14
  <1> QED
    BY <1>9 DEF A, B, C, D, E

\* A pass parses the policy first and hashes it last, and hashes every skill
\* file again after it has scanned it.
LEMMA PlanShape ==
    /\ Len(Plan) \in Nat /\ Len(Plan) > 1 /\ Position = 1..Len(Plan)
    /\ Len(SkillFiles) \in Nat /\ Len(SkillFiles) < Len(Plan)
    /\ DOMAIN SkillFiles = 1..Len(SkillFiles)
    /\ \A k \in Position : Plan[k] \in Record
    /\ Plan[1].what = "parse" /\ Plan[1].file = "policy"
    /\ Plan[Len(Plan)].what = "hash" /\ Plan[Len(Plan)].file = "policy"
    /\ \A k \in Scans : k + 1 \in Hashes /\ Plan[k + 1].file = Plan[k].file
    /\ \A k \in Scans : Plan[k].file \in Skill
  <1> DEFINE A == ReadsOf("parse", <<"policy", "registry">>)
             B == SkillReads
             C == ReadsOf("hash", OtherFiles)
             D == ReadsOf("hash", FileOrder)
             E == ReadsOf("hash", <<"policy">>)
             n == Len(SkillFiles)
  <1>1. /\ SkillFiles \in Seq(File) /\ OtherFiles \in Seq(File)
        /\ n \in Nat /\ DOMAIN SkillFiles = 1..n
    BY IntegrityAssumption DEF File
  <1>2. /\ <<"policy", "registry">> \in Seq(File)
        /\ <<"policy">> \in Seq(File)
    BY DEF File
  <1>3. FileOrder \in Seq(File)
    BY <1>1, <1>2 DEF FileOrder
  <1>4. /\ A \in Seq(Record) /\ Len(A) = 2
        /\ A[1].what = "parse" /\ A[1].file = "policy" /\ A[2].what = "parse"
    <2> DEFINE f == <<"policy", "registry">>
    <2>1. f \in Seq(File) /\ Len(f) = 2 /\ f[1] = "policy"
      BY <1>2
    <2> HIDE DEF f
    <2>2. /\ ReadsOf("parse", f) \in Seq(Record) /\ Len(ReadsOf("parse", f)) = Len(f)
          /\ \A i \in 1..Len(f) :
                ReadsOf("parse", f)[i].what = "parse" /\ ReadsOf("parse", f)[i].file = f[i]
      BY <2>1, ReadsOfShape
    <2> QED
      BY <2>1, <2>2 DEF f
  <1>5. C \in Seq(Record) /\ \A i \in 1..Len(C) : C[i].what = "hash"
    BY <1>1, ReadsOfShape
  <1>6. D \in Seq(Record) /\ \A i \in 1..Len(D) : D[i].what = "hash"
    BY <1>3, ReadsOfShape
  <1>7. E \in Seq(Record) /\ Len(E) = 1 /\ E[1].what = "hash" /\ E[1].file = "policy"
    <2>1. Len(<<"policy">>) = 1 /\ <<"policy">>[1] = "policy"
      OBVIOUS
    <2>2. /\ E \in Seq(Record) /\ Len(E) = Len(<<"policy">>)
          /\ \A i \in 1..Len(<<"policy">>) : E[i].what = "hash" /\ E[i].file = <<"policy">>[i]
      BY <1>2, ReadsOfShape
    <2> HIDE DEF E
    <2> QED
      BY <2>1, <2>2
  <1>8. B \in Seq(Record) /\ Len(B) = 2 * n
    BY SkillReadsShape
  <1> HIDE DEF A, B, C, D, E
  <1>9. /\ Plan \in Seq(Record)
        /\ Len(Plan) = 2 + 2 * n + Len(C) + Len(D) + 1
        /\ Plan[1] = A[1]
        /\ Plan[2] = A[2]
        /\ \A i \in 1 .. 2 * n : Plan[2 + i] = B[i]
        /\ \A i \in 1 .. Len(C) : Plan[2 + 2 * n + i] = C[i]
        /\ \A i \in 1 .. Len(D) : Plan[2 + 2 * n + Len(C) + i] = D[i]
        /\ Plan[Len(Plan)] = E[1]
    BY PlanParts DEF A, B, C, D, E
  <1>10. Len(C) \in Nat /\ Len(D) \in Nat
    BY <1>5, <1>6
  <1>11. \A k \in Position :
            \/ k \in {1, 2} \/ k = Len(Plan)
            \/ \E i \in 1 .. 2 * n : k = 2 + i
            \/ \E i \in 1 .. Len(C) : k = 2 + 2 * n + i
            \/ \E i \in 1 .. Len(D) : k = 2 + 2 * n + Len(C) + i
    <2>1. Position = 1..Len(Plan) /\ Len(Plan) = 2 + 2 * n + Len(C) + Len(D) + 1
      BY <1>9 DEF Position
    <2> DEFINE c == Len(C)
               d == Len(D)
               l == Len(Plan)
    <2>2. c \in Nat /\ d \in Nat /\ l = 2 + 2 * n + c + d + 1
      BY <1>10, <2>1
    <2> HIDE DEF c, d, l, n
    <2>3. ASSUME NEW k \in 1..l, k > 2, k # l
          PROVE  \/ k - 2 \in 1 .. 2 * n
                 \/ k - (2 + 2 * n) \in 1 .. c
                 \/ k - (2 + 2 * n + c) \in 1 .. d
      BY <1>1, <2>2, <2>3
    <2>4. ASSUME NEW k \in 1..l, k > 2, k # l
          PROVE  \/ \E i \in 1 .. 2 * n : k = 2 + i
                 \/ \E i \in 1 .. c : k = 2 + 2 * n + i
                 \/ \E i \in 1 .. d : k = 2 + 2 * n + c + i
      <3>1. /\ k = 2 + (k - 2)
            /\ k = 2 + 2 * n + (k - (2 + 2 * n))
            /\ k = 2 + 2 * n + c + (k - (2 + 2 * n + c))
        BY <1>1, <2>2
      <3> QED
        BY <2>3, <2>4, <3>1, Zenon
    <2>5. ASSUME NEW k \in 1..l, ~(k > 2)
          PROVE  k \in {1, 2}
      BY <2>2, <2>5
    <2> QED
      BY <2>1, <2>4, <2>5 DEF c, d, l, n
  <1>12. \A k \in Scans : \E i \in 1 .. 2 * n : k = 2 + i
    BY <1>4, <1>5, <1>6, <1>7, <1>9, <1>11, ZenonT(30) DEF Scans
  <1>13. ASSUME NEW k \in Scans
         PROVE  k + 1 \in Hashes /\ Plan[k + 1].file = Plan[k].file /\ Plan[k].file \in Skill
    <2>1. PICK i \in 1 .. 2 * n : k = 2 + i
      BY <1>12
    <2>2. Plan[k] = B[i] /\ B[i].what = "scan"
      BY <1>9, <2>1 DEF Scans
    <2>3. /\ i + 1 \in 1 .. 2 * n
          /\ B[i + 1].what = "hash" /\ B[i + 1].file = B[i].file
          /\ B[i].file \in Skill
      BY <2>2, SkillReadsShape DEF B
    <2>4. Plan[2 + (i + 1)] = B[i + 1]
      BY <1>9, <2>3
    <2>5. 2 + (i + 1) = k + 1 /\ k + 1 \in 1..Len(Plan)
      BY <1>1, <1>9, <1>10, <2>1, <2>3
    <2> QED
      BY <2>2, <2>3, <2>4, <2>5, <1>9 DEF Hashes, Position
  <1> QED
    BY <1>1, <1>4, <1>7, <1>9, <1>10, <1>13 DEF Position

\* After the skill files and the control files, a pass hashes every tracked
\* file in the order of repositoryFiles.
LEMMA PlanRecords ==
    /\ FileOrder \in Seq(File) /\ Len(FileOrder) \in Nat /\ DOMAIN FileOrder = 1..Len(FileOrder)
    /\ \A i \in 1..Len(FileOrder) : FileOrder[i] \in File
    /\ Len(FileOrder) + 2 <= Len(Plan)
    /\ \A i \in 1..Len(FileOrder) :
          LET k == 2 + 2 * Len(SkillFiles) + Len(OtherFiles) + i
          IN  k \in Position /\ Plan[k].what = "hash" /\ Plan[k].file = FileOrder[i]
  <1> DEFINE C == ReadsOf("hash", OtherFiles)
             D == ReadsOf("hash", FileOrder)
             n == Len(SkillFiles)
             m == Len(OtherFiles)
             l == Len(FileOrder)
  <1>1. /\ SkillFiles \in Seq(File) /\ OtherFiles \in Seq(File)
        /\ n \in Nat /\ m \in Nat
    BY IntegrityAssumption DEF File
  <1>2. <<"policy", "registry">> \in Seq(File)
    BY DEF File
  <1>3. FileOrder \in Seq(File)
    BY <1>1, <1>2 DEF FileOrder
  <1>4. /\ l \in Nat /\ DOMAIN FileOrder = 1..l
        /\ \A i \in 1..l : FileOrder[i] \in File
    BY <1>3
  <1>5. Len(C) = m
    BY <1>1, ReadsOfShape
  <1>6. /\ Len(D) = l
        /\ \A i \in 1..l : D[i].what = "hash" /\ D[i].file = FileOrder[i]
    BY <1>3, ReadsOfShape
  <1>7. /\ Len(Plan) = 2 + 2 * n + Len(C) + Len(D) + 1
        /\ \A i \in 1 .. Len(D) : Plan[2 + 2 * n + Len(C) + i] = D[i]
    BY PlanParts
  <1> HIDE DEF C, D, n, m, l
  <1>8. l + 2 <= Len(Plan)
    BY <1>1, <1>4, <1>5, <1>6, <1>7
  <1>9. ASSUME NEW i \in 1..l
        PROVE  /\ 2 + 2 * n + m + i \in Position
               /\ Plan[2 + 2 * n + m + i].what = "hash"
               /\ Plan[2 + 2 * n + m + i].file = FileOrder[i]
    <2>1. 2 + 2 * n + m + i \in 1 .. Len(Plan)
      BY <1>1, <1>4, <1>5, <1>6, <1>7
    <2>2. Plan[2 + 2 * n + m + i] = D[i]
      BY <1>5, <1>6, <1>7
    <2> QED
      BY <1>6, <2>1, <2>2, PlanShape
  <1> QED
    BY <1>3, <1>4, <1>8, <1>9 DEF n, m, l

-----------------------------------------------------------------------------
(* The inductive invariant *)

Settled == {"ready", "look", "again", "allowed"}

\* The steps of a process that has no pass and no verdict to answer for.
Waiting == {"idle", "write", "flush", "load", "unlink", "sign", "emit", "capture",
            "authenticate"}
Quiet == Waiting \cup {"publish"}

Types ==
    /\ tree \in [File -> Content]
    /\ installed \in [Skill -> Content]
    /\ at \in [Tool -> 1 .. Len(Plan) + 1]
    /\ seen \in [Tool -> [Position -> 0 .. MaxContent]]
    /\ DOMAIN pc = Tool /\ DOMAIN op = Tool /\ DOMAIN stored = Tool /\ DOMAIN first = Tool
    /\ DOMAIN heldTree = Tool /\ DOMAIN heldSkills = Tool

\* A pass has read what stood there before now, each file in order.
PassInv(p) ==
    pc[p] \in {"build", "final"} =>
        \A k \in 1 .. at[p] - 1 :
            /\ 1 <= seen[p][k]
            /\ seen[p][k] <= tree[Plan[k].file]
            /\ \A j \in 1..k : Plan[j].file = Plan[k].file => seen[p][j] <= seen[p][k]

\* A verification has read an authentic manifest before its first pass, and
\* every pass starts anew.
AuthInv(p) ==
    /\ pc[p] = "build" /\ op[p] = "verify" => Readable(stored[p])
    /\ pc[p] \in Waiting \cup {"fetch", "ready"} => at[p] = 1

\* The first pass agreed with the authenticated manifest.
FirstInv(p) ==
    pc[p] \in {"fetch", "final"} =>
        /\ Readable(stored[p]) /\ first[p] # None
        /\ Agrees(stored[p], first[p])
        /\ \A k \in Hashes : first[p][k] \in Nat /\ first[p][k] <= tree[Plan[k].file]

\* The held tree lies between the two passes.
HeldInv(p) ==
    pc[p] = "final" =>
        /\ heldTree[p] \in [File -> Content]
        /\ \A f \in File : heldTree[p][f] <= tree[f]
        /\ \A k \in Hashes : first[p][k] <= heldTree[p][Plan[k].file]
        /\ \A k \in 1 .. at[p] - 1 : heldTree[p][Plan[k].file] <= seen[p][k]

OneTree(p) == \A k \in Hashes : stored[p][k] = heldTree[p][Plan[k].file]

Reviewed(p) ==
    /\ \A k \in Scans : stored[p][k] = Shows[Plan[k].file][heldTree[p][Plan[k].file]]
    /\ UNION {stored[p][k] : k \in Scans} = Permits[heldTree[p]["policy"]]

ReadyInv(p) ==
    /\ pc[p] \in Settled => OneTree(p) /\ Reviewed(p)
    /\ pc[p] = "ready" => Readable(stored[p]) /\ first[p] # None

\* The held skill lies between the two captures of the hook.
CaptureInv(p) ==
    /\ pc[p] \in {"look", "again"} =>
           /\ at[p] <= Len(SkillFiles) + 1
           /\ \A i \in 1 .. at[p] - 1 : seen[p][i] <= installed[SkillFiles[i]]
    /\ pc[p] = "again" =>
           \A i \in DOMAIN SkillFiles :
               /\ heldSkills[p][SkillFiles[i]] \in Nat /\ first[p][i] \in Nat
               /\ first[p][i] <= heldSkills[p][SkillFiles[i]]
               /\ heldSkills[p][SkillFiles[i]] <= installed[SkillFiles[i]]
               /\ i < at[p] => heldSkills[p][SkillFiles[i]] <= seen[p][i]
    /\ pc[p] = "allowed" =>
           \A i \in DOMAIN SkillFiles : heldSkills[p][SkillFiles[i]] = SignedHash(stored[p], i)

Inv(p) == PassInv(p) /\ AuthInv(p) /\ FirstInv(p) /\ HeldInv(p) /\ ReadyInv(p) /\ CaptureInv(p)

IInv == Types /\ \A p \in Tool : Inv(p)

-----------------------------------------------------------------------------
(* Steps *)

\* What a step leaves alone at another process, and how the files may move.
Same(q) ==
    /\ pc'[q] = pc[q] /\ op'[q] = op[q] /\ at'[q] = at[q] /\ seen'[q] = seen[q]
    /\ stored'[q] = stored[q]
    /\ first'[q] = first[q] /\ heldTree'[q] = heldTree[q] /\ heldSkills'[q] = heldSkills[q]

Grows ==
    /\ \A f \in File : tree[f] <= tree'[f]
    /\ \A f \in Skill : installed[f] <= installed'[f]

LEMMA Bounds ==
    /\ Content \subseteq Nat
    /\ \A k \in Position : Plan[k].file \in File
    /\ \A i \in DOMAIN SkillFiles : SkillFiles[i] \in Skill /\ i \in Position
    /\ Skill \subseteq File
    /\ Hashes \subseteq Position /\ Scans \subseteq Position
    /\ 1 \notin Hashes /\ 1 \notin Scans
  <1>1. Content \subseteq Nat
    BY IntegrityAssumption DEF Content
  <1>2. \A k \in Position : Plan[k].file \in File
    BY PlanShape DEF Record
  <1>3. \A i \in DOMAIN SkillFiles : SkillFiles[i] \in Skill /\ i \in Position
    BY PlanShape, IntegrityAssumption
  <1>4. 1 \notin Hashes /\ 1 \notin Scans
    BY PlanShape DEF Hashes, Scans
  <1> QED
    BY <1>1, <1>2, <1>3, <1>4 DEF Hashes, Scans, File

\* The invariant of a process survives every edit and every step of another.
LEMMA OthersKeep ==
    ASSUME Types, Types', Grows, NEW q \in Tool, Inv(q), Same(q)
    PROVE  Inv(q)'
  <1>1. /\ \A f \in File : tree[f] \in Nat /\ tree'[f] \in Nat /\ tree[f] <= tree'[f]
        /\ \A f \in Skill : installed[f] \in Nat /\ installed'[f] \in Nat /\ installed[f] <= installed'[f]
    BY Bounds DEF Types, Grows
  <1>2. at[q] \in Nat /\ at[q] - 1 <= Len(Plan) /\ Position = 1..Len(Plan) /\ Len(Plan) \in Nat
    BY PlanShape DEF Types
  <1>3. \A k \in Position : seen[q][k] \in Nat
    BY IntegrityAssumption DEF Types
  <1>4. \A k \in 1 .. at[q] - 1 : k \in Position
    BY <1>2
  <1>5. PassInv(q)'
    BY <1>1, <1>3, <1>4, Bounds DEF Inv, Same, PassInv
  <1>6. FirstInv(q)'
    BY <1>1, Bounds DEF Inv, Same, FirstInv, Readable, Agrees
  <1>7. HeldInv(q)'
    <2> SUFFICES ASSUME pc[q] = "final"
                 PROVE  HeldInv(q)'
      BY DEF Same, HeldInv
    <2>1. heldTree[q] \in [File -> Content] /\ \A f \in File : heldTree[q][f] <= tree[f]
      BY DEF Inv, HeldInv
    <2>2. ASSUME NEW f \in File
          PROVE  heldTree[q][f] <= tree'[f]
      <3>1. heldTree[q][f] \in Nat /\ heldTree[q][f] <= tree[f]
        BY <2>1, Bounds
      <3>2. tree[f] \in Nat /\ tree'[f] \in Nat /\ tree[f] <= tree'[f]
        BY <1>1
      <3> QED
        BY <3>1, <3>2
    <2> QED
      BY <2>1, <2>2 DEF Inv, Same, HeldInv
  <1>8. ReadyInv(q)'
    BY DEF Inv, Same, ReadyInv, OneTree, Reviewed, Readable
  <1>9. AuthInv(q)'
    BY DEF Inv, Same, AuthInv, Readable
  <1>10. CaptureInv(q)'
    <2>1. CASE pc[q] \in {"look", "again"}
      <3>1. /\ at[q] <= Len(SkillFiles) + 1
            /\ \A i \in 1 .. at[q] - 1 : seen[q][i] <= installed[SkillFiles[i]]
        BY <2>1 DEF Inv, CaptureInv
      <3>2. \A i \in 1 .. at[q] - 1 : i \in DOMAIN SkillFiles
        BY <1>2, <3>1, PlanShape
      <3>3. \A i \in 1 .. at[q] - 1 : seen[q][i] <= installed'[SkillFiles[i]]
        BY <1>1, <1>3, <1>4, <3>1, <3>2, Bounds
      <3>4. ASSUME pc[q] = "again", NEW i \in DOMAIN SkillFiles
            PROVE  heldSkills[q][SkillFiles[i]] <= installed'[SkillFiles[i]]
        <4>1. /\ heldSkills[q][SkillFiles[i]] \in Nat
              /\ heldSkills[q][SkillFiles[i]] <= installed[SkillFiles[i]]
          BY <3>4 DEF Inv, CaptureInv
        <4> QED
          BY <1>1, <4>1, Bounds
      <3> QED
        BY <2>1, <3>1, <3>3, <3>4 DEF Inv, Same, CaptureInv
    <2>2. CASE pc[q] \notin {"look", "again"}
      BY <2>2 DEF Inv, Same, CaptureInv, SignedHash
    <2> QED
      BY <2>1, <2>2
  <1> QED
    BY <1>5, <1>6, <1>7, <1>8, <1>9, <1>10 DEF Inv

LEMMA QuietKeeps ==
    ASSUME NEW p \in Tool, pc'[p] \in Quiet, pc'[p] = "publish" \/ at'[p] = 1
    PROVE  Inv(p)'
  BY DEF Inv, PassInv, AuthInv, FirstInv, HeldInv, ReadyInv, CaptureInv, Settled, Quiet, Waiting

\* Exit is quiet.
LEMMA ExitEffect ==
    ASSUME Types, NEW p \in Tool, Exit(p)
    PROVE  /\ pc'[p] = "idle" /\ at'[p] = 1
           /\ \A q \in Tool \ {p} : Same(q)
           /\ (tree' = tree /\ installed' = installed) => Types'
  <1>1. 1 \in 1 .. Len(Plan) + 1 /\ Blank \in [Position -> 0 .. MaxContent]
    BY PlanShape, IntegrityAssumption DEF Blank
  <1>2. /\ pc' = [pc EXCEPT ![p] = "idle"] /\ op' = [op EXCEPT ![p] = None]
        /\ stored' = [stored EXCEPT ![p] = None] /\ first' = [first EXCEPT ![p] = None]
        /\ heldTree' = [heldTree EXCEPT ![p] = Unread]
        /\ heldSkills' = [heldSkills EXCEPT ![p] = Unread]
        /\ at' = [at EXCEPT ![p] = 1] /\ seen' = [seen EXCEPT ![p] = Blank]
    BY DEF Exit, Rewind
  <1>3. pc'[p] = "idle" /\ at'[p] = 1
    BY <1>2 DEF Types
  <1>4. \A q \in Tool \ {p} : Same(q)
    BY <1>2 DEF Types, Same
  <1>5. /\ at' \in [Tool -> 1 .. Len(Plan) + 1]
        /\ seen' \in [Tool -> [Position -> 0 .. MaxContent]]
    <2>2. at' \in [Tool -> 1 .. Len(Plan) + 1]
      BY <1>1, <1>2 DEF Types
    <2>3. seen' \in [Tool -> [Position -> 0 .. MaxContent]]
      BY <1>1, <1>2 DEF Types
    <2> QED
      BY <2>2, <2>3
  <1>6. /\ DOMAIN pc' = Tool /\ DOMAIN op' = Tool /\ DOMAIN stored' = Tool /\ DOMAIN first' = Tool
        /\ DOMAIN heldTree' = Tool /\ DOMAIN heldSkills' = Tool
    BY <1>2 DEF Types
  <1> QED
    BY <1>3, <1>4, <1>5, <1>6 DEF Types

\* What a step of p does to everything but the memory of p.
Local(p) ==
    /\ Types'
    /\ tree' = tree /\ installed' = installed
    /\ \A q \in Tool \ {p} : Same(q)

LEMMA ExitKeeps ==
    ASSUME Types, NEW p \in Tool, Exit(p), tree' = tree, installed' = installed
    PROVE  Local(p) /\ Inv(p)'
  BY ExitEffect, QuietKeeps DEF Local, Quiet, Waiting

LEMMA RewindEffect ==
    ASSUME Types, NEW p \in Tool, Rewind(p)
    PROVE  /\ at' \in [Tool -> 1 .. Len(Plan) + 1] /\ at'[p] = 1
           /\ seen' \in [Tool -> [Position -> 0 .. MaxContent]]
           /\ \A q \in Tool \ {p} : at'[q] = at[q] /\ seen'[q] = seen[q]
  <1>1. 1 \in 1 .. Len(Plan) + 1 /\ Blank \in [Position -> 0 .. MaxContent]
    BY PlanShape, IntegrityAssumption DEF Blank
  <1>2. at' = [at EXCEPT ![p] = 1] /\ seen' = [seen EXCEPT ![p] = Blank]
    BY DEF Rewind
  <1>3. at' \in [Tool -> 1 .. Len(Plan) + 1] /\ at'[p] = 1
    BY <1>1, <1>2 DEF Types
  <1>4. seen' \in [Tool -> [Position -> 0 .. MaxContent]]
    BY <1>1, <1>2 DEF Types
  <1>5. \A q \in Tool \ {p} : at'[q] = at[q] /\ seen'[q] = seen[q]
    BY <1>2 DEF Types
  <1> QED
    BY <1>3, <1>4, <1>5

\* A read of one more file.
LEMMA KeepEffect ==
    ASSUME Types, NEW p \in Tool, NEW c \in Content, Keep(p, c), at[p] \in Position,
           tree' = tree, installed' = installed
    PROVE  /\ Local(p) /\ pc'[p] = pc[p]
           /\ at'[p] = at[p] + 1
           /\ seen'[p][at[p]] = c
           /\ \A k \in Position \ {at[p]} : seen'[p][k] = seen[p][k]
           /\ op' = op /\ stored' = stored /\ first' = first
           /\ heldTree' = heldTree /\ heldSkills' = heldSkills
  <1>1. /\ seen' = [seen EXCEPT ![p][at[p]] = c]
        /\ at' = [at EXCEPT ![p] = @ + 1]
        /\ pc' = pc /\ op' = op /\ stored' = stored /\ first' = first
        /\ heldTree' = heldTree /\ heldSkills' = heldSkills
    BY DEF Keep, held
  <1>2. at[p] + 1 \in 1 .. Len(Plan) + 1 /\ c \in 0 .. MaxContent
    BY PlanShape, IntegrityAssumption DEF Content
  <1>3. at' \in [Tool -> 1 .. Len(Plan) + 1] /\ at'[p] = at[p] + 1
    BY <1>1, <1>2 DEF Types
  <1> DEFINE new == [seen[p] EXCEPT ![at[p]] = c]
  <1>4. /\ new \in [Position -> 0 .. MaxContent] /\ new[at[p]] = c
        /\ \A k \in Position \ {at[p]} : new[k] = seen[p][k]
    BY <1>2 DEF Types
  <1>5. seen' = [seen EXCEPT ![p] = new]
    BY <1>1
  <1> HIDE DEF new
  <1>6. seen' \in [Tool -> [Position -> 0 .. MaxContent]] /\ seen'[p] = new
    BY <1>4, <1>5 DEF Types
  <1>7. \A q \in Tool \ {p} : Same(q)
    BY <1>1, <1>5 DEF Types, Same
  <1>8. Types'
    BY <1>1, <1>3, <1>6 DEF Types
  <1> QED
    BY <1>1, <1>3, <1>4, <1>6, <1>7, <1>8 DEF Local

LEMMA ReadKeeps ==
    ASSUME Types, NEW p \in Tool, Inv(p), Read(p)
    PROVE  Local(p) /\ Inv(p)'
  <1> DEFINE c == tree[Plan[at[p]].file]
  <1>1. /\ pc[p] \in {"build", "final"} /\ at[p] \in Position
        /\ tree' = tree /\ installed' = installed
        /\ Exit(p) \/ Keep(p, c)
    BY DEF Read, files
  <1>2. c \in Content
    BY <1>1, Bounds DEF Types
  <1>3. CASE Exit(p)
    BY <1>1, <1>3, ExitKeeps
  <1>4. CASE Keep(p, c)
    <2>1. /\ Local(p) /\ pc'[p] = pc[p]
          /\ at'[p] = at[p] + 1
          /\ seen'[p][at[p]] = c
          /\ \A k \in Position \ {at[p]} : seen'[p][k] = seen[p][k]
          /\ op' = op /\ stored' = stored /\ first' = first
          /\ heldTree' = heldTree /\ heldSkills' = heldSkills
      BY <1>1, <1>2, <1>4, KeepEffect
    <2>2. /\ Position = 1..Len(Plan) /\ Len(Plan) \in Nat /\ at[p] \in Nat /\ at[p] >= 1
          /\ \A k \in Position : seen[p][k] \in Nat
          /\ c \in Nat /\ 1 <= c
      <3>1. Position = 1..Len(Plan) /\ Len(Plan) \in Nat
        BY PlanShape
      <3>2. at[p] \in Nat /\ at[p] >= 1
        BY <1>1, <3>1
      <3>3. MaxContent \in Nat
        BY IntegrityAssumption
      <3>4. \A k \in Position : seen[p][k] \in Nat
        BY <3>3 DEF Types
      <3>5. c \in Nat /\ 1 <= c
        BY <1>2, <3>3 DEF Content
      <3> QED
        BY <3>1, <3>2, <3>4, <3>5
    <2>3. \A k \in 1 .. at'[p] - 1 : k = at[p] \/ (k \in 1 .. at[p] - 1 /\ k \in Position /\ k # at[p])
      BY <1>1, <2>1, <2>2
    <2>4. PassInv(p)'
      <3>1. \A k \in 1 .. at[p] - 1 :
                /\ 1 <= seen[p][k] /\ seen[p][k] <= tree[Plan[k].file]
                /\ \A j \in 1..k : Plan[j].file = Plan[k].file => seen[p][j] <= seen[p][k]
        BY <1>1 DEF Inv, PassInv
      <3>2. ASSUME NEW k \in 1 .. at'[p] - 1
            PROVE  1 <= seen'[p][k] /\ seen'[p][k] <= tree[Plan[k].file]
        <4>1. CASE k = at[p]
          BY <2>1, <2>2, <4>1
        <4>2. CASE k # at[p]
          BY <2>1, <2>3, <3>1, <4>2
        <4> QED
          BY <4>1, <4>2
      <3>3. ASSUME NEW k \in 1 .. at'[p] - 1, NEW j \in 1..k, Plan[j].file = Plan[k].file
            PROVE  seen'[p][j] <= seen'[p][k]
        <4>1. CASE k # at[p]
          <5>1. j # at[p] /\ j \in Position /\ k \in Position /\ k \in 1 .. at[p] - 1
            BY <1>1, <2>2, <2>3, <4>1
          <5> QED
            BY <2>1, <3>1, <3>3, <5>1
        <4>2. CASE k = at[p]
          <5>1. j \in 1 .. at'[p] - 1
            BY <2>1, <2>2, <4>2
          <5> QED
            BY <2>1, <3>2, <3>3, <4>2, <5>1
        <4> QED
          BY <4>1, <4>2
      <3> QED
        BY <2>1, <3>2, <3>3 DEF PassInv, Local
    <2>5. FirstInv(p)'
      BY <2>1 DEF Inv, FirstInv, Local, Readable, Agrees
    <2>6. HeldInv(p)'
      <3> SUFFICES ASSUME pc[p] = "final"
                   PROVE  HeldInv(p)'
        BY <2>1 DEF HeldInv
      <3>1. /\ heldTree[p] \in [File -> Content]
            /\ \A f \in File : heldTree[p][f] <= tree[f]
            /\ \A k \in Hashes : first[p][k] <= heldTree[p][Plan[k].file]
            /\ \A k \in 1 .. at[p] - 1 : heldTree[p][Plan[k].file] <= seen[p][k]
        BY DEF Inv, HeldInv
      <3>2. heldTree[p][Plan[at[p]].file] <= c
        BY <1>1, <3>1, Bounds
      <3>3. \A k \in 1 .. at'[p] - 1 : heldTree[p][Plan[k].file] <= seen'[p][k]
        BY <2>1, <2>3, <3>1, <3>2
      <3> QED
        BY <2>1, <3>1, <3>3 DEF HeldInv, Local
    <2>7. AuthInv(p)' /\ ReadyInv(p)' /\ CaptureInv(p)'
      BY <1>1, <2>1 DEF Inv, AuthInv, Waiting, Readable, ReadyInv, CaptureInv, Settled
    <2> QED
      BY <2>1, <2>4, <2>5, <2>6, <2>7 DEF Inv
  <1> QED
    BY <1>1, <1>3, <1>4

-----------------------------------------------------------------------------
(* A finished pass *)

LEMMA ManifestShape ==
    ASSUME NEW c
    PROVE  /\ \A k \in Hashes : ManifestOf(c)[k] = c[k]
           /\ \A k \in Scans : ManifestOf(c)[k] = Shows[Plan[k].file][c[k]]
           /\ ManifestOf(c)[1].approved = Permits[c[1]]
  <1>1. \A k \in Position : ManifestOf(c)[k] = Contribution(Plan[k], c[k])
    BY DEF ManifestOf
  <1>2. \A k \in Hashes : Contribution(Plan[k], c[k]) = c[k]
    BY DEF Contribution, Digest, Hashes
  <1>3. \A k \in Scans : Contribution(Plan[k], c[k]) = Shows[Plan[k].file][c[k]]
    BY DEF Contribution, Findings, Scans
  <1>4. 1 \in Position /\ Plan[1].what = "parse" /\ Plan[1].file = "policy"
    BY PlanShape
  <1>5. Contribution(Plan[1], c[1]) = PolicyOf(c[1])
    BY <1>4 DEF Contribution
  <1>6. PolicyOf(c[1]).approved = Permits[c[1]]
    BY DEF PolicyOf
  <1> QED
    BY <1>1, <1>2, <1>3, <1>4, <1>5, <1>6, Bounds

\* Every file has been read, and what was read is a manifest.
LEMMA PassIsWhole ==
    ASSUME Types, NEW p \in Tool, PassInv(p), pc[p] \in {"build", "final"}, at[p] > Len(Plan)
    PROVE  /\ \A k \in Position :
                 /\ seen[p][k] \in Content /\ seen[p][k] \in Nat
                 /\ seen[p][k] <= tree[Plan[k].file]
                 /\ \A j \in 1..k : Plan[j].file = Plan[k].file => seen[p][j] <= seen[p][k]
           /\ ManifestOf(seen[p]) # None
           /\ \A k \in Position : k \in 1 .. at[p] - 1
  <1>1. at[p] - 1 = Len(Plan) /\ Position = 1..Len(Plan)
    BY PlanShape DEF Types
  <1>2. \A k \in Position :
            /\ 1 <= seen[p][k] /\ seen[p][k] <= tree[Plan[k].file]
            /\ \A j \in 1..k : Plan[j].file = Plan[k].file => seen[p][j] <= seen[p][k]
    BY <1>1 DEF PassInv
  <1>3. seen[p] \in [Position -> 0 .. MaxContent] /\ MaxContent \in Nat
    BY IntegrityAssumption DEF Types
  <1>4. \A k \in Position : seen[p][k] \in Content /\ seen[p][k] \in Nat
    BY <1>2, <1>3 DEF Content
  <1>5. seen[p] \in [Position -> Content]
    BY <1>3, <1>4
  <1>6. ManifestOf(seen[p]) # None
    BY <1>5, NoManifestAssumption
  <1> QED
    BY <1>1, <1>2, <1>4, <1>6

\* The two passes enclose the held tree; once they agree, each file they
\* hashed is the held one, and so is each file they scanned.
LEMMA PassesAgree ==
    ASSUME Types, NEW p \in Tool, Inv(p), PassDone(p, "final"),
           ManifestOf(seen[p]) = first[p], Judged(first[p])
    PROVE  OneTree(p) /\ Reviewed(p)
  <1>1. /\ pc[p] = "final" /\ at[p] > Len(Plan)
        /\ PassInv(p) /\ FirstInv(p) /\ HeldInv(p)
    BY DEF PassDone, Inv
  <1>2. \A k \in Position :
            /\ seen[p][k] \in Nat
            /\ \A j \in 1..k : Plan[j].file = Plan[k].file => seen[p][j] <= seen[p][k]
            /\ heldTree[p][Plan[k].file] <= seen[p][k]
            /\ heldTree[p][Plan[k].file] \in Nat
    <2>1. \A k \in Position :
            /\ seen[p][k] \in Nat
            /\ \A j \in 1..k : Plan[j].file = Plan[k].file => seen[p][j] <= seen[p][k]
            /\ k \in 1 .. at[p] - 1
      BY <1>1, PassIsWhole
    <2>2. \A k \in Position : heldTree[p][Plan[k].file] <= seen[p][k]
      BY <1>1, <2>1 DEF HeldInv
    <2>3. \A k \in Position : heldTree[p][Plan[k].file] \in Nat
      BY <1>1, Bounds DEF HeldInv
    <2> QED
      BY <2>1, <2>2, <2>3
  <1>3. \A k \in Hashes : first[p][k] = seen[p][k] /\ first[p][k] <= heldTree[p][Plan[k].file]
    BY <1>1, ManifestShape DEF HeldInv
  <1>4. \A k \in Hashes : seen[p][k] = heldTree[p][Plan[k].file]
    BY <1>2, <1>3, Bounds
  <1>5. \A k \in Position \ {1} : stored[p][k] = first[p][k]
    BY <1>1 DEF FirstInv, Agrees
  <1>6. OneTree(p)
    BY <1>3, <1>4, <1>5, Bounds DEF OneTree
  <1>7. \A k \in Scans : seen[p][k] = heldTree[p][Plan[k].file]
    <2> SUFFICES ASSUME NEW k \in Scans
                 PROVE  seen[p][k] = heldTree[p][Plan[k].file]
      OBVIOUS
    <2>1. k \in Position /\ k + 1 \in Hashes /\ k + 1 \in Position /\ Plan[k + 1].file = Plan[k].file
      BY PlanShape, Bounds
    <2>2. k \in 1 .. k + 1
      BY <2>1, PlanShape
    <2>3. seen[p][k] <= seen[p][k + 1] /\ seen[p][k + 1] = heldTree[p][Plan[k].file]
      BY <1>2, <1>4, <2>1, <2>2
    <2> QED
      BY <1>2, <2>1, <2>3
  <1>8. \A k \in Scans : stored[p][k] = Shows[Plan[k].file][heldTree[p][Plan[k].file]]
    BY <1>5, <1>7, ManifestShape, Bounds
  <1>9. seen[p][1] = heldTree[p]["policy"]
    <2>1. /\ 1 \in Position /\ Len(Plan) \in Position /\ 1 \in 1..Len(Plan)
          /\ Plan[1].file = "policy" /\ Plan[Len(Plan)].file = "policy"
          /\ Len(Plan) \in Hashes
      BY PlanShape DEF Hashes
    <2>2. seen[p][1] <= seen[p][Len(Plan)] /\ seen[p][Len(Plan)] = heldTree[p]["policy"]
      BY <1>2, <1>4, <2>1
    <2> QED
      BY <1>2, <2>1, <2>2
  <1>10. UNION {stored[p][k] : k \in Scans} = Permits[heldTree[p]["policy"]]
    <2>1. UNION {first[p][k] : k \in Scans} = first[p][1].approved
      BY DEF Judged
    <2>2. first[p][1].approved = Permits[seen[p][1]]
      BY ManifestShape
    <2>3. {stored[p][k] : k \in Scans} = {first[p][k] : k \in Scans}
      BY <1>5, Bounds
    <2> QED
      BY <1>9, <2>1, <2>2, <2>3
  <1> QED
    BY <1>6, <1>8, <1>10 DEF Reviewed

-----------------------------------------------------------------------------
(* The steps of verify and of the hook *)

LEMMA CompareKeeps ==
    ASSUME Types, NEW p \in Tool, Inv(p), Compare(p)
    PROVE  Local(p) /\ Inv(p)'
  <1> DEFINE m == ManifestOf(seen[p])
  <1>1. /\ pc[p] = "build" /\ at[p] > Len(Plan) /\ op[p] = "verify"
        /\ tree' = tree /\ installed' = installed
    BY DEF Compare, PassDone, files
  <1>2. CASE Judged(m) /\ Agrees(stored[p], m)
    <2>1. /\ pc' = [pc EXCEPT ![p] = "fetch"] /\ first' = [first EXCEPT ![p] = m]
          /\ Rewind(p) /\ op' = op /\ stored' = stored
          /\ heldTree' = heldTree /\ heldSkills' = heldSkills
      BY <1>2 DEF Compare, held
    <2> HIDE DEF m
    <2>2. pc'[p] = "fetch" /\ first'[p] = m /\ DOMAIN pc' = Tool /\ DOMAIN first' = Tool
      BY <2>1 DEF Types
    <2>3. Local(p)
      <3>1. Types'
        BY <1>1, <2>1, <2>2, RewindEffect DEF Types
      <3>2. \A q \in Tool \ {p} : Same(q)
        BY <2>1, RewindEffect DEF Types, Same
      <3> QED
        BY <1>1, <3>1, <3>2 DEF Local
    <2>4. /\ m # None
          /\ \A k \in Hashes : m[k] \in Nat /\ m[k] <= tree[Plan[k].file]
      <3>1. PassInv(p)
        BY DEF Inv
      <3>2. /\ ManifestOf(seen[p]) # None
            /\ \A k \in Position : seen[p][k] \in Nat /\ seen[p][k] <= tree[Plan[k].file]
        BY <1>1, <3>1, PassIsWhole
      <3> QED
        BY <3>2, ManifestShape, Bounds DEF m
    <2>5. FirstInv(p)'
      BY <1>1, <1>2, <2>1, <2>2, <2>4 DEF Inv, AuthInv, FirstInv, Readable, Agrees
    <2>6. AuthInv(p)'
      BY <2>1, <2>2, RewindEffect DEF AuthInv
    <2> QED
      BY <2>2, <2>3, <2>5, <2>6 DEF Inv, PassInv, HeldInv, ReadyInv, CaptureInv, Settled
  <1>3. CASE ~(Judged(m) /\ Agrees(stored[p], m))
    <2>1. Exit(p)
      BY <1>3 DEF Compare
    <2> QED
      BY <1>1, <2>1, ExitKeeps
  <1> QED
    BY <1>2, <1>3

LEMMA FetchKeeps ==
    ASSUME Types, NEW p \in Tool, Inv(p), Fetch(p)
    PROVE  Local(p) /\ Inv(p)'
  <1>1. pc[p] = "fetch" /\ tree' = tree /\ installed' = installed
    BY DEF Fetch, files
  <1>2. CASE Exit(p)
    BY <1>1, <1>2, ExitKeeps
  <1>3. CASE ~Exit(p)
    <2>1. /\ pc' = [pc EXCEPT ![p] = "final"] /\ heldTree' = [heldTree EXCEPT ![p] = tree]
          /\ op' = op /\ at' = at /\ seen' = seen /\ stored' = stored /\ first' = first
          /\ heldSkills' = heldSkills
      BY <1>3 DEF Fetch, pass
    <2>2. pc'[p] = "final" /\ heldTree'[p] = tree
      BY <2>1 DEF Types
    <2>3. Types'
      BY <1>1, <2>1 DEF Types
    <2>4. \A q \in Tool \ {p} : Same(q)
      BY <2>1 DEF Types, Same
    <2>5. \A k \in 1 .. at'[p] - 1 : FALSE
      BY <1>1, <2>1 DEF Inv, AuthInv
    <2>6. HeldInv(p)'
      <3>1. tree \in [File -> Content] /\ \A f \in File : tree[f] <= tree[f]
        <4>1. tree \in [File -> Content]
          BY DEF Types
        <4>2. \A f \in File : tree[f] \in Nat
          BY <4>1, Bounds
        <4> QED
          BY <4>1, <4>2
      <3>2. \A k \in Hashes : first[p][k] <= tree[Plan[k].file]
        BY <1>1 DEF Inv, FirstInv
      <3> QED
        BY <1>1, <2>1, <2>2, <2>5, <3>1, <3>2 DEF HeldInv
    <2>7. FirstInv(p)'
      BY <1>1, <2>1, <2>2 DEF Inv, FirstInv, Readable, Agrees
    <2>8. PassInv(p)'
      BY <2>5 DEF PassInv
    <2> QED
      BY <1>1, <2>2, <2>3, <2>4, <2>6, <2>7, <2>8 DEF Local, Inv, AuthInv, Waiting, ReadyInv, CaptureInv, Settled
  <1> QED
    BY <1>2, <1>3

LEMMA ConfirmKeeps ==
    ASSUME Types, NEW p \in Tool, Inv(p), Confirm(p)
    PROVE  Local(p) /\ Inv(p)'
  <1> DEFINE m == ManifestOf(seen[p])
  <1>1. /\ PassDone(p, "final") /\ pc[p] = "final"
        /\ tree' = tree /\ installed' = installed
    BY DEF Confirm, PassDone, files
  <1>2. CASE Judged(m) /\ m = first[p]
    <2>1. OneTree(p) /\ Reviewed(p)
      BY <1>1, <1>2, PassesAgree
    <2>2. /\ pc' = [pc EXCEPT ![p] = "ready"] /\ Rewind(p)
          /\ op' = op /\ stored' = stored /\ first' = first
          /\ heldTree' = heldTree /\ heldSkills' = heldSkills
      BY <1>2 DEF Confirm, Ready, held
    <2>3. pc'[p] = "ready"
      BY <2>2 DEF Types
    <2>4. Types'
      BY <1>1, <2>2, RewindEffect DEF Types
    <2>5. \A q \in Tool \ {p} : Same(q)
      BY <2>2, RewindEffect DEF Types, Same
    <2>6. Readable(stored[p]) /\ first[p] # None
      BY <1>1 DEF Inv, FirstInv
    <2>7. ReadyInv(p)'
      BY <2>1, <2>2, <2>6 DEF ReadyInv, OneTree, Reviewed, Readable
    <2>8. AuthInv(p)'
      BY <2>2, <2>3, RewindEffect DEF AuthInv
    <2> QED
      BY <1>1, <2>3, <2>4, <2>5, <2>7, <2>8 DEF Local, Inv, PassInv, FirstInv, HeldInv, CaptureInv
  <1>3. CASE ~(Judged(m) /\ m = first[p])
    <2>1. Exit(p)
      BY <1>3 DEF Confirm
    <2> QED
      BY <1>1, <2>1, ExitKeeps
  <1> QED
    BY <1>2, <1>3

LEMMA AuthorizeKeeps ==
    ASSUME Types, NEW p \in Tool, Inv(p), Authorize(p)
    PROVE  Local(p) /\ Inv(p)'
  <1>1. /\ pc[p] = "ready" /\ pc' = [pc EXCEPT ![p] = "look"]
        /\ tree' = tree /\ installed' = installed
        /\ op' = op /\ at' = at /\ seen' = seen /\ stored' = stored /\ first' = first
        /\ heldTree' = heldTree /\ heldSkills' = heldSkills
    BY DEF Authorize, Goto, files, memory, pass, held
  <1>2. pc'[p] = "look"
    BY <1>1 DEF Types
  <1>3. Types'
    BY <1>1 DEF Types
  <1>4. \A q \in Tool \ {p} : Same(q)
    BY <1>1 DEF Types, Same
  <1>5. ReadyInv(p)'
    BY <1>1, <1>2 DEF Inv, ReadyInv, OneTree, Reviewed, Settled
  <1>6. CaptureInv(p)'
    <2>1. at'[p] = 1 /\ 1 <= Len(SkillFiles) + 1 /\ \A i \in 1 .. at'[p] - 1 : FALSE
      BY <1>1, PlanShape DEF Inv, AuthInv
    <2> QED
      BY <1>2, <2>1 DEF CaptureInv
  <1> QED
    BY <1>1, <1>2, <1>3, <1>4, <1>5, <1>6 DEF Local, Inv, PassInv, AuthInv, Waiting, FirstInv, HeldInv

LEMMA LookKeeps ==
    ASSUME Types, NEW p \in Tool, Inv(p), Look(p)
    PROVE  Local(p) /\ Inv(p)'
  <1> DEFINE c == installed[SkillFiles[at[p]]]
  <1>1. /\ pc[p] \in {"look", "again"} /\ at[p] \in DOMAIN SkillFiles
        /\ tree' = tree /\ installed' = installed
        /\ Exit(p) \/ Keep(p, c)
    BY DEF Look, files
  <1>2. c \in Content /\ c \in Nat /\ at[p] \in Position
    BY <1>1, Bounds DEF Types
  <1>3. CASE Exit(p)
    BY <1>1, <1>3, ExitKeeps
  <1>4. CASE Keep(p, c)
    <2>1. /\ Local(p) /\ pc'[p] = pc[p]
          /\ at'[p] = at[p] + 1
          /\ seen'[p][at[p]] = c
          /\ \A k \in Position \ {at[p]} : seen'[p][k] = seen[p][k]
          /\ op' = op /\ stored' = stored /\ first' = first
          /\ heldTree' = heldTree /\ heldSkills' = heldSkills
      BY <1>1, <1>2, <1>4, KeepEffect
    <2>2. /\ at[p] \in Nat /\ at[p] >= 1 /\ at[p] <= Len(SkillFiles) /\ Len(SkillFiles) \in Nat
          /\ DOMAIN SkillFiles = 1..Len(SkillFiles)
          /\ DOMAIN SkillFiles \subseteq Position
      BY <1>1, PlanShape, Bounds
    <2>3. \A i \in 1 .. at'[p] - 1 :
              i \in DOMAIN SkillFiles /\ (i = at[p] \/ (i \in 1 .. at[p] - 1 /\ i # at[p]))
      BY <2>1, <2>2
    <2>4. ASSUME NEW i \in 1 .. at'[p] - 1
          PROVE  seen'[p][i] <= installed'[SkillFiles[i]]
      <3>1. CASE i = at[p]
        BY <1>1, <1>2, <2>1, <3>1
      <3>2. CASE i # at[p]
        BY <1>1, <2>1, <2>2, <2>3, <3>2 DEF Inv, CaptureInv
      <3> QED
        BY <3>1, <3>2
    <2>5. ASSUME pc[p] = "again", NEW i \in DOMAIN SkillFiles, i < at'[p]
          PROVE  heldSkills[p][SkillFiles[i]] <= seen'[p][i]
      <3>1. /\ heldSkills[p][SkillFiles[i]] <= installed[SkillFiles[i]]
            /\ i < at[p] => heldSkills[p][SkillFiles[i]] <= seen[p][i]
        BY <2>5 DEF Inv, CaptureInv
      <3>2. CASE i = at[p]
        BY <2>1, <3>1, <3>2
      <3>3. CASE i # at[p]
        <4>1. i < at[p] /\ i \in Position
          BY <2>1, <2>2, <2>5, <3>3
        <4> QED
          BY <2>1, <3>1, <3>3, <4>1
      <3> QED
        BY <3>2, <3>3
    <2>6. at'[p] <= Len(SkillFiles) + 1
      BY <2>1, <2>2
    <2>7. CaptureInv(p)'
      BY <1>1, <2>1, <2>4, <2>5, <2>6 DEF Inv, CaptureInv
    <2>8. ReadyInv(p)'
      BY <1>1, <2>1 DEF Inv, ReadyInv, OneTree, Reviewed, Settled, Readable
    <2> QED
      BY <1>1, <2>1, <2>7, <2>8 DEF Inv, PassInv, AuthInv, Waiting, FirstInv, HeldInv
  <1> QED
    BY <1>1, <1>3, <1>4

LEMMA LookAgainKeeps ==
    ASSUME Types, NEW p \in Tool, Inv(p), LookAgain(p)
    PROVE  Local(p) /\ Inv(p)'
  <1> DEFINE h == [f \in File |-> IF f \in Skill THEN installed[f] ELSE 0]
  <1>1. /\ pc[p] = "look" /\ at[p] > Len(SkillFiles)
        /\ pc' = [pc EXCEPT ![p] = "again"]
        /\ first' = [first EXCEPT ![p] = seen[p]]
        /\ heldSkills' = [heldSkills EXCEPT ![p] = h]
        /\ Rewind(p)
        /\ tree' = tree /\ installed' = installed
        /\ op' = op /\ stored' = stored /\ heldTree' = heldTree
    BY DEF LookAgain, Looked, files
  <1>2. \A i \in DOMAIN SkillFiles : h[SkillFiles[i]] = installed[SkillFiles[i]]
    BY Bounds
  <1> HIDE DEF h
  <1>3. pc'[p] = "again" /\ first'[p] = seen[p] /\ heldSkills'[p] = h
    BY <1>1 DEF Types
  <1>4. Types'
    BY <1>1, RewindEffect DEF Types
  <1>5. \A q \in Tool \ {p} : Same(q)
    BY <1>1, RewindEffect DEF Types, Same
  <1>6. at'[p] = 1 /\ (\A i \in 1 .. at'[p] - 1 : FALSE) /\ 1 <= Len(SkillFiles) + 1
        /\ \A i \in DOMAIN SkillFiles : ~(i < at'[p])
    <2>1. at'[p] = 1
      BY <1>1, RewindEffect
    <2> QED
      BY <2>1, PlanShape
  <1>7. ASSUME NEW i \in DOMAIN SkillFiles
        PROVE  /\ installed[SkillFiles[i]] \in Nat /\ seen[p][i] \in Nat
               /\ seen[p][i] <= installed[SkillFiles[i]]
    <2>1. installed[SkillFiles[i]] \in Nat
      BY Bounds DEF Types
    <2>2. seen[p][i] \in Nat
      BY Bounds, IntegrityAssumption DEF Types
    <2>3. i \in 1 .. at[p] - 1
      BY <1>1, PlanShape DEF Types
    <2> QED
      BY <1>1, <2>1, <2>2, <2>3 DEF Inv, CaptureInv
  <1>8. CaptureInv(p)'
    <2>1. \A i \in DOMAIN SkillFiles :
             /\ heldSkills'[p][SkillFiles[i]] \in Nat /\ first'[p][i] \in Nat
             /\ first'[p][i] <= heldSkills'[p][SkillFiles[i]]
             /\ heldSkills'[p][SkillFiles[i]] <= installed'[SkillFiles[i]]
      BY <1>1, <1>2, <1>3, <1>7
    <2> QED
      BY <1>3, <1>6, <2>1 DEF CaptureInv
  <1>9. ReadyInv(p)'
    BY <1>1, <1>3 DEF Inv, ReadyInv, OneTree, Reviewed, Settled
  <1> QED
    BY <1>1, <1>3, <1>4, <1>5, <1>8, <1>9 DEF Local, Inv, PassInv, AuthInv, Waiting, FirstInv, HeldInv

LEMMA DecideKeeps ==
    ASSUME Types, NEW p \in Tool, Inv(p), Decide(p)
    PROVE  Local(p) /\ Inv(p)'
  <1>1. /\ pc[p] = "again" /\ at[p] > Len(SkillFiles)
        /\ tree' = tree /\ installed' = installed
    BY DEF Decide, Looked, files
  <1>2. CASE seen[p] = first[p] /\ Matches(first[p], stored[p])
    <2>1. /\ pc' = [pc EXCEPT ![p] = "allowed"]
          /\ op' = op /\ at' = at /\ seen' = seen /\ stored' = stored /\ first' = first
          /\ heldTree' = heldTree /\ heldSkills' = heldSkills
      BY <1>2 DEF Decide, memory, pass, held
    <2>2. pc'[p] = "allowed"
      BY <2>1 DEF Types
    <2>3. Types'
      BY <1>1, <2>1 DEF Types
    <2>4. \A q \in Tool \ {p} : Same(q)
      BY <2>1 DEF Types, Same
    <2>5. ASSUME NEW i \in DOMAIN SkillFiles
          PROVE  heldSkills[p][SkillFiles[i]] = SignedHash(stored[p], i)
      <3>1. i < at[p]
        BY <1>1, PlanShape DEF Types
      <3>2. /\ heldSkills[p][SkillFiles[i]] \in Nat /\ first[p][i] \in Nat
            /\ first[p][i] <= heldSkills[p][SkillFiles[i]]
            /\ heldSkills[p][SkillFiles[i]] <= seen[p][i]
        BY <1>1, <3>1 DEF Inv, CaptureInv
      <3>3. first[p][i] = SignedHash(stored[p], i)
        BY <1>2 DEF Matches
      <3> QED
        BY <1>2, <3>2, <3>3
    <2>6. CaptureInv(p)'
      BY <2>1, <2>2, <2>5 DEF CaptureInv, SignedHash
    <2>7. ReadyInv(p)'
      BY <1>1, <2>1, <2>2 DEF Inv, ReadyInv, OneTree, Reviewed, Settled
    <2> QED
      BY <1>1, <2>2, <2>3, <2>4, <2>6, <2>7
         DEF Local, Inv, PassInv, AuthInv, Waiting, FirstInv, HeldInv
  <1>3. CASE ~(seen[p] = first[p] /\ Matches(first[p], stored[p]))
    <2>1. Exit(p)
      BY <1>3 DEF Decide
    <2> QED
      BY <1>1, <2>1, ExitKeeps
  <1> QED
    BY <1>2, <1>3

-----------------------------------------------------------------------------
(* The steps of manifest and sign *)

\* A step that only moves a waiting process on, or makes it remember a manifest.
LEMMA WaitingKeeps ==
    ASSUME Types, NEW p \in Tool, Inv(p), NEW step \in Waiting, pc[p] \in Waiting,
           pc' = [pc EXCEPT ![p] = step],
           stored' = stored \/ stored' = [stored EXCEPT ![p] = manifest],
           UNCHANGED <<tree, installed, op, at, seen, first, heldTree, heldSkills>>
    PROVE  Local(p) /\ Inv(p)'
  <1>1. pc'[p] = step /\ DOMAIN pc' = Tool /\ DOMAIN stored' = Tool
    BY DEF Types
  <1>2. at'[p] = 1
    BY DEF Inv, AuthInv
  <1>3. Types'
    BY <1>1 DEF Types
  <1>4. \A q \in Tool \ {p} : Same(q)
    BY DEF Types, Same
  <1> QED
    BY <1>1, <1>2, <1>3, <1>4, QuietKeeps DEF Local, Quiet

LEMMA BuiltKeeps ==
    ASSUME Types, NEW p \in Tool, Inv(p), Built(p)
    PROVE  Local(p) /\ Inv(p)'
  <1> DEFINE m == ManifestOf(seen[p])
  <1>1. tree' = tree /\ installed' = installed
    BY DEF Built, files
  <1>2. CASE Exit(p)
    BY <1>1, <1>2, ExitKeeps
  <1>3. CASE ~Exit(p)
    <2>1. /\ pc' = [pc EXCEPT ![p] = "write"] /\ stored' = [stored EXCEPT ![p] = m]
          /\ Rewind(p) /\ op' = op /\ first' = first
          /\ heldTree' = heldTree /\ heldSkills' = heldSkills
      BY <1>3 DEF Built, held
    <2> HIDE DEF m
    <2>2. pc'[p] = "write" /\ at'[p] = 1
      BY <2>1, RewindEffect DEF Types
    <2>3. Types'
      BY <1>1, <2>1, RewindEffect DEF Types
    <2>4. \A q \in Tool \ {p} : Same(q)
      BY <2>1, RewindEffect DEF Types, Same
    <2> QED
      BY <1>1, <2>2, <2>3, <2>4, QuietKeeps DEF Local, Quiet, Waiting
  <1> QED
    BY <1>2, <1>3

\* Into the first pass, by manifest or by verify.
LEMMA BuildKeeps ==
    ASSUME Types, NEW p \in Tool, at[p] = 1, op'[p] = "verify" => Readable(stored[p]),
           pc' = [pc EXCEPT ![p] = "build"],
           op' = op \/ \E o : op' = [op EXCEPT ![p] = o],
           UNCHANGED <<tree, installed, at, seen, stored, first, heldTree, heldSkills>>
    PROVE  Local(p) /\ Inv(p)'
  <1>1. pc'[p] = "build" /\ DOMAIN pc' = Tool /\ DOMAIN op' = Tool
    BY DEF Types
  <1>2. Types'
    BY <1>1 DEF Types
  <1>3. \A q \in Tool \ {p} : Same(q)
    BY DEF Types, Same
  <1>4. \A k \in 1 .. at'[p] - 1 : FALSE
    OBVIOUS
  <1>5. PassInv(p)' /\ AuthInv(p)'
    BY <1>1, <1>4 DEF PassInv, AuthInv, Waiting, Readable
  <1> QED
    BY <1>1, <1>2, <1>3, <1>5 DEF Local, Inv, FirstInv, HeldInv, ReadyInv, CaptureInv, Settled

LEMMA AuthenticateKeeps ==
    ASSUME Types, NEW p \in Tool, Inv(p), Authenticate(p)
    PROVE  Local(p) /\ Inv(p)'
  <1>1. pc[p] = "authenticate" /\ tree' = tree /\ installed' = installed
    BY DEF Authenticate, files
  <1>2. CASE Exit(p)
    BY <1>1, <1>2, ExitKeeps
  <1>3. CASE ~Exit(p)
    <2>1. Readable(stored[p]) /\ pc' = [pc EXCEPT ![p] = "build"] /\ op' = op
          /\ UNCHANGED <<at, seen, stored, first, heldTree, heldSkills>>
      BY <1>3 DEF Authenticate, Authentic, memory, pass, held
    <2>2. at[p] = 1
      BY <1>1 DEF Inv, AuthInv, Waiting
    <2> QED
      BY <1>1, <2>1, <2>2, BuildKeeps
  <1> QED
    BY <1>2, <1>3

LEMMA LoadKeeps ==
    ASSUME Types, NEW p \in Tool, Inv(p), Load(p)
    PROVE  Local(p) /\ Inv(p)'
  <1>1. pc[p] = "load" /\ tree' = tree /\ installed' = installed
    BY DEF Load, files
  <1>2. CASE Exit(p)
    BY <1>1, <1>2, ExitKeeps
  <1>3. CASE ~Exit(p)
    <2>1. pc' = [pc EXCEPT ![p] = "unlink"]
          /\ UNCHANGED <<op, at, seen, stored, first, heldTree, heldSkills>>
      BY <1>3 DEF Load, memory, pass, held
    <2>2. "unlink" \in Waiting /\ pc[p] \in Waiting
      BY <1>1 DEF Waiting
    <2> QED
      BY <1>1, <2>1, <2>2, WaitingKeeps
  <1> QED
    BY <1>2, <1>3

LEMMA SignKeeps ==
    ASSUME Types, NEW p \in Tool, Inv(p),
           Truncate(p) \/ Unlink(p) \/ ReadToSign(p) \/ Emit(p) \/ Capture(p)
    PROVE  Local(p) /\ Inv(p)'
  <1>1. /\ pc[p] \in Waiting
        /\ \E step \in Waiting : pc' = [pc EXCEPT ![p] = step]
        /\ stored' = stored \/ stored' = [stored EXCEPT ![p] = manifest]
        /\ UNCHANGED <<tree, installed, op, at, seen, first, heldTree, heldSkills>>
    BY DEF Truncate, Unlink, ReadToSign, Emit, Capture, Goto, Waiting, files, memory, pass, held
  <1> QED
    BY <1>1, WaitingKeeps

LEMMA StartKeeps ==
    ASSUME Types, NEW p \in Tool, Inv(p), NEW o \in {"manifest", "sign", "verify"}, Start(p, o)
    PROVE  Local(p) /\ Inv(p)'
  <1>1. /\ pc[p] = "idle" /\ at[p] = 1
        /\ op' = [op EXCEPT ![p] = o]
        /\ UNCHANGED <<tree, installed, at, seen, stored, first, heldTree, heldSkills>>
    BY DEF Start, Goto, Inv, AuthInv, Waiting, files, pass, held
  <1>2. CASE o = "manifest"
    <2>1. pc' = [pc EXCEPT ![p] = "build"] /\ op'[p] = "manifest"
      BY <1>1, <1>2 DEF Start, Goto, Types
    <2> QED
      BY <1>1, <2>1, BuildKeeps
  <1>3. CASE o # "manifest"
    <2>1. PICK step \in Waiting : pc' = [pc EXCEPT ![p] = step]
      BY <1>3 DEF Start, Goto, Waiting
    <2>2. pc'[p] = step /\ at'[p] = 1 /\ DOMAIN pc' = Tool /\ DOMAIN op' = Tool
      BY <1>1, <2>1 DEF Types
    <2>3. Types'
      BY <1>1, <2>2 DEF Types
    <2>4. \A q \in Tool \ {p} : Same(q)
      BY <1>1, <2>1 DEF Types, Same
    <2> QED
      BY <1>1, <2>2, <2>3, <2>4, QuietKeeps DEF Local, Quiet
  <1> QED
    BY <1>2, <1>3

-----------------------------------------------------------------------------
(* The whole *)

LEMMA StepKeeps ==
    ASSUME Types, NEW p \in Tool, Inv(p), Step(p)
    PROVE  Local(p) /\ Inv(p)'
  <1>1. CASE Flush(p)
    BY <1>1, ExitKeeps DEF Flush
  <1> QED
    BY <1>1, ReadKeeps, BuiltKeeps, SignKeeps, LoadKeeps, AuthenticateKeeps, CompareKeeps,
       FetchKeeps, ConfirmKeeps, AuthorizeKeeps, LookKeeps, LookAgainKeeps, DecideKeeps
       DEF Step

\* A step of one process keeps the invariant of all.
LEMMA LocalKeeps ==
    ASSUME IInv, NEW p \in Tool, Local(p), Inv(p)'
    PROVE  IInv'
  <1>1. Grows
    <2>1. \A f \in File : tree[f] \in Nat
      BY Bounds DEF IInv, Types
    <2>2. \A f \in Skill : installed[f] \in Nat
      BY Bounds DEF IInv, Types
    <2> QED
      BY <2>1, <2>2 DEF Local, Grows
  <1>2. \A q \in Tool \ {p} : Inv(q)'
    BY <1>1, OthersKeep DEF IInv, Local
  <1> QED
    BY <1>2 DEF IInv, Local

\* An edit enlarges one content and leaves every process alone.
LEMMA AroundKeeps ==
    ASSUME IInv, Around
    PROVE  IInv'
  <1>1. /\ UNCHANGED <<pc, op, at, seen, stored, first, heldTree, heldSkills>>
        /\ \/ \E f \in Editable, c \in Content :
                 /\ tree[f] < c /\ tree' = [tree EXCEPT ![f] = c] /\ installed' = installed
           \/ \E f \in Skill, c \in Content :
                 /\ installed[f] < c /\ installed' = [installed EXCEPT ![f] = c] /\ tree' = tree
    <2>1. ASSUME NEW f \in Editable, Edit(f)
          PROVE  \E c \in Content : tree[f] < c /\ tree' = [tree EXCEPT ![f] = c]
      <3>1. PICK c \in tree[f] + 1 .. MaxContent : tree' = [tree EXCEPT ![f] = c]
        BY <2>1 DEF Edit
      <3>2. tree[f] \in Content /\ MaxContent \in Nat
        BY IntegrityAssumption DEF IInv, Types
      <3>3. c \in Content /\ tree[f] < c
        BY <3>2 DEF Content
      <3> QED
        BY <3>1, <3>3
    <2>2. ASSUME NEW f \in Skill, EditInstalled(f)
          PROVE  \E c \in Content : installed[f] < c /\ installed' = [installed EXCEPT ![f] = c]
      <3>1. PICK c \in installed[f] + 1 .. MaxContent : installed' = [installed EXCEPT ![f] = c]
        BY <2>2 DEF EditInstalled
      <3>2. installed[f] \in Content /\ MaxContent \in Nat
        BY IntegrityAssumption DEF IInv, Types
      <3>3. c \in Content /\ installed[f] < c
        BY <3>2 DEF Content
      <3> QED
        BY <3>1, <3>3
    <2>3. CASE \E f \in Editable : Edit(f)
      <3>1. PICK f \in Editable : Edit(f)
        BY <2>3
      <3>2. UNCHANGED <<installed, pc, op, at, seen, stored, first, heldTree, heldSkills>>
        BY <3>1 DEF Edit, memory, pass, held
      <3> QED
        BY <2>1, <3>1, <3>2
    <2>4. CASE \E f \in Skill \cap Editable : EditInstalled(f)
      <3>1. PICK f \in Skill \cap Editable : EditInstalled(f)
        BY <2>4
      <3>2. UNCHANGED <<tree, pc, op, at, seen, stored, first, heldTree, heldSkills>>
        BY <3>1 DEF EditInstalled, memory, pass, held
      <3> QED
        BY <2>2, <3>1, <3>2
    <2> QED
      BY <2>3, <2>4 DEF Around
  <1>2. Types' /\ Grows
    <2>1. /\ tree \in [File -> Content] /\ installed \in [Skill -> Content]
          /\ \A f \in File : tree[f] \in Nat
          /\ \A f \in Skill : installed[f] \in Nat
          /\ Content \subseteq Nat
      BY Bounds DEF IInv, Types
    <2>2. CASE \E f \in Editable, c \in Content :
                 /\ tree[f] < c /\ tree' = [tree EXCEPT ![f] = c] /\ installed' = installed
      <3>1. PICK f \in Editable, c \in Content :
                 /\ tree[f] < c /\ tree' = [tree EXCEPT ![f] = c] /\ installed' = installed
        BY <2>2
      <3>2. tree' \in [File -> Content] /\ installed' \in [Skill -> Content]
        BY <2>1, <3>1
      <3>3. \A g \in File : tree[g] <= tree'[g]
        BY <2>1, <3>1
      <3>4. \A g \in Skill : installed[g] <= installed'[g]
        BY <2>1, <3>1
      <3> QED
        BY <1>1, <3>2, <3>3, <3>4 DEF IInv, Types, Grows
    <2>3. CASE \E f \in Skill, c \in Content :
                 /\ installed[f] < c /\ installed' = [installed EXCEPT ![f] = c] /\ tree' = tree
      <3>1. PICK f \in Skill, c \in Content :
                 /\ installed[f] < c /\ installed' = [installed EXCEPT ![f] = c] /\ tree' = tree
        BY <2>3
      <3>2. tree' \in [File -> Content] /\ installed' \in [Skill -> Content]
        BY <2>1, <3>1
      <3>3. \A g \in File : tree[g] <= tree'[g]
        BY <2>1, <3>1
      <3>4. \A g \in Skill : installed[g] <= installed'[g]
        BY <2>1, <3>1
      <3> QED
        BY <1>1, <3>2, <3>3, <3>4 DEF IInv, Types, Grows
    <2> QED
      BY <1>1, <2>2, <2>3
  <1>3. \A q \in Tool : Same(q)
    BY <1>1 DEF Same
  <1> QED
    BY <1>2, <1>3, OthersKeep DEF IInv

LEMMA InitHolds ==
    ASSUME Init
    PROVE  IInv
  <1>1. 1 \in Content /\ 1 \in 1 .. Len(Plan) + 1 /\ 0 \in 0 .. MaxContent
    BY PlanShape, IntegrityAssumption DEF Content
  <1>2. Types
    <2>1. tree \in [File -> Content] /\ installed \in [Skill -> Content]
      BY <1>1 DEF Init
    <2>2. at \in [Tool -> 1 .. Len(Plan) + 1]
      BY <1>1 DEF Init
    <2>3. Blank \in [Position -> 0 .. MaxContent]
      BY <1>1 DEF Blank
    <2>4. seen \in [Tool -> [Position -> 0 .. MaxContent]]
      BY <2>3 DEF Init
    <2> QED
      BY <2>1, <2>2, <2>4 DEF Init, Types
  <1>3. ASSUME NEW p \in Tool
        PROVE  Inv(p)
    <2>1. pc[p] = "idle" /\ at[p] = 1
      BY DEF Init
    <2> QED
      BY <2>1 DEF Inv, PassInv, AuthInv, FirstInv, HeldInv, ReadyInv, CaptureInv, Settled
  <1> QED
    BY <1>2, <1>3 DEF IInv

LEMMA StutterKeeps ==
    ASSUME IInv, UNCHANGED vars
    PROVE  IInv'
  <1>1. UNCHANGED <<tree, installed, pc, op, at, seen, stored, first, heldTree, heldSkills>>
    BY DEF vars, files, memory, pass, held
  <1>2. Types'
    BY <1>1 DEF IInv, Types
  <1>3. Grows
    <2>1. \A f \in File : tree[f] \in Nat
      BY Bounds DEF IInv, Types
    <2>2. \A f \in Skill : installed[f] \in Nat
      BY Bounds DEF IInv, Types
    <2> QED
      BY <1>1, <2>1, <2>2 DEF Grows
  <1>4. \A q \in Tool : Same(q)
    BY <1>1 DEF Same
  <1> QED
    BY <1>2, <1>3, <1>4, OthersKeep DEF IInv

LEMMA NextKeeps ==
    ASSUME IInv, [Next]_vars
    PROVE  IInv'
  <1>1. ASSUME NEW p \in Tool, NEW o \in {"manifest", "sign", "verify"}, Start(p, o)
        PROVE  IInv'
    BY <1>1, StartKeeps, LocalKeeps DEF IInv
  <1>2. ASSUME NEW p \in Tool, Step(p)
        PROVE  IInv'
    BY <1>2, StepKeeps, LocalKeeps DEF IInv
  <1>3. ASSUME NEW p \in Tool, Leave(p)
        PROVE  IInv'
    <2>1. Exit(p) /\ tree' = tree /\ installed' = installed
      BY <1>3 DEF Leave, files
    <2> QED
      BY <2>1, ExitKeeps, LocalKeeps DEF IInv
  <1>4. CASE Around
    BY <1>4, AroundKeeps
  <1>5. CASE UNCHANGED vars
    BY <1>5, StutterKeeps
  <1> QED
    BY <1>1, <1>2, <1>3, <1>4, <1>5 DEF Next

LEMMA Inductive == Spec => []IInv
  <1>1. Init => IInv
    BY InitHolds
  <1>2. IInv /\ [Next]_vars => IInv'
    BY NextKeeps
  <1> QED
    BY <1>1, <1>2, PTL DEF Spec

\* The variables keep their types, and a process that is about to confirm, or
\* has confirmed, holds a readable manifest and its first pass.
THEOREM IntegrityTypes == Spec => []TypeOK
  <1>1. IInv => TypeOK
    BY DEF IInv, Types, TypeOK, Inv, FirstInv, ReadyInv
  <1> QED
    BY <1>1, Inductive, PTL

\* Whatever is edited while verify reads the files one by one and twice over,
\* READY means that every signed digest was that of its file at one instant.
THEOREM ReadyIsAboutOneTree == Spec => []ReadyIsOneTree
  <1>1. IInv => ReadyIsOneTree
    BY DEF IInv, Inv, ReadyInv, OneTree, Settled, ReadyIsOneTree
  <1> QED
    BY <1>1, Inductive, PTL

\* Whatever the builder of the manifest scanned, READY means that the findings
\* in the signed manifest are those of the signed bytes, and exactly those the
\* signed policy permits.
THEOREM ReadyWasReviewed == Spec => []ReadyIsReviewed
  <1>1. IInv => ReadyIsReviewed
    BY DEF IInv, Inv, ReadyInv, Reviewed, Settled, ReadyIsReviewed
  <1> QED
    BY <1>1, Inductive, PTL

\* The hook allows a skill only when all its installed files were the signed
\* ones at one instant, between its two captures.
THEOREM HookAllowsOneInstalled == Spec => []HookAllowsInstalled
  <1>1. IInv => HookAllowsInstalled
    BY DEF IInv, Inv, CaptureInv, HookAllowsInstalled
  <1> QED
    BY <1>1, Inductive, PTL
=============================================================================
