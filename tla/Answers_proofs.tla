--------------------------- MODULE Answers_proofs ---------------------------
(***************************************************************************)
(* The limiter and the gate, and the theorems of Answers: each part has an *)
(* inductive invariant of its own.                                         *)
(***************************************************************************)
EXTENDS AgentWorkflow_proofs, Answers

-----------------------------------------------------------------------------
(* The limiter: what is remembered is the end of what was admitted *)

(* The limiter forgot the first d requests client c got through, all older *)
(* than the window, and no other.                                          *)
Remembers(c, d) ==
    /\ Len(hits[c]) = Len(admitted[c]) - d
    /\ \A p \in 1..Len(hits[c]) : hits[c][p] = admitted[c][d + p]
    /\ \A i \in 1..d : now - admitted[c][i] >= Window

(* Requests are admitted in the order of time, no more than Limit are      *)
(* remembered, and those remembered are the last ones.                     *)
LimiterInv ==
    \A c \in Clients :
        /\ \A i, j \in DOMAIN admitted[c] : i <= j => admitted[c][i] <= admitted[c][j]
        /\ \A i \in DOMAIN admitted[c] : admitted[c][i] <= now
        /\ Len(hits[c]) <= Limit
        /\ \E d \in 0..Len(admitted[c]) : Remembers(c, d)

(* What every step of the limiter keeps. *)
LimiterIInv == LimiterTypeOK /\ LimiterInv /\ NeverMoreThanLimit

(* What a request finds in the window is the end of what was remembered,   *)
(* since older times come first.                                           *)
LEMMA RecentIsSuffix ==
    ASSUME LimiterTypeOK, LimiterInv, NEW c \in Clients
    PROVE  /\ Recent(c) \in Seq(0..MaxTime)
           /\ \E k \in 0..Len(hits[c]) :
                 /\ Len(Recent(c)) = Len(hits[c]) - k
                 /\ \A p \in 1..Len(hits[c]) - k : Recent(c)[p] = hits[c][k + p]
                 /\ \A i \in 1..k : now - hits[c][i] >= Window
<1> DEFINE H == hits[c]
           A == admitted[c]
           Counted == {t \in 0..now : now - t < Window}
           After == {n \in Nat : \A i \in 1..Len(H) : i > n => H[i] \in Counted}
<1>1. H \in Seq(0..MaxTime) /\ Len(H) \in Nat /\ A \in Seq(0..MaxTime) /\ Len(A) \in Nat
  BY LenProperties DEF LimiterTypeOK
<1>2. now \in Nat /\ Window \in Nat
  BY LimiterAssumption DEF LimiterTypeOK
<1>3. PICK d \in 0..Len(A) : Remembers(c, d)
  BY DEF LimiterInv
<1>4. \A i, j \in 1..Len(H) : i <= j => H[i] \in Nat /\ H[i] <= H[j] /\ H[j] <= now
  <2> SUFFICES ASSUME NEW i \in 1..Len(H), NEW j \in 1..Len(H), i <= j
               PROVE  H[i] \in Nat /\ H[i] <= H[j] /\ H[j] <= now
    OBVIOUS
  <2>1. d + i \in DOMAIN A /\ d + j \in DOMAIN A /\ d + i <= d + j
    BY <1>1, <1>3 DEF Remembers
  <2>2. H[i] = A[d + i] /\ H[j] = A[d + j]
    BY <1>3 DEF Remembers
  <2>3. A[d + i] <= A[d + j] /\ A[d + j] <= now
    BY <2>1 DEF LimiterInv
  <2>4. A[d + i] \in Nat
    <3> HIDE DEF A
    <3>1. A[d + i] \in 0..MaxTime
      BY <1>1, <2>1, ListPlaces
    <3> QED
      BY <3>1
  <2> QED
    BY <2>2, <2>3, <2>4
<1>5. Len(H) \in After
  BY <1>1
<1>6. PICK k \in After : \A n \in After : k <= n
  <2>1. After \in SUBSET Nat /\ After # {}
    BY <1>5
  <2> HIDE DEF After
  <2> QED
    BY <2>1, LeastNumber
<1>7. k \in 0..Len(H)
  BY <1>1, <1>5, <1>6
<1>8. ASSUME NEW i \in 1..k PROVE now - H[i] >= Window
  <2>1. i \in 1..Len(H) /\ i - 1 \in Nat /\ i - 1 < k
    BY <1>1, <1>7
  <2>2. i - 1 \notin After
    <3> HIDE DEF H, After
    <3>1. ~(k <= i - 1)
      BY <1>1, <1>7, <2>1
    <3> QED
      BY <1>6, <3>1
  <2>3. PICK j \in 1..Len(H) : j > i - 1 /\ H[j] \notin Counted
    <3> HIDE DEF H, Counted
    <3> QED
      BY <2>1, <2>2
  <2>4. i <= j /\ H[i] <= H[j] /\ H[i] \in Nat /\ H[j] \in Nat /\ H[j] <= now
    <3> HIDE DEF H
    <3>1. i <= j
      BY <1>1, <2>1, <2>3
    <3> QED
      BY <1>4, <2>1, <3>1
  <2>5. now - H[j] >= Window
    BY <1>2, <2>3, <2>4
  <2> QED
    BY <1>2, <2>4, <2>5
<1>9. \A n \in 1..Len(H) : H[n] \in Counted <=> n > k
  <2> SUFFICES ASSUME NEW n \in 1..Len(H) PROVE H[n] \in Counted <=> n > k
    OBVIOUS
  <2>1. n > k => H[n] \in Counted
    BY <1>6
  <2>2. n <= k => now - H[n] >= Window
    BY <1>7, <1>8
  <2>3. H[n] \in Nat
    BY <1>4
  <2> QED
    BY <1>2, <1>7, <2>1, <2>2, <2>3
<1>10. /\ Kept(H, Counted) \in Seq(0..MaxTime) /\ Len(Kept(H, Counted)) = Len(H) - k
       /\ \A p \in 1..Len(H) - k : Kept(H, Counted)[p] = H[k + p]
  <2> DEFINE Times == 0..MaxTime
  <2>1. k \in 0..Len(H) /\ H \in Seq(Times)
    BY <1>1, <1>7
  <2>2. \A n \in 1..Len(H) : H[n] \in Counted <=> n > k
    BY <1>9
  <2> HIDE DEF H, A, Counted, After, Times
  <2>3. /\ Kept(H, Counted) \in Seq(Times) /\ Len(Kept(H, Counted)) = Len(H) - k
        /\ \A p \in 1..Len(H) - k : Kept(H, Counted)[p] = H[k + p]
    BY <2>1, <2>2, KeptSuffix
  <2> QED
    BY <2>3 DEF Times
<1>11. Recent(c) = Kept(H, Counted)
  BY DEF Recent
<1> HIDE DEF After, Counted
<1> QED
  BY <1>7, <1>8, <1>10, <1>11

(* Nobody was admitted yet. *)
LEMMA LimiterInit_Inv == LimiterInit => LimiterIInv
<1> SUFFICES ASSUME LimiterInit PROVE LimiterIInv
  OBVIOUS
<1>1. LimiterTypeOK
  BY LimiterAssumption DEF LimiterInit, LimiterTypeOK
<1>2. ASSUME NEW c \in Clients PROVE hits[c] = <<>> /\ admitted[c] = <<>>
  BY DEF LimiterInit
<1>3. LimiterInv
  <2> SUFFICES ASSUME NEW c \in Clients
               PROVE  /\ \A i, j \in DOMAIN admitted[c] : i <= j => admitted[c][i] <= admitted[c][j]
                      /\ \A i \in DOMAIN admitted[c] : admitted[c][i] <= now
                      /\ Len(hits[c]) <= Limit
                      /\ \E d \in 0..Len(admitted[c]) : Remembers(c, d)
    BY DEF LimiterInv
  <2>1. Remembers(c, 0)
    BY <1>2 DEF Remembers
  <2>2. Len(admitted[c]) = 0
    BY <1>2
  <2> QED
    BY <1>2, <2>1, <2>2, LimiterAssumption
<1>4. NeverMoreThanLimit
  BY <1>2 DEF NeverMoreThanLimit
<1> QED
  BY <1>1, <1>3, <1>4 DEF LimiterIInv

(* A request let through is the newest, and found fewer than Limit in its  *)
(* window: the Limit-th before it was already older.                       *)
LEMMA AdmitKeeps ==
    ASSUME LimiterIInv, NEW c \in Clients, Admit(c)
    PROVE  LimiterIInv'
<1> DEFINE A == admitted[c]
           H == hits[c]
           R == Recent(c)
           n == Len(A)
<1>1. /\ H \in Seq(0..MaxTime) /\ Len(H) \in Nat /\ A \in Seq(0..MaxTime) /\ n \in Nat
      /\ R \in Seq(0..MaxTime) /\ Len(R) \in Nat /\ DOMAIN A = 1..n
  BY RecentIsSuffix, LenProperties DEF LimiterIInv, LimiterTypeOK
<1>2. now \in 0..MaxTime /\ now \in Nat /\ Window \in Nat \ {0} /\ Limit \in Nat \ {0}
  BY LimiterAssumption DEF LimiterIInv, LimiterTypeOK
<1>3. PICK k \in 0..Len(H) :
          /\ Len(R) = Len(H) - k
          /\ \A p \in 1..Len(H) - k : R[p] = H[k + p]
          /\ \A i \in 1..k : now - H[i] >= Window
  BY RecentIsSuffix DEF LimiterIInv
<1>4. PICK d \in 0..n :
          /\ Len(H) = n - d
          /\ \A p \in 1..Len(H) : H[p] = A[d + p]
          /\ \A i \in 1..d : now - A[i] >= Window
  BY DEF LimiterIInv, LimiterInv, Remembers
<1>5. /\ hits' = [hits EXCEPT ![c] = Append(R, now)]
      /\ admitted' = [admitted EXCEPT ![c] = Append(A, now)]
      /\ now' = now /\ Len(R) < Limit
  BY DEF Admit
<1>6. /\ hits'[c] = Append(R, now) /\ admitted'[c] = Append(A, now)
      /\ \A e \in Clients : e # c => hits'[e] = hits[e] /\ admitted'[e] = admitted[e]
  BY <1>5 DEF LimiterIInv, LimiterTypeOK
<1>7. /\ \A i \in 1..n : A[i] \in Nat /\ A[i] <= now
      /\ \A i, j \in 1..n : i <= j => A[i] <= A[j]
  <2>1. \A i \in 1..n : A[i] \in Nat
    BY <1>1, LimiterAssumption
  <2>2. \A i \in DOMAIN A : A[i] <= now
    BY DEF LimiterIInv, LimiterInv
  <2>3. \A i, j \in DOMAIN A : i <= j => A[i] <= A[j]
    BY DEF LimiterIInv, LimiterInv
  <2> HIDE DEF A
  <2> QED
    BY <1>1, <2>1, <2>2, <2>3
<1>8. /\ Append(A, now) \in Seq(0..MaxTime) /\ Len(Append(A, now)) = n + 1
      /\ Append(A, now)[n + 1] = now /\ \A i \in 1..n : Append(A, now)[i] = A[i]
      /\ Append(R, now) \in Seq(0..MaxTime) /\ Len(Append(R, now)) = Len(R) + 1
      /\ Append(R, now)[Len(R) + 1] = now /\ \A i \in 1..Len(R) : Append(R, now)[i] = R[i]
      /\ DOMAIN Append(A, now) = 1..n + 1
  BY <1>1, <1>2
<1> HIDE DEF A, H, R
<1> DEFINE B == Append(A, now)
           K == Append(R, now)
           m == d + k
<1>9. m \in 0..n /\ Len(R) = n - m
  BY <1>1, <1>3, <1>4
<1>10. ASSUME NEW i \in 1..m PROVE now - A[i] >= Window
  <2>1. CASE i <= d
    BY <2>1, <1>4
  <2>2. CASE i > d
    <3>1. i - d \in 1..k /\ i - d \in 1..Len(H) /\ d + (i - d) = i
      BY <2>2, <1>3, <1>4, <1>1
    <3>2. H[i - d] = A[i]
      BY <3>1, <1>4
    <3> QED
      BY <3>1, <3>2, <1>3
  <2> QED
    BY <2>1, <2>2
<1>11. ASSUME NEW p \in 1..Len(R) PROVE R[p] = A[m + p]
  <2>1. p \in 1..Len(H) - k /\ k + p \in 1..Len(H) /\ d + (k + p) = m + p
    BY <1>1, <1>3, <1>4
  <2> QED
    BY <2>1, <1>3, <1>4
<1> HIDE DEF m
<1>12. LimiterTypeOK'
  BY <1>2, <1>5, <1>8 DEF LimiterIInv, LimiterTypeOK
<1>13. Remembers(c, m)'
  <2>1. Len(K) = Len(B) - m
    BY <1>1, <1>8, <1>9
  <2>2. ASSUME NEW p \in 1..Len(K) PROVE K[p] = B[m + p]
    <3>1. CASE p = Len(R) + 1
      BY <3>1, <1>1, <1>8, <1>9
    <3>2. CASE p # Len(R) + 1
      <4>1. p \in 1..Len(R) /\ m + p \in 1..n
        BY <3>2, <1>1, <1>8, <1>9
      <4> QED
        BY <4>1, <1>8, <1>11
    <3> QED
      BY <3>1, <3>2
  <2>3. ASSUME NEW i \in 1..m PROVE now - B[i] >= Window
    <3>1. i \in 1..n
      BY <1>1, <1>9
    <3> QED
      BY <3>1, <1>8, <1>10
  <2> HIDE DEF K, B
  <2> QED
    BY <2>1, <2>2, <2>3, <1>5, <1>6 DEF Remembers, K, B
<1>14. ASSUME NEW i \in 1..n + 1, NEW j \in 1..n + 1, i <= j
       PROVE  /\ B[i] <= B[j] /\ B[j] <= now
              /\ B[j] - B[i] < Window => j - i < Limit
  <2>1. CASE j \in 1..n
    <3>1. i \in 1..n /\ B[i] = A[i] /\ B[j] = A[j]
      BY <2>1, <1>1, <1>8, <1>14
    <3>2. A[j] - A[i] < Window => j - i < Limit
      BY <2>1, <3>1, <1>1, <1>14 DEF LimiterIInv, NeverMoreThanLimit, A
    <3> QED
      BY <2>1, <3>1, <3>2, <1>7, <1>14
  <2>2. CASE j = n + 1 /\ i \in 1..n
    <3>1. B[i] = A[i] /\ B[j] = now
      BY <2>2, <1>8
    <3>2. now - A[i] < Window => i > m
      BY <2>2, <1>1, <1>2, <1>7, <1>9, <1>10
    <3>3. i > m => j - i < Limit
      BY <2>2, <1>1, <1>2, <1>5, <1>9
    <3> QED
      BY <2>2, <3>1, <3>2, <3>3, <1>2, <1>7
  <2>3. CASE j = n + 1 /\ i = n + 1
    BY <2>3, <1>1, <1>2, <1>8
  <2> QED
    BY <2>1, <2>2, <2>3, <1>1
<1>15. LimiterInv'
  <2> SUFFICES ASSUME NEW e \in Clients
        PROVE  /\ \A i, j \in DOMAIN admitted'[e] : i <= j => admitted'[e][i] <= admitted'[e][j]
               /\ \A i \in DOMAIN admitted'[e] : admitted'[e][i] <= now'
               /\ Len(hits'[e]) <= Limit
               /\ \E x \in 0..Len(admitted'[e]) : Remembers(e, x)'
    BY DEF LimiterInv
  <2>1. CASE e = c
    <3>1. m \in 0..Len(B) /\ Len(K) <= Limit /\ DOMAIN B = 1..n + 1
      BY <1>1, <1>2, <1>5, <1>8, <1>9
    <3> HIDE DEF B, K
    <3>2. admitted'[e] = B /\ hits'[e] = K
      BY <2>1, <1>6 DEF B, K
    <3>3. \A i, j \in DOMAIN B : i <= j => B[i] <= B[j]
      BY <3>1, <1>14
    <3>4. \A i \in DOMAIN B : B[i] <= now'
      BY <3>1, <1>14, <1>5, <1>1
    <3> QED
      BY <2>1, <3>1, <3>2, <3>3, <3>4, <1>13
  <2>2. CASE e # c
    <3>1. admitted'[e] = admitted[e] /\ hits'[e] = hits[e] /\ now' = now
      BY <2>2, <1>5, <1>6
    <3>2. \A x : Remembers(e, x) => Remembers(e, x)'
      BY <3>1 DEF Remembers
    <3> QED
      BY <3>1, <3>2 DEF LimiterIInv, LimiterInv
  <2> QED
    BY <2>1, <2>2
<1>16. NeverMoreThanLimit'
  <2> SUFFICES ASSUME NEW e \in Clients,
                      NEW i \in DOMAIN admitted'[e], NEW j \in DOMAIN admitted'[e],
                      i <= j, admitted'[e][j] - admitted'[e][i] < Window
               PROVE  j - i < Limit
    BY DEF NeverMoreThanLimit
  <2>1. CASE e = c
    <3>1. i \in 1..n + 1 /\ j \in 1..n + 1 /\ B[j] - B[i] < Window
      BY <2>1, <1>6, <1>8
    <3> QED
      BY <3>1, <1>14
  <2>2. CASE e # c
    BY <2>2, <1>6 DEF LimiterIInv, NeverMoreThanLimit
  <2> QED
    BY <2>1, <2>2
<1> QED
  BY <1>12, <1>15, <1>16 DEF LimiterIInv

(* A request that is refused only forgets what is too old. *)
LEMMA RefuseKeeps ==
    ASSUME LimiterIInv, NEW c \in Clients, Refuse(c)
    PROVE  LimiterIInv'
<1> DEFINE A == admitted[c]
           H == hits[c]
           R == Recent(c)
           n == Len(A)
<1>1. /\ H \in Seq(0..MaxTime) /\ Len(H) \in Nat /\ A \in Seq(0..MaxTime) /\ n \in Nat
      /\ R \in Seq(0..MaxTime) /\ Len(R) \in Nat
  BY RecentIsSuffix, LenProperties DEF LimiterIInv, LimiterTypeOK
<1>2. PICK k \in 0..Len(H) :
          /\ Len(R) = Len(H) - k
          /\ \A p \in 1..Len(H) - k : R[p] = H[k + p]
          /\ \A i \in 1..k : now - H[i] >= Window
  BY RecentIsSuffix DEF LimiterIInv
<1>3. PICK d \in 0..n :
          /\ Len(H) = n - d
          /\ \A p \in 1..Len(H) : H[p] = A[d + p]
          /\ \A i \in 1..d : now - A[i] >= Window
  BY DEF LimiterIInv, LimiterInv, Remembers
<1>4. hits' = [hits EXCEPT ![c] = R] /\ admitted' = admitted /\ now' = now
  BY DEF Refuse
<1>5. hits'[c] = R /\ \A e \in Clients : e # c => hits'[e] = hits[e]
  BY <1>4 DEF LimiterIInv, LimiterTypeOK
<1>6. LimiterTypeOK'
  BY <1>1, <1>4 DEF LimiterIInv, LimiterTypeOK
<1>7. NeverMoreThanLimit'
  BY <1>4 DEF LimiterIInv, NeverMoreThanLimit
<1>8. Len(H) <= Limit
  BY DEF LimiterIInv, LimiterInv
<1> HIDE DEF A, H, R
<1>9. Len(R) <= Limit /\ d + k \in 0..n /\ Len(R) = n - (d + k)
  BY <1>1, <1>2, <1>3, <1>8, LimiterAssumption
<1>10. ASSUME NEW i \in 1..d + k PROVE now - A[i] >= Window
  <2>1. CASE i <= d
    BY <2>1, <1>3
  <2>2. CASE i > d
    <3>1. i - d \in 1..k /\ i - d \in 1..Len(H) /\ d + (i - d) = i
      BY <2>2, <1>1, <1>2, <1>3
    <3>2. H[i - d] = A[i]
      BY <3>1, <1>3
    <3> QED
      BY <3>1, <3>2, <1>2
  <2> QED
    BY <2>1, <2>2
<1>11. ASSUME NEW p \in 1..Len(R) PROVE R[p] = A[d + k + p]
  <2>1. p \in 1..Len(H) - k /\ k + p \in 1..Len(H) /\ d + (k + p) = d + k + p
    BY <1>1, <1>2, <1>3
  <2> QED
    BY <2>1, <1>2, <1>3
<1>12. Remembers(c, d + k)'
  BY <1>4, <1>5, <1>9, <1>10, <1>11 DEF Remembers, A
<1>13. LimiterInv'
  <2> SUFFICES ASSUME NEW e \in Clients
               PROVE  Len(hits'[e]) <= Limit /\ \E x \in 0..Len(admitted[e]) : Remembers(e, x)'
    BY <1>4 DEF LimiterIInv, LimiterInv
  <2>1. CASE e = c
    BY <2>1, <1>5, <1>9, <1>12 DEF A
  <2>2. CASE e # c
    <3>1. \A x : Remembers(e, x) => Remembers(e, x)'
      BY <2>2, <1>4, <1>5 DEF Remembers
    <3> QED
      BY <2>2, <3>1, <1>5 DEF LimiterIInv, LimiterInv
  <2> QED
    BY <2>1, <2>2
<1> QED
  BY <1>6, <1>7, <1>13 DEF LimiterIInv

(* Time makes remembered requests no younger. *)
LEMMA TickKeeps == LimiterIInv /\ Tick => LimiterIInv'
<1> SUFFICES ASSUME LimiterIInv, Tick PROVE LimiterIInv'
  OBVIOUS
<1>1. now < MaxTime /\ now' = now + 1 /\ hits' = hits /\ admitted' = admitted
  BY DEF Tick
<1>2. now \in Nat /\ Window \in Nat /\ MaxTime \in Nat
  BY LimiterAssumption DEF LimiterIInv, LimiterTypeOK
<1>3. LimiterTypeOK' /\ NeverMoreThanLimit'
  BY <1>1, <1>2 DEF LimiterIInv, LimiterTypeOK, NeverMoreThanLimit
<1>4. ASSUME NEW c \in Clients, NEW i \in DOMAIN admitted[c] PROVE admitted[c][i] \in Nat
  <2>1. admitted[c] \in Seq(0..MaxTime)
    BY DEF LimiterIInv, LimiterTypeOK
  <2> QED
    BY <1>2, <2>1
<1>5. ASSUME NEW c \in Clients, NEW d \in 0..Len(admitted[c]), Remembers(c, d)
      PROVE  Remembers(c, d)'
  <2>1. \A i \in 1..d : admitted[c][i] \in Nat
    <3>1. admitted[c] \in Seq(0..MaxTime)
      BY DEF LimiterIInv, LimiterTypeOK
    <3> QED
      BY <1>2, <3>1
  <2> QED
    BY <1>1, <1>2, <1>5, <2>1 DEF Remembers
<1>6. LimiterInv'
  <2> SUFFICES ASSUME NEW c \in Clients
               PROVE  /\ \A i, j \in DOMAIN admitted[c] : i <= j => admitted[c][i] <= admitted[c][j]
                      /\ \A i \in DOMAIN admitted[c] : admitted[c][i] <= now + 1
                      /\ Len(hits[c]) <= Limit
                      /\ \E d \in 0..Len(admitted[c]) : Remembers(c, d)'
    BY <1>1 DEF LimiterInv
  <2> QED
    BY <1>2, <1>4, <1>5 DEF LimiterIInv, LimiterInv
<1> QED
  BY <1>3, <1>6 DEF LimiterIInv

(* Every step of the limiter keeps LimiterIInv. *)
LEMMA LimiterStep == LimiterIInv /\ [LimiterNext]_limiterVars => LimiterIInv'
<1> SUFFICES ASSUME LimiterIInv, [LimiterNext]_limiterVars PROVE LimiterIInv'
  OBVIOUS
<1>1. CASE Tick
  BY <1>1, TickKeeps
<1>2. ASSUME NEW c \in Clients, Admit(c) PROVE LimiterIInv'
  BY <1>2, AdmitKeeps
<1>3. ASSUME NEW c \in Clients, Refuse(c) PROVE LimiterIInv'
  BY <1>3, RefuseKeeps
<1>4. CASE UNCHANGED limiterVars
  BY <1>4 DEF limiterVars, LimiterIInv, LimiterTypeOK, LimiterInv, Remembers, NeverMoreThanLimit
<1> QED
  BY <1>1, <1>2, <1>3, <1>4 DEF LimiterNext

-----------------------------------------------------------------------------
(* Sums and scores *)

(* The element that MapThenSumSet takes first. *)
First(s) == CHOOSE x \in s : TRUE

(* g sums f over every part of S, one element after the other. *)
Adds(g, f, S) ==
    \A s \in SUBSET S : g[s] = IF s = {} THEN 0 ELSE f[First(s)] + g[s \ {First(s)}]

(* A finite set without one of its elements. *)
LEMMA OneLess ==
    ASSUME NEW S, IsFiniteSet(S), NEW s \in SUBSET S, s # {}
    PROVE  /\ IsFiniteSet(s) /\ First(s) \in s /\ Cardinality(s) \in Nat \ {0}
           /\ s \ {First(s)} \in SUBSET S /\ Cardinality(s \ {First(s)}) = Cardinality(s) - 1
<1>1. IsFiniteSet(s) /\ First(s) \in s
  BY FS_Subset DEF First
<1>2. Cardinality(s) \in Nat /\ Cardinality(s) # 0
  BY <1>1, FS_CardinalityType, FS_EmptySet
<1>3. Cardinality(s \ {First(s)}) = Cardinality(s) - 1
  BY <1>1, FS_RemoveElement
<1> QED
  BY <1>1, <1>2, <1>3

(* Total exists: the recursive function of MapThenSumSet has a value for   *)
(* every part of a finite set.                                             *)
LEMMA TotalSolved ==
    ASSUME NEW S, IsFiniteSet(S), NEW f \in [S -> Int]
    PROVE  \E g : Adds(g, f, S) /\ Total(f) = g[S]
<1> DEFINE Rhs(g, s) == IF s = {} THEN 0 ELSE f[First(s)] + g[s \ {First(s)}]
           Parts(n) == {s \in SUBSET S : Cardinality(s) <= n}
           Solves(g, n) == \A s \in Parts(n) : g[s] = Rhs(g, s)
           Solved == {n \in Nat : \E g : Solves(g, n)}
<1>1. ASSUME NEW s \in SUBSET S
      PROVE  Cardinality(s) \in Nat /\ (s = {} <=> Cardinality(s) = 0)
  BY FS_Subset, FS_CardinalityType, FS_EmptySet
<1>2. 0 \in Solved
  <2> DEFINE g == [s \in Parts(0) |-> 0]
  <2>1. ASSUME NEW s \in Parts(0) PROVE s = {}
    BY <1>1
  <2>2. Solves(g, 0)
    BY <2>1
  <2> QED
    BY <2>2
<1>3. ASSUME NEW n \in Solved PROVE n + 1 \in Solved
  <2>1. n \in Nat
    OBVIOUS
  <2>2. PICK h : Solves(h, n)
    OBVIOUS
  <2> DEFINE g == [s \in Parts(n + 1) |-> Rhs(h, s)]
  <2>3. ASSUME NEW s \in Parts(n + 1), s # {}
        PROVE  First(s) \in S /\ s \ {First(s)} \in Parts(n)
    <3>1. /\ First(s) \in s /\ Cardinality(s) \in Nat \ {0}
          /\ s \ {First(s)} \in SUBSET S /\ Cardinality(s \ {First(s)}) = Cardinality(s) - 1
      BY <2>3, OneLess
    <3> QED
      BY <2>1, <3>1
  <2>5. ASSUME NEW s \in Parts(n) PROVE s \in Parts(n + 1) /\ g[s] = h[s]
    <3>1. s \in Parts(n + 1)
      BY <1>1, <2>1
    <3>2. h[s] = Rhs(h, s)
      BY <2>2
    <3> HIDE DEF Parts, Rhs
    <3> QED
      BY <3>1, <3>2
  <2>6. ASSUME NEW s \in Parts(n + 1) PROVE g[s] = Rhs(g, s)
    <3>1. g[s] = Rhs(h, s)
      OBVIOUS
    <3>2. CASE s = {}
      BY <3>1, <3>2
    <3>3. CASE s # {}
      <4>1. g[s \ {First(s)}] = h[s \ {First(s)}]
        <5> HIDE DEF g, Parts
        <5> QED
          BY <2>3, <2>5, <3>3
      <4> HIDE DEF g
      <4> QED
        BY <3>1, <3>3, <4>1
    <3> QED
      BY <3>2, <3>3
  <2>8. Solves(g, n + 1)
    <3> HIDE DEF g, Parts, Rhs
    <3> QED
      BY <2>6
  <2>9. n + 1 \in Nat
    BY <2>1
  <2> HIDE DEF Solves, g
  <2> QED
    BY <2>8, <2>9
<1>4. Solved = Nat
  <2>1. Solved \in SUBSET Nat
    OBVIOUS
  <2> HIDE DEF Solved
  <2> QED
    BY <1>2, <1>3, <2>1, Induction
<1>5. Parts(Cardinality(S)) = SUBSET S
  <2>1. ASSUME NEW s \in SUBSET S PROVE Cardinality(s) <= Cardinality(S)
    BY FS_Subset
  <2> QED
    BY <2>1
<1>6. PICK h : Solves(h, Cardinality(S))
  <2>1. Cardinality(S) \in Solved
    BY <1>1, <1>4
  <2> QED
    BY <2>1
<1> HIDE DEF Solved
<1> DEFINE g == [s \in SUBSET S |-> h[s]]
           sum == CHOOSE it : it = [s \in SUBSET DOMAIN f |->
                     IF s = {} THEN 0
                     ELSE f[CHOOSE x \in s : TRUE] + it[s \ {CHOOSE x \in s : TRUE}]]
<1>7. \A s \in SUBSET S : g[s] = Rhs(h, s)
  BY <1>5, <1>6
<1>8. ASSUME NEW s \in SUBSET S, s # {} PROVE g[s \ {First(s)}] = h[s \ {First(s)}]
  OBVIOUS
<1>9. \A s \in SUBSET S : g[s] = Rhs(g, s)
  <2> HIDE DEF g
  <2> QED
    BY <1>7, <1>8
<1>10. g = [s \in SUBSET S |-> g[s]]
  OBVIOUS
<1> HIDE DEF g
<1>11. Total(f) = sum[DOMAIN f]
  BY DEF Total, MapThenSumSet, MapThenFoldSet
<1>12. g = [s \in SUBSET DOMAIN f |->
              IF s = {} THEN 0
              ELSE f[CHOOSE x \in s : TRUE] + g[s \ {CHOOSE x \in s : TRUE}]]
  BY <1>9, <1>10 DEF First
<1>13. sum = [s \in SUBSET DOMAIN f |->
                IF s = {} THEN 0
                ELSE f[CHOOSE x \in s : TRUE] + sum[s \ {CHOOSE x \in s : TRUE}]]
  BY <1>12
<1> HIDE DEF sum
<1>14. \A s \in SUBSET S : sum[s] = IF s = {} THEN 0 ELSE f[First(s)] + sum[s \ {First(s)}]
  BY <1>13 DEF First
<1>15. Adds(sum, f, S)
  BY <1>14 DEF Adds
<1> QED
  BY <1>11, <1>15
(* A sum of equally bounded numbers. *)
LEMMA TotalBounds ==
    ASSUME NEW S, IsFiniteSet(S), NEW f \in [S -> Int], NEW low \in Int, NEW high \in Int,
           \A x \in S : low <= f[x] /\ f[x] <= high
    PROVE  /\ Total(f) \in Int /\ Cardinality(S) \in Nat
           /\ low * Cardinality(S) <= Total(f) /\ Total(f) <= high * Cardinality(S)
<1>1. PICK g : Adds(g, f, S) /\ Total(f) = g[S]
  BY TotalSolved
<1> DEFINE Bounded(s) == /\ g[s] \in Int
                         /\ low * Cardinality(s) <= g[s] /\ g[s] <= high * Cardinality(s)
           Sizes == {n \in Nat : \A s \in SUBSET S : Cardinality(s) = n => Bounded(s)}
<1>2. 0 \in Sizes
  <2> SUFFICES ASSUME NEW s \in SUBSET S, Cardinality(s) = 0 PROVE Bounded(s)
    OBVIOUS
  <2>1. s = {}
    BY FS_Subset, FS_EmptySet
  <2>2. g[s] = 0
    BY <1>1, <2>1 DEF Adds
  <2> QED
    BY <2>2
<1>3. ASSUME NEW n \in Sizes PROVE n + 1 \in Sizes
  <2>1. n \in Nat
    OBVIOUS
  <2> SUFFICES ASSUME NEW s \in SUBSET S, Cardinality(s) = n + 1 PROVE Bounded(s)
    BY <2>1
  <2>2. s # {}
    <3>1. n + 1 # 0
      BY <2>1
    <3> QED
      BY <3>1, FS_EmptySet
  <2> DEFINE x == First(s)
             t == s \ {x}
  <2>3. x \in S /\ t \in SUBSET S /\ Cardinality(t) = n
    BY <2>1, <2>2, OneLess
  <2>4. Bounded(t)
    <3> HIDE DEF t, Bounded
    <3> QED
      BY <2>3
  <2>5. g[s] = f[x] + g[t]
    BY <1>1, <2>2 DEF Adds
  <2>6. f[x] \in Int /\ low <= f[x] /\ f[x] <= high
    BY <2>3
  <2> HIDE DEF x, t
  <2>7. low * (n + 1) = low * n + low /\ high * (n + 1) = high * n + high
    BY <2>1
  <2>8. low * n \in Int /\ high * n \in Int
    BY <2>1
  <2> QED
    BY <2>1, <2>3, <2>4, <2>5, <2>6, <2>7, <2>8
<1>4. Sizes = Nat
  <2>1. Sizes \in SUBSET Nat
    OBVIOUS
  <2> HIDE DEF Sizes
  <2> QED
    BY <1>2, <1>3, <2>1, Induction
<1>5. Cardinality(S) \in Nat
  BY FS_CardinalityType
<1>6. Cardinality(S) \in Sizes
  <2> HIDE DEF Sizes
  <2> QED
    BY <1>4, <1>5
<1> QED
  BY <1>1, <1>5, <1>6

(* What \div leaves. *)
LEMMA Quotient ==
    ASSUME NEW a \in Nat, NEW b \in Nat \ {0}
    PROVE  /\ a \div b \in Nat
           /\ (a \div b) * b <= a /\ a < (a \div b) * b + b
<1>1. a \div b \in Int /\ a % b \in 0..(b - 1) /\ a = b * (a \div b) + (a % b)
  BY SMTT(30)
<1> QED
  BY <1>1

(* A share of d, rounded, is from 0 to Whole; no share is 0. *)
LEMMA ScoreRange ==
    ASSUME NEW n \in Nat, NEW d \in Nat, n <= d
    PROVE  Score(n, d) \in 0..Whole /\ (n = 0 => Score(n, d) = 0)
<1>1. CASE d = 0
  BY <1>1 DEF Score, Whole
<1>2. CASE d # 0
  <2> DEFINE a == 20000 * n + d
             b == 2 * d
             q == a \div b
  <2>1. a \in Nat /\ b \in Nat \ {0} /\ Score(n, d) = q
    BY <1>2 DEF Score, Whole
  <2>2. a < 10001 * b /\ (n = 0 => a < b)
    BY <1>2
  <2> HIDE DEF a, b
  <2>3. q \in Nat /\ q * b <= a
    BY <2>1, Quotient
  <2> HIDE DEF q
  <2>4. q <= 10000
    <3> SUFFICES ASSUME q >= 10001 PROVE FALSE
      BY <2>3
    <3>1. 10001 * b <= q * b
      BY <2>1, <2>3
    <3> QED
      BY <2>1, <2>2, <2>3, <3>1
  <2>5. n = 0 => q = 0
    <3> SUFFICES ASSUME n = 0, q >= 1 PROVE FALSE
      BY <2>3
    <3>1. b <= q * b
      BY <2>1, <2>3
    <3> QED
      BY <2>1, <2>2, <2>3, <3>1
  <2> QED
    BY <2>1, <2>3, <2>4, <2>5 DEF Whole
<1> QED
  BY <1>1, <1>2

(* The unit that scores are rounded to; its value does not matter. *)
LEMMA WholeNat == Whole \in Nat
  BY DEF Whole

(* _average_precision is a score: each relevant rank counts for at most    *)
(* one.                                                                    *)
LEMMA PrecisionRange ==
    ASSUME NEW s \in Sample
    PROVE  AveragePrecision(s) \in 0..Whole
<1> DEFINE R == Relevant(s)
           Upto(k) == {j \in R : j <= k}
           f == [k \in R |-> Cardinality(Upto(k)) * (RankUnit \div k)]
<1>1. AveragePrecision(s) = Score(Total(f), RankUnit * Cardinality(R))
  BY DEF AveragePrecision
<1>2. IsFiniteSet(R) /\ R \subseteq Nat \ {0}
  <2>1. s.contexts \in Seq(Passages)
    BY DEF Sample
  <2>2. IsFiniteSet(DOMAIN s.contexts) /\ DOMAIN s.contexts \subseteq Nat \ {0}
    BY <2>1, ListPlaces
  <2>3. R \in SUBSET DOMAIN s.contexts
    BY DEF Relevant
  <2> QED
    BY <2>2, <2>3, FS_Subset
<1>3. ASSUME NEW k \in R
      PROVE  f[k] \in Int /\ 0 <= f[k] /\ f[k] <= RankUnit
  <2> DEFINE n == Cardinality(Upto(k))
             q == RankUnit \div k
  <2>1. k \in Nat \ {0} /\ RankUnit \in Nat
    BY <1>2, EvaluationAssumption
  <2>2. q \in Nat /\ q * k <= RankUnit
    BY <2>1, Quotient
  <2>3. n \in Nat /\ n <= k
    <3>1. IsFiniteSet(1..k) /\ Cardinality(1..k) = k
      BY <2>1, FS_Interval
    <3>2. Upto(k) \in SUBSET (1..k)
      BY <1>2, <2>1
    <3> HIDE DEF Upto
    <3>3. IsFiniteSet(Upto(k)) /\ n <= k
      BY <3>1, <3>2, FS_Subset
    <3> QED
      BY <3>3, FS_CardinalityType
  <2>4. f[k] = n * q
    OBVIOUS
  <2> HIDE DEF n, q, f
  <2>5. n * q <= k * q /\ n * q \in Nat
    BY <2>1, <2>2, <2>3
  <2> QED
    BY <2>1, <2>2, <2>3, <2>4, <2>5
<1>4. f = [k \in R |-> f[k]]
  OBVIOUS
<1> HIDE DEF f, R
<1>5. f \in [R -> Int] /\ 0 \in Int /\ RankUnit \in Int
  BY <1>3, <1>4, EvaluationAssumption
<1>6. /\ Total(f) \in Int /\ Cardinality(R) \in Nat
      /\ 0 * Cardinality(R) <= Total(f) /\ Total(f) <= RankUnit * Cardinality(R)
  BY <1>2, <1>3, <1>5, TotalBounds
<1>7. Total(f) \in Nat /\ RankUnit * Cardinality(R) \in Nat
  BY <1>6, EvaluationAssumption
<1>8. Score(Total(f), RankUnit * Cardinality(R)) \in 0..Whole
  <2> DEFINE n == Total(f)
             d == RankUnit * Cardinality(R)
  <2>1. n \in Nat /\ d \in Nat /\ n <= d
    BY <1>6, <1>7
  <2> HIDE DEF n, d
  <2>2. Score(n, d) \in 0..Whole
    BY <2>1, ScoreRange
  <2> QED
    BY <2>2 DEF n, d
<1> QED
  BY <1>1, <1>8

(* The scores of an answer, and that faithfulness needs what was found. *)
LEMMA ItemScoresRange ==
    ASSUME NEW s \in Sample
    PROVE  /\ ItemScores(s) \in [Metrics -> 0..Whole]
           /\ ItemScores(s)["faithfulness"] > 0 => Supported(s) # {} /\ s.contexts # <<>>
<1> DEFINE target == Question[s.item] \cup Reference[s.item]
<1>1. /\ s.item \in Items /\ s.answer \in SUBSET Terms /\ target \in SUBSET Terms
      /\ IsFiniteSet(Terms)
  BY EvaluationAssumption DEF Sample
<1>2. ASSUME NEW A \in SUBSET Terms, NEW B \in SUBSET A
      PROVE  /\ Score(Cardinality(B), Cardinality(A)) \in 0..Whole
             /\ B = {} => Score(Cardinality(B), Cardinality(A)) = 0
  <2>1. IsFiniteSet(A) /\ IsFiniteSet(B) /\ Cardinality(B) <= Cardinality(A)
    BY <1>1, FS_Subset
  <2> DEFINE n == Cardinality(B)
             d == Cardinality(A)
  <2>2. d \in Nat /\ n \in Nat /\ n <= d /\ (B = {} => n = 0)
    BY <2>1, FS_CardinalityType, FS_EmptySet
  <2> HIDE DEF n, d
  <2>3. Score(n, d) \in 0..Whole /\ (n = 0 => Score(n, d) = 0)
    BY <2>2, ScoreRange
  <2> QED
    BY <2>2, <2>3 DEF n, d
<1>3. Supported(s) \in SUBSET s.answer
  BY DEF Supported
<1>4. /\ Score(Cardinality(Supported(s)), Cardinality(s.answer)) \in 0..Whole
      /\ Supported(s) = {} => Score(Cardinality(Supported(s)), Cardinality(s.answer)) = 0
  BY <1>1, <1>2, <1>3
<1>5. Score(Cardinality(s.answer \cap target), Cardinality(target)) \in 0..Whole
  <2> HIDE DEF target
  <2>1. s.answer \cap target \in SUBSET target
    OBVIOUS
  <2> QED
    BY <1>1, <1>2, <2>1
<1>6. AveragePrecision(s) \in 0..Whole
  BY PrecisionRange
<1>7. s.contexts = <<>> => Supported(s) = {}
  BY DEF Supported
<1>8. ItemScores(s) = [faithfulness |-> Score(Cardinality(Supported(s)), Cardinality(s.answer)),
                       context_precision |-> AveragePrecision(s),
                       answer_relevancy |-> Score(Cardinality(s.answer \cap target),
                                                  Cardinality(target))]
  BY DEF ItemScores
<1> DEFINE a == Score(Cardinality(Supported(s)), Cardinality(s.answer))
           b == AveragePrecision(s)
           c == Score(Cardinality(s.answer \cap target), Cardinality(target))
<1>9. a \in 0..Whole /\ b \in 0..Whole /\ c \in 0..Whole
  BY <1>4, <1>5, <1>6
<1>10. /\ ItemScores(s) = [faithfulness |-> a, context_precision |-> b, answer_relevancy |-> c]
       /\ Supported(s) = {} => a = 0
  BY <1>4, <1>8
<1> HIDE DEF target, a, b, c
<1>11. ItemScores(s) \in [Metrics -> 0..Whole]
  BY <1>9, <1>10 DEF Metrics
<1>12. ItemScores(s)["faithfulness"] = a
  BY <1>10
<1> QED
  BY <1>7, <1>9, <1>10, <1>11, <1>12

(* A mean reaches a threshold only if an item does, and fails to only if an *)
(* item is below.                                                          *)
LEMMA MeanByItem ==
    ASSUME NEW items \in Seq([Metrics -> 0..Whole]), NEW m \in Metrics, NEW t \in 0..Whole
    PROVE  /\ MeanReaches(items, m, t) /\ t > 0 => \E i \in DOMAIN items : items[i][m] >= t
           /\ ~MeanReaches(items, m, t) /\ items # <<>> => \E i \in DOMAIN items : items[i][m] < t
<1> DEFINE D == DOMAIN items
           f == [i \in D |-> items[i][m]]
           n == Len(items)
           Ranks == [Metrics -> 0..Whole]
<1>1. /\ n \in Nat /\ IsFiniteSet(D) /\ Cardinality(D) = n
      /\ \A i \in D : items[i] \in Ranks
  <2> HIDE DEF Ranks
  <2> QED
    BY ListPlaces DEF Ranks
<1>2. \A i \in D : f[i] = items[i][m] /\ f[i] \in Int /\ 0 <= f[i] /\ f[i] <= Whole
  BY <1>1
<1>3. f \in [D -> Int]
  <2>1. f = [i \in D |-> f[i]]
    OBVIOUS
  <2> HIDE DEF f, D
  <2> QED
    BY <1>2, <2>1
<1>4. items # <<>> => (MeanReaches(items, m, t) <=> Total(f) >= t * n)
  BY DEF MeanReaches
<1>5. items = <<>> => (MeanReaches(items, m, t) <=> 0 >= t)
  BY DEF MeanReaches
<1>6. items # <<>> => n > 0
  BY <1>1, EmptySeq
<1> HIDE DEF f, D, n
<1>7. ASSUME MeanReaches(items, m, t), t > 0, \A i \in D : ~(f[i] >= t) PROVE FALSE
  <2>1. items # <<>>
    BY <1>5, <1>7
  <2> DEFINE u == t - 1
  <2>2. \A i \in D : 0 <= f[i] /\ f[i] <= u
    BY <1>2, <1>7
  <2>3. u \in Int
    OBVIOUS
  <2> HIDE DEF u
  <2> HIDE DEF Ranks
  <2>4. Total(f) \in Int /\ Total(f) <= u * n
    <3>1. IsFiniteSet(D) /\ Cardinality(D) = n /\ 0 \in Int
      BY <1>1
    <3>2. Total(f) \in Int /\ Total(f) <= u * Cardinality(D)
      BY <1>3, <2>2, <2>3, <3>1, TotalBounds
    <3> QED
      BY <3>1, <3>2
  <2>5. u * n = t * n - n /\ t * n \in Int
    BY <1>1 DEF u
  <2> QED
    BY <1>1, <1>4, <1>6, <1>7, <2>1, <2>4, <2>5
<1>8. ASSUME ~MeanReaches(items, m, t), items # <<>>, \A i \in D : ~(f[i] < t) PROVE FALSE
  <2>1. \A i \in D : t <= f[i] /\ f[i] <= Whole
    BY <1>2, <1>8
  <2>2. t \in Int /\ Whole \in Int
    BY WholeNat
  <2>3. Total(f) \in Int /\ t * n <= Total(f)
    BY <1>1, <1>3, <2>1, <2>2, TotalBounds
  <2>4. t * n \in Int
    BY <1>1
  <2> QED
    BY <1>4, <1>8, <2>3, <2>4
<1> QED
  BY <1>2, <1>7, <1>8 DEF D

-----------------------------------------------------------------------------
(* The gate *)

(* The scores of the answers given so far. *)
AllScores == [i \in DOMAIN samples |-> ItemScores(samples[i])]

(* The answers so far are to the first questions of the dataset; one with   *)
(* contexts had a corpus to take them from.                                *)
SamplesAreAnswers ==
    \A i \in DOMAIN samples :
        /\ samples[i].item = dataset[i]
        /\ samples[i].contexts # <<>> => \E f \in Files : corpus[f] = "embedded"

(* What a call may hold at each of its stages. *)
StagesInOrder ==
    /\ ingesting # {} => stage = "seeding"
    /\ stage = "seeding" => samples = <<>>
    /\ stage \in {"seeding", "answering", "scored"} => shown = <<>>
    /\ Running => exit = -1
    /\ ~Running => exit # -1
    /\ stage = "broken" => exit \in {1, 3}
    /\ stage \in {"seeding", "answering"} => run = NoRun
    /\ stage \in {"scored", "saved"} => run.status # "running"
    /\ stage = "saved" /\ saves => shown # <<>>

(* A run that was scored tells what the scores of all answers say. *)
RunIsScored ==
    /\ run.passed = "true" <=> run.status = "passed"
    /\ run.status \in {"passed", "failed"} =>
          /\ Len(samples) = Len(dataset)
          /\ run.status = "passed" <=> Passed(AllScores)
          /\ DOMAIN results = {samples[i].item : i \in DOMAIN samples}
          /\ \A id \in DOMAIN results : \E i \in DOMAIN samples :
                samples[i].item = id /\ results[id] = ItemScores(samples[i])

(* The exit code and what was committed follow the run. *)
ExitFollowsRun ==
    /\ exit = 0 => run.status = "passed" /\ (saves => shown # <<>>)
    /\ exit = 2 => run.status = "error"
    /\ run.status \in {"passed", "error"} /\ stage = "exited" => exit \in {0, 2}

(* What every step of the gate keeps. *)
EvaluationIInv ==
    EvaluationTypeOK /\ SamplesAreAnswers /\ StagesInOrder /\ RunIsScored /\ ExitFollowsRun

(* Each answer has its scores. *)
LEMMA AllScoresType ==
    ASSUME EvaluationTypeOK
    PROVE  /\ AllScores \in Seq([Metrics -> 0..Whole]) /\ DOMAIN AllScores = DOMAIN samples
           /\ Len(AllScores) = Len(samples)
           /\ \A i \in DOMAIN samples : AllScores[i] = ItemScores(samples[i])
<1> DEFINE n == Len(samples)
           Marks == [Metrics -> 0..Whole]
           all == AllScores
<1>1. n \in Nat /\ DOMAIN samples = 1..n /\ \A i \in 1..n : samples[i] \in Sample
  BY ListPlaces DEF EvaluationTypeOK
<1>2. all = [i \in 1..n |-> ItemScores(samples[i])]
  BY <1>1 DEF AllScores
<1>3. \A i \in 1..n : all[i] = ItemScores(samples[i]) /\ ItemScores(samples[i]) \in Marks
  BY <1>1, <1>2, ItemScoresRange
<1> HIDE DEF n, Marks, all
<1>4. all \in [1..n -> Marks]
  BY <1>2, <1>3
<1>5. all \in Seq(Marks) /\ DOMAIN all = 1..n /\ Len(all) = n
  BY <1>1, <1>4
<1> QED
  BY <1>1, <1>3, <1>5 DEF n, Marks, all

(* The gate was not called yet. *)
LEMMA GateInit_Inv == EvaluationInit => EvaluationIInv
<1> SUFFICES ASSUME EvaluationInit PROVE EvaluationIInv
  OBVIOUS
<1> USE DEF EvaluationInit
<1>1. samples \in Seq(Sample) /\ dataset \in Seq(Items) /\ Len(samples) = 0 /\ Len(dataset) = 0
      /\ DOMAIN samples = {}
  BY EmptySeq
<1>2. EvaluationTypeOK
  BY <1>1, EvaluationAssumption DEF EvaluationTypeOK, NoRun, NoResults, Run
<1>3. SamplesAreAnswers
  BY <1>1 DEF SamplesAreAnswers
<1>4. StagesInOrder /\ RunIsScored /\ ExitFollowsRun
  BY DEF StagesInOrder, RunIsScored, ExitFollowsRun, Running, NoRun
<1> QED
  BY <1>2, <1>3, <1>4 DEF EvaluationIInv

(* The next answer is to the next question, from what was ingested. *)
LEMMA AnswerOneKeeps ==
    ASSUME EvaluationIInv, NEW answered \in SUBSET Terms, NEW n \in 0..MaxContexts,
           NEW contexts \in [1..n -> Passages], AnswerOne(answered, contexts)
    PROVE  EvaluationIInv'
<1> DEFINE k == Len(samples)
           s == [item |-> dataset[k + 1], answer |-> answered, contexts |-> contexts]
<1> USE DEF EvaluationIInv
<1>1. samples \in Seq(Sample) /\ dataset \in Seq(Items) /\ k < Len(dataset)
      /\ samples' = Append(samples, s) /\ stage = "answering"
  BY DEF EvaluationTypeOK, AnswerOne
<1>2. /\ k \in Nat /\ DOMAIN samples = 1..k
      /\ Len(dataset) \in Nat /\ DOMAIN dataset = 1..Len(dataset)
  BY <1>1, ListPlaces
<1>3. dataset[k + 1] \in Items
  <2>1. k + 1 \in DOMAIN dataset
    BY <1>1, <1>2
  <2> QED
    BY <1>1, <2>1, ListPlaces
<1>4. contexts \in Seq(Passages)
  <2>1. n \in Nat
    BY EvaluationAssumption
  <2> QED
    BY <2>1
<1>5. s \in Sample
  BY <1>3, <1>4 DEF Sample
<1> HIDE DEF s
<1>6. /\ samples' \in Seq(Sample) /\ Len(samples') = k + 1
      /\ \A i \in 1..k : samples'[i] = samples[i]
      /\ samples'[k + 1] = s
  BY <1>1, <1>5, AppendProperties
<1>7. DOMAIN samples' = 1..k + 1
  BY <1>6, ListPlaces
<1>8. EvaluationTypeOK'
  BY <1>1, <1>2, <1>6 DEF EvaluationTypeOK, AnswerOne
<1>9. SamplesAreAnswers'
  <2> SUFFICES ASSUME NEW i \in 1..k + 1
               PROVE  /\ samples'[i].item = dataset[i]
                      /\ samples'[i].contexts # <<>> => \E f \in Files : corpus[f] = "embedded"
    BY <1>7 DEF SamplesAreAnswers, AnswerOne
  <2>1. CASE i \in 1..k
    BY <2>1, <1>2, <1>6 DEF SamplesAreAnswers
  <2>2. CASE i = k + 1
    BY <2>2, <1>6 DEF AnswerOne, s
  <2> QED
    BY <1>2, <2>1, <2>2
<1>10. StagesInOrder' /\ RunIsScored' /\ ExitFollowsRun'
  BY <1>1 DEF AnswerOne, StagesInOrder, RunIsScored, ExitFollowsRun, Running, NoRun
<1> QED
  BY <1>8, <1>9, <1>10

(* The verdict of a run is that of all its answers; an id that occurs      *)
(* twice has one row.                                                      *)
LEMMA ScoreRunKeeps ==
    ASSUME EvaluationIInv, ScoreRun
    PROVE  EvaluationIInv'
<1> DEFINE Places(id) == {i \in DOMAIN samples : samples[i].item = id}
           Last(id) == CHOOSE i \in Places(id) : \A j \in Places(id) : j <= i
           ids == {samples[i].item : i \in DOMAIN samples}
           D == DOMAIN samples
           n == Len(samples)
<1> USE DEF EvaluationIInv
<1>1. /\ results' = [id \in ids |-> AllScores[Last(id)]]
      /\ run' = IF Passed(AllScores) THEN [status |-> "passed", passed |-> "true"]
                                     ELSE [status |-> "failed", passed |-> "false"]
      /\ stage = "answering" /\ stage' = "scored" /\ n = Len(dataset)
      /\ UNCHANGED <<corpus, calls, saves, unseeded, ingesting, dataset, samples, shown, exit>>
  BY DEF ScoreRun, AllScores
<1>2. /\ n \in Nat /\ D = 1..n /\ IsFiniteSet(D) /\ \A i \in D : samples[i] \in Sample
      /\ samples \in Seq(Sample)
  BY ListPlaces DEF EvaluationTypeOK
<1>3. ASSUME NEW id \in ids
      PROVE  Last(id) \in D /\ samples[Last(id)].item = id
  <2> DEFINE P == Places(id)
  <2>1. P \in SUBSET Int /\ P \in SUBSET D /\ P # {}
    BY <1>2
  <2> HIDE DEF P
  <2>2. IsFiniteSet(P)
    BY <1>2, <2>1, FS_Subset
  <2>3. Max(P) \in P /\ \A j \in P : j <= Max(P)
    BY <2>1, <2>2, Extremes
  <2>4. Last(id) \in P
    BY <2>3 DEF P
  <2> QED
    BY <2>4 DEF P
<1>4. ASSUME NEW id \in ids
      PROVE  \E i \in D : samples[i].item = id /\ AllScores[Last(id)] = ItemScores(samples[i])
  BY <1>3, AllScoresType
<1>5. ASSUME NEW id \in ids PROVE AllScores[Last(id)] \in [Metrics -> 0..Whole]
  BY <1>2, <1>4, ItemScoresRange
<1>6. \A id \in ids : id \in {dataset[i] : i \in DOMAIN dataset}
  <2>1. DOMAIN dataset = 1..n
    BY <1>1, ListPlaces DEF EvaluationTypeOK
  <2> QED
    BY <1>2, <2>1 DEF SamplesAreAnswers
<1> HIDE DEF Last, Places, D, n
<1>7. /\ DOMAIN results' = ids
      /\ \A id \in ids : results'[id] = AllScores[Last(id)]
  BY <1>1
<1> HIDE DEF ids
<1>8. run' \in Run /\ shown = <<>>
  BY <1>1 DEF Run, StagesInOrder, Running
<1>9. EvaluationTypeOK'
  BY <1>1, <1>5, <1>6, <1>7, <1>8 DEF EvaluationTypeOK
<1>10. SamplesAreAnswers' /\ StagesInOrder' /\ ExitFollowsRun'
  BY <1>1, <1>8 DEF SamplesAreAnswers, StagesInOrder, ExitFollowsRun, Running
<1>11. AllScores' = AllScores
  BY <1>1 DEF AllScores
<1>12. RunIsScored'
  <2>1. /\ run'.passed = "true" <=> run'.status = "passed"
        /\ run'.status = "passed" <=> Passed(AllScores)
    BY <1>1
  <2>2. \A id \in DOMAIN results' : \E i \in DOMAIN samples :
           samples[i].item = id /\ results'[id] = ItemScores(samples[i])
    BY <1>4, <1>7 DEF D
  <2>3. Passed(AllScores)' = Passed(AllScores)
    BY <1>11 DEF Passed, MeanReaches
  <2>4. DOMAIN results' = {samples[i].item : i \in DOMAIN samples}
    BY <1>7 DEF ids
  <2>5. samples' = samples /\ dataset' = dataset /\ Len(samples) = Len(dataset)
    BY <1>1 DEF n
  <2> HIDE DEF EvaluationIInv
  <2> QED
    BY <2>1, <2>2, <2>3, <2>4, <2>5 DEF RunIsScored
<1> QED
  BY <1>9, <1>10, <1>12

(* A call begins without answers and without a run. *)
LEMMA StartGateKeeps ==
    ASSUME EvaluationIInv, NEW n \in 0..MaxItems, NEW d \in [1..n -> Items],
           NEW save \in BOOLEAN, StartGate(d, save)
    PROVE  EvaluationIInv'
<1> USE DEF EvaluationIInv, StartGate
<1>1. d \in Seq(Items) /\ Len(d) \in Nat
  <2>1. n \in Nat
    BY EvaluationAssumption
  <2>2. d \in Seq(Items)
    BY <2>1
  <2> QED
    BY <2>2, ListPlaces
<1>2. calls' \in 0..MaxCalls
  BY EvaluationAssumption DEF EvaluationTypeOK
<1>3. samples' \in Seq(Sample) /\ Len(samples') = 0 /\ DOMAIN samples' = {}
  BY EmptySeq
<1>4. EvaluationTypeOK'
  BY <1>1, <1>2, <1>3 DEF EvaluationTypeOK, NoRun, NoResults, Run
<1>5. SamplesAreAnswers'
  BY <1>3 DEF SamplesAreAnswers
<1>6. StagesInOrder' /\ RunIsScored' /\ ExitFollowsRun'
  BY DEF StagesInOrder, RunIsScored, ExitFollowsRun, Running, NoRun
<1> QED
  BY <1>4, <1>5, <1>6

(* Seeding and the start of a run leave run and answers alone. *)
LEMMA SeedingKeeps ==
    ASSUME EvaluationIInv,
           \/ \E f \in Files : SkipFile(f) \/ InsertFile(f)
           \/ \E f \in Files, status_ \in {"embedded", "failed"} : IngestFile(f, status_)
           \/ StartRun
    PROVE  EvaluationIInv'
<1> USE DEF EvaluationIInv, Asking
<1>1. /\ stage = "seeding" /\ stage' \in {"seeding", "answering"}
      /\ ingesting' # {} => stage' = "seeding"
      /\ UNCHANGED <<calls, saves, dataset, samples, run, results, shown, exit>>
  BY DEF SkipFile, InsertFile, IngestFile, StartRun, StagesInOrder
<1>2. samples = <<>> /\ DOMAIN samples = {} /\ run = NoRun /\ shown = <<>> /\ exit = -1
  BY <1>1, EmptySeq DEF StagesInOrder, Running
<1>3. EvaluationTypeOK'
  <2>1. CASE \E f \in Files : SkipFile(f) \/ InsertFile(f)
    BY <2>1, <1>1 DEF EvaluationTypeOK, SkipFile, InsertFile
  <2>2. CASE \E f \in Files, status_ \in {"embedded", "failed"} : IngestFile(f, status_)
    BY <2>2, <1>1 DEF EvaluationTypeOK, IngestFile
  <2>3. CASE StartRun
    BY <2>3, <1>1 DEF EvaluationTypeOK, StartRun
  <2> QED
    BY <2>1, <2>2, <2>3
<1>4. SamplesAreAnswers'
  BY <1>1, <1>2 DEF SamplesAreAnswers
<1>5. StagesInOrder'
  BY <1>1, <1>2 DEF StagesInOrder, Running
<1>6. RunIsScored' /\ ExitFollowsRun'
  BY <1>1, <1>2 DEF RunIsScored, ExitFollowsRun, NoRun
<1> QED
  BY <1>3, <1>4, <1>5, <1>6

(* An agent that raises makes the run an error, which did not pass. *)
LEMMA RunFailsKeeps ==
    ASSUME EvaluationIInv, RunFails
    PROVE  EvaluationIInv'
<1> USE DEF EvaluationIInv, RunFails
<1>1. run = NoRun /\ shown = <<>> /\ exit = -1
  BY DEF StagesInOrder, Running
<1>2. run' = [status |-> "error", passed |-> "null"]
  BY <1>1 DEF NoRun
<1>3. EvaluationTypeOK'
  BY <1>1, <1>2 DEF EvaluationTypeOK, Run
<1>4. SamplesAreAnswers' /\ StagesInOrder' /\ RunIsScored' /\ ExitFollowsRun'
  BY <1>1, <1>2 DEF SamplesAreAnswers, StagesInOrder, RunIsScored, ExitFollowsRun, Running
<1> QED
  BY <1>3, <1>4

(* What is committed is the run, and the process still runs. *)
LEMMA VerdictKeeps ==
    ASSUME EvaluationIInv, Verdict
    PROVE  EvaluationIInv'
<1> USE DEF EvaluationIInv, Verdict
<1>1. EvaluationTypeOK'
  BY DEF EvaluationTypeOK
<1>2. <<run, results>> # <<>> /\ exit = -1
  BY DEF StagesInOrder, Running
<1>3. SamplesAreAnswers' /\ StagesInOrder'
  BY <1>2 DEF SamplesAreAnswers, StagesInOrder, Running
<1>4. RunIsScored'
  BY DEF RunIsScored, AllScores
<1>5. ExitFollowsRun'
  BY <1>2 DEF ExitFollowsRun
<1> QED
  BY <1>1, <1>3, <1>4, <1>5

(* The exit code follows the run, which was committed if it is to be. *)
LEMMA ReportKeeps ==
    ASSUME EvaluationIInv, Report
    PROVE  EvaluationIInv'
<1> USE DEF EvaluationIInv, Report
<1>1. EvaluationTypeOK'
  BY DEF EvaluationTypeOK
<1>2. SamplesAreAnswers' /\ StagesInOrder'
  BY DEF SamplesAreAnswers, StagesInOrder, Running
<1>3. RunIsScored'
  BY DEF RunIsScored, AllScores
<1>4. ExitFollowsRun'
  BY DEF RunIsScored, StagesInOrder, ExitFollowsRun
<1> QED
  BY <1>1, <1>2, <1>3, <1>4

(* A call that breaks off leaves nothing but what was committed, and does  *)
(* not exit with a verdict.                                                *)
LEMMA BreaksKeeps ==
    ASSUME EvaluationIInv, NEW code \in {1, 3}, Breaks(code)
    PROVE  EvaluationIInv'
<1> USE DEF EvaluationIInv, Breaks
<1>1. CASE stage # "saved"
  <2>1. shown = <<>>
    BY <1>1 DEF StagesInOrder, Running, EvaluationTypeOK
  <2>2. samples' \in Seq(Sample) /\ Len(samples') = 0 /\ DOMAIN samples' = {}
    <3>1. samples' = <<>>
      BY <1>1
    <3> HIDE DEF EvaluationIInv, Breaks
    <3> QED
      BY <3>1, EmptySeq
  <2>3. EvaluationTypeOK'
    <3>1. Len(dataset) \in Nat
      BY ListPlaces DEF EvaluationTypeOK
    <3> QED
      BY <1>1, <2>1, <2>2, <3>1 DEF EvaluationTypeOK, NoRun, NoResults, Run
  <2>4. SamplesAreAnswers'
    BY <2>2 DEF SamplesAreAnswers
  <2>5. StagesInOrder' /\ RunIsScored' /\ ExitFollowsRun'
    BY <1>1, <2>1 DEF StagesInOrder, RunIsScored, ExitFollowsRun, Running, NoRun
  <2> QED
    BY <2>3, <2>4, <2>5
<1>2. CASE stage = "saved"
  <2>1. /\ stage' = "broken" /\ exit' \in {1, 3} /\ ingesting' = {}
        /\ UNCHANGED <<corpus, calls, saves, unseeded, dataset, samples, run, results, shown>>
    BY <1>2
  <2>2. EvaluationTypeOK'
    BY <2>1 DEF EvaluationTypeOK
  <2>3. SamplesAreAnswers' /\ StagesInOrder'
    BY <2>1 DEF SamplesAreAnswers, StagesInOrder, Running
  <2>4. RunIsScored'
    BY <2>1 DEF RunIsScored, AllScores
  <2>5. ExitFollowsRun'
    BY <2>1 DEF ExitFollowsRun
  <2> QED
    BY <2>2, <2>3, <2>4, <2>5
<1> QED
  BY <1>1, <1>2

(* Every step of the gate keeps EvaluationIInv. *)
LEMMA GateStep == EvaluationIInv /\ [EvaluationNext]_evaluationVars => EvaluationIInv'
<1> SUFFICES ASSUME EvaluationIInv, [EvaluationNext]_evaluationVars PROVE EvaluationIInv'
  OBVIOUS
<1>1. ASSUME NEW d \in UNION {[1..n -> Items] : n \in 0..MaxItems}, NEW save \in BOOLEAN,
             StartGate(d, save)
      PROVE  EvaluationIInv'
  BY <1>1, StartGateKeeps
<1>2. CASE \/ \E f \in Files : SkipFile(f) \/ InsertFile(f)
           \/ \E f \in Files, status_ \in {"embedded", "failed"} : IngestFile(f, status_)
           \/ StartRun
  BY <1>2, SeedingKeeps
<1>3. ASSUME NEW answered \in SUBSET Terms, NEW n \in 0..MaxContexts,
             NEW contexts \in [1..n -> Passages], AnswerOne(answered, contexts)
      PROVE  EvaluationIInv'
  BY <1>3, AnswerOneKeeps
<1>4. CASE ScoreRun \/ RunFails \/ Verdict \/ Report \/ Raises \/ Killed
  BY <1>4, ScoreRunKeeps, RunFailsKeeps, VerdictKeeps, ReportKeeps, BreaksKeeps
     DEF Raises, Killed
<1>5. CASE UNCHANGED evaluationVars
  <2> USE <1>5 DEF evaluationVars, EvaluationIInv
  <2>1. EvaluationTypeOK'
    BY DEF EvaluationTypeOK
  <2>2. SamplesAreAnswers' /\ StagesInOrder' /\ RunIsScored' /\ ExitFollowsRun'
    BY DEF SamplesAreAnswers, StagesInOrder, RunIsScored, ExitFollowsRun, Running, AllScores
  <2> QED
    BY <2>1, <2>2
<1> QED
  BY <1>1, <1>2, <1>3, <1>4, <1>5 DEF EvaluationNext

(* A mean reaches a threshold only by an item that does, and misses it     *)
(* only by one that does not exceed it: so the verdict is earned.          *)
LEMMA GateHonest == EvaluationIInv => GateIsHonest
<1> SUFFICES ASSUME EvaluationIInv, ~Running, calls > 0
             PROVE  PassIsEarned /\ FailIsEarned /\ ShownIsTrue
  BY DEF GateIsHonest
<1> USE DEF EvaluationIInv
<1>1. /\ AllScores \in Seq([Metrics -> 0..Whole]) /\ DOMAIN AllScores = DOMAIN samples
      /\ Len(AllScores) = Len(samples) /\ Len(samples) \in Nat /\ DOMAIN samples = 1..Len(samples)
      /\ \A i \in DOMAIN samples : AllScores[i] = ItemScores(samples[i]) /\ samples[i] \in Sample
  BY AllScoresType, ListPlaces DEF EvaluationTypeOK
<1>2. /\ \A m \in Metrics : Threshold[m] \in 0..Whole
      /\ Len(dataset) \in Nat /\ DOMAIN dataset = 1..Len(dataset)
  BY EvaluationAssumption, ListPlaces DEF EvaluationTypeOK
<1>3. ASSUME run.status = "passed", NEW m \in Metrics, Threshold[m] > 0
      PROVE  \E i \in DOMAIN samples : ItemScores(samples[i])[m] >= Threshold[m]
  <2>1. MeanReaches(AllScores, m, Threshold[m])
    BY <1>3 DEF RunIsScored, Passed
  <2>2. \E i \in DOMAIN AllScores : AllScores[i][m] >= Threshold[m]
    BY <1>1, <1>2, <1>3, <2>1, MeanByItem
  <2> QED
    BY <1>1, <2>2
<1>4. ASSUME run.status = "failed", dataset # <<>>
      PROVE  \E i \in DOMAIN samples : ~Exceeds(ItemScores(samples[i]))
  <2>1. PICK m \in Metrics : ~MeanReaches(AllScores, m, Threshold[m])
    BY <1>4 DEF RunIsScored, Passed
  <2>2. AllScores # <<>>
    <3>1. Len(dataset) # 0 /\ Len(samples) = Len(dataset)
      BY <1>4, EmptySeq DEF EvaluationTypeOK, RunIsScored
    <3> QED
      BY <1>1, <3>1, EmptySeq
  <2>3. PICK i \in DOMAIN samples : ItemScores(samples[i])[m] < Threshold[m]
    BY <1>1, <1>2, <2>1, <2>2, MeanByItem
  <2>4. ItemScores(samples[i])[m] \in Int /\ Threshold[m] \in Int
    <3>1. ItemScores(samples[i]) \in [Metrics -> 0..Whole] /\ 0..Whole \subseteq Int
      BY <1>1, ItemScoresRange, WholeNat
    <3> QED
      BY <1>2, <3>1
  <2> QED
    BY <2>3, <2>4 DEF Exceeds
<1>5. PassIsEarned
  <2> SUFFICES ASSUME exit = 0
               PROVE  /\ Len(samples) = Len(dataset)
                      /\ Threshold["faithfulness"] > 0 =>
                            /\ \E f \in Files : corpus[f] = "embedded"
                            /\ \E i \in DOMAIN samples : Supported(samples[i]) # {}
                      /\ \A m \in Metrics : Threshold[m] > 0 =>
                            \E i \in DOMAIN samples : ItemScores(samples[i])[m] >= Threshold[m]
    BY DEF PassIsEarned
  <2>1. run.status = "passed" /\ Len(samples) = Len(dataset)
    BY DEF ExitFollowsRun, RunIsScored
  <2>2. ASSUME Threshold["faithfulness"] > 0
        PROVE  \E i \in DOMAIN samples : Supported(samples[i]) # {} /\ samples[i].contexts # <<>>
    <3>1. "faithfulness" \in Metrics
      BY DEF Metrics
    <3>2. PICK i \in DOMAIN samples :
             ItemScores(samples[i])["faithfulness"] >= Threshold["faithfulness"]
      BY <1>3, <2>1, <2>2, <3>1
    <3>3. ItemScores(samples[i])["faithfulness"] \in Int /\ Threshold["faithfulness"] \in Int
      <4>1. ItemScores(samples[i]) \in [Metrics -> 0..Whole] /\ 0..Whole \subseteq Int
        BY <1>1, ItemScoresRange, WholeNat
      <4> QED
        BY <1>2, <3>1, <4>1
    <3>4. ItemScores(samples[i])["faithfulness"] > 0
      BY <2>2, <3>2, <3>3
    <3> QED
      BY <1>1, <3>4, ItemScoresRange
  <2> QED
    BY <1>3, <2>1, <2>2 DEF SamplesAreAnswers
<1>6. FailIsEarned
  BY <1>4 DEF FailIsEarned
<1>7. ASSUME ~RepeatsAnId, run.status \in {"passed", "failed"}, NEW i \in DOMAIN samples
      PROVE  samples[i].item \in DOMAIN results /\ results[samples[i].item] = ItemScores(samples[i])
  <2>1. samples[i].item \in DOMAIN results
    BY <1>7 DEF RunIsScored
  <2>2. PICK j \in DOMAIN samples : /\ samples[j].item = samples[i].item
                                    /\ results[samples[i].item] = ItemScores(samples[j])
    BY <1>7, <2>1 DEF RunIsScored
  <2>3. dataset[i] = dataset[j] /\ i \in DOMAIN dataset /\ j \in DOMAIN dataset
    BY <1>1, <1>2, <1>7, <2>2 DEF RunIsScored, SamplesAreAnswers
  <2>4. i = j
    <3>1. ~(i < j) /\ ~(j < i)
      BY <1>7, <2>3 DEF RepeatsAnId
    <3> QED
      BY <1>1, <3>1
  <2> QED
    BY <2>1, <2>2, <2>4
<1>8. ShownIsTrue
  <2>1. exit = 0 /\ saves => shown # <<>>
    BY DEF ExitFollowsRun
  <2>2. ASSUME shown # <<>>
        PROVE  shown[1] = run /\ shown[2] = results
    BY <2>2 DEF EvaluationTypeOK
  <2>3. ASSUME shown # <<>>
        PROVE  /\ RunDetail.status = run.status /\ RunDetail.scores = results
               /\ \A id \in DOMAIN results : RunDetail.passed[id] = Reaches(results[id])
    BY <2>2, <2>3 DEF RunDetail
  <2>4. ASSUME shown # <<>>
        PROVE  /\ exit = 0 => RunDetail.status = "passed"
               /\ exit = 2 => RunDetail.status = "error"
               /\ RunDetail.status \in {"passed", "error"} /\ stage = "exited" => exit \in {0, 2}
    BY <2>3, <2>4 DEF ExitFollowsRun
  <2>5. ASSUME shown # <<>>, RunDetail.status = "passed", NEW m \in Metrics, Threshold[m] > 0,
               ~RepeatsAnId
        PROVE  \E id \in DOMAIN RunDetail.scores : RunDetail.scores[id][m] >= Threshold[m]
    <3>1. run.status = "passed"
      BY <2>3, <2>5
    <3>2. PICK i \in DOMAIN samples : ItemScores(samples[i])[m] >= Threshold[m]
      BY <1>3, <2>5, <3>1
    <3> QED
      BY <1>7, <2>3, <2>5, <3>1, <3>2
  <2>6. ASSUME shown # <<>>, RunDetail.status = "failed", dataset # <<>>, ~RepeatsAnId
        PROVE  \E id \in DOMAIN RunDetail.scores : ~Exceeds(RunDetail.scores[id])
    <3>1. run.status = "failed"
      BY <2>3, <2>6
    <3>2. PICK i \in DOMAIN samples : ~Exceeds(ItemScores(samples[i]))
      BY <1>4, <2>6, <3>1
    <3> QED
      BY <1>7, <2>3, <2>6, <3>1, <3>2
  <2> QED
    BY <2>1, <2>4, <2>5, <2>6 DEF ShownIsTrue
<1> QED
  BY <1>5, <1>6, <1>8

-----------------------------------------------------------------------------
(* The whole *)

(* The inductive invariant: the three parts share no variable. *)
IInv == WorkflowIInv /\ LimiterIInv /\ EvaluationIInv

(* It holds initially. *)
LEMMA InitIInv == Init => IInv
  BY WorkflowInit_Inv, LimiterInit_Inv, GateInit_Inv DEF Init, IInv

(* Every step is one of one part and leaves the others alone. *)
LEMMA StepIInv == IInv /\ [Next]_vars => IInv'
<1> SUFFICES ASSUME IInv, [Next]_vars PROVE IInv'
  OBVIOUS
<1>1. [WorkflowNext]_workflowVars /\ [LimiterNext]_limiterVars /\ [EvaluationNext]_evaluationVars
  BY DEF Next, vars
<1> QED
  BY <1>1, WorkflowStep, LimiterStep, GateStep DEF IInv

(* The invariant all theorems below follow from (the agents, the limiter   *)
(* and the gate).                                                          *)
THEOREM Invariance == Spec => []IInv
  BY InitIInv, StepIInv, PTL DEF Spec

(* All variables keep their types; merged has every chunk once             *)
(* (_retriever).                                                           *)
THEOREM TypesAreKept == Spec => []TypeOK
<1>1. IInv => TypeOK
  BY DEF IInv, WorkflowIInv, LimiterIInv, EvaluationIInv, TypeOK
<1> QED
  BY <1>1, Invariance, PTL

(* The sources of an answer are the best that all its searches offered,    *)
(* each with the best score it got: neither the cut of each subquery's     *)
(* results nor the merge loses one (hybrid_search, _retriever).            *)
THEOREM SourcesAreBest == Spec => []ChunksAreBest
<1>1. IInv => ChunksAreBest
  BY DEF IInv, WorkflowIInv
<1> QED
  BY <1>1, Invariance, PTL

(* No client gets more than Limit requests through in any time of a        *)
(* window's length, however many clients there are and wherever the time   *)
(* begins (RateLimitMiddleware.dispatch).                                  *)
THEOREM LimitHolds == Spec => []NeverMoreThanLimit
<1>1. IInv => NeverMoreThanLimit
  BY DEF IInv, LimiterIInv
<1> QED
  BY <1>1, Invariance, PTL

(* A deploy passes, fails and is shown for what the answers deserve, for   *)
(* any dataset, thresholds, failures and breaks (run_eval, _run).          *)
THEOREM VerdictIsHonest == Spec => []GateIsHonest
<1>1. IInv => GateIsHonest
  BY GateHonest DEF IInv
<1> QED
  BY <1>1, Invariance, PTL

(* What the agents do implements AnswerContract: the terms a question      *)
(* began with, one outcome, no answer without sources behind the gate, and *)
(* citations from what was found in scope (build_workflow).                *)
THEOREM AgentsKeepContract == Spec => ImplementsAnswerContract
<1>1. Init => Contract!Init
  BY InitRefines DEF Init
<1>2. IInv /\ [Next]_vars =>
        [Contract!Next]_<<config.review, scope, policy, terms, sent, ChunksOf(chunks),
                          {c.chunk : c \in citations}, Phase>>
  <2>1. [Next]_vars => [WorkflowNext]_workflowVars
    BY DEF Next, vars
  <2> QED
    BY <2>1, StepRefines DEF IInv, contractVars
<1> QED
  BY <1>1, <1>2, Invariance, PTL DEF Spec, ImplementsAnswerContract, Contract!Spec, Contract!vars
=============================================================================
