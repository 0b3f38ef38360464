------------------------------- MODULE Api_proofs -------------------------------
(***************************************************************************)
(* The HTTP routes keep their types, the limiter its promise to accounts   *)
(* whose requests do not overlap, the cached lists the status of settled   *)
(* accounts, and the answers tell what has become of a request.  First the *)
(* routes and the filter of a list, then one invariant after the other,    *)
(* each with those before it.                                              *)
(***************************************************************************)
EXTENDS Api, Services_proofs

-------------------------------------------------------------------------------
(* The invariants *)

\* The tables: rows as the services leave them, and the order of the goals.
RowsSound ==
    /\ accounts \in [Accounts -> AccountRow] /\ \A a \in Accounts : accounts[a].balance >= 0
    /\ loans \in [Loans -> LoanRow] /\ \A l \in Loans : SoundLoan(loans[l])
    /\ goals \in [Goals -> GoalRow] /\ \A g \in Goals : SoundGoal(goals[g])
OrderSound ==
    /\ order \in Seq(Goals) /\ IsInjective(order)
    /\ Range(order) = {g \in Goals : goals[g].exists}

\* A thread's stage goes with its route: what it has written, what it may create.
OpOf(t) == RouteOf(t).op
Before == {"check", "clean up", "count", "record", "serve"}
Reads == {"lookup", "query", "fill", "ping", "page", "report"}
Listing == {"lookup", "query", "fill"}
Staged(t) ==
    /\ DOMAIN local[t] = DOMAIN NoLocal
    /\ pc[t] = "idle" => local[t] = NoLocal
    /\ pc[t] \in Before => OpOf(t) # "none" /\ ~local[t].wrote
    /\ pc[t] \in Before \ {"check"} /\ OpOf(t) = "register" => request[t].value # -1
    /\ pc[t] \in Reads => OpOf(t) = "none"
    /\ pc[t] \in Listing => request[t].route \in {"list", "search"}
    /\ pc[t] = "newest" => OpOf(t) = "createGoal" /\ local[t].wrote
    /\ pc[t] = "goal" => OpOf(t) = "contribute" /\ local[t].wrote
    /\ pc[t] = "invalidate" => RouteOf(t).after = "invalidate" /\ local[t].wrote
ThreadsSound ==
    /\ pc \in [Threads -> Stages] /\ request \in [Threads -> Requests]
    /\ DOMAIN local = Threads /\ DOMAIN reply = Threads
    /\ \A t \in Threads : Staged(t)

\* What a request is about to create is free, and nobody else is about to create it.
Creates(t, op) == pc[t] \in Before /\ OpOf(t) = op
IdsFree ==
    /\ \A t \in Threads : Creates(t, "createGoal") => goals[request[t].goal].owner = 0
    /\ \A t \in Threads : Creates(t, "apply") => loans[request[t].loan].owner = 0
    /\ \A t, u \in Threads : t # u /\ Creates(t, "createGoal") /\ Creates(u, "createGoal") =>
           request[t].goal # request[u].goal
    /\ \A t, u \in Threads : t # u /\ Creates(t, "apply") /\ Creates(u, "apply") =>
           request[t].loan # request[u].loan

\* Requests that run at once have crowded what they are both about.
Pending(t) == pc[t] # "idle"
MeetingsSeen ==
    \A t, u \in Threads : t # u /\ Pending(t) /\ Pending(u) =>
        Meeting(request[t], request[u]) \subseteq crowded

\* The limiter: of an account that is not crowded, the list and the history agree on every
\* window from now on; a thread that has looked holds what it will find.
TimesKnown ==
    /\ clock \in Nat /\ operations \in [Accounts -> Seq(0 .. clock)]
    /\ admitted \in [Accounts -> Seq(0 .. clock)]
    /\ \A t \in Threads : pc[t] = "count" => local[t].kept \in Seq(0 .. clock)
SameWindows(a) == \A c \in Nat : c >= clock =>
    Kept(operations[a], InWindow(c)) = Kept(admitted[a], InWindow(c))
Looked(t) == \E c \in 0 .. clock : local[t].kept = Kept(operations[request[t].acc], InWindow(c))
LimiterSound ==
    /\ \A a \in Accounts \ crowded : SameWindows(a)
    /\ \A t \in Threads : request[t].acc \notin crowded =>
           /\ pc[t] = "count" => Looked(t)
           /\ pc[t] = "record" => Len(operations[request[t].acc]) < MaxOps
    /\ LimiterHolds

\* The cached lists, and those about to be cached.
Told(page, table, a) ==
    /\ a \in DOMAIN page <=> a \in Listed(table)
    /\ a \in Listed(table) => page[a] = Status(table[a])
CacheSound ==
    /\ settled \subseteq Accounts
    /\ client \in {"new", "up", "off"} /\ redis \in BOOLEAN /\ outages \in Nat
    /\ ~redis => outages > 0
    /\ client # "up" => DOMAIN cache = {}
    /\ \A k \in DOMAIN cache : k \in {"list", "search"} /\ cache[k].expires \in Nat
PagesTold ==
    /\ \A k \in DOMAIN cache : \A a \in settled : ~Changing(a) => Told(cache[k].page, accounts, a)
    /\ \A t \in Threads : pc[t] = "fill" => \A a \in settled : Told(local[t].page, accounts, a)
ListsSound == CacheSound /\ PagesTold

\* What follows a commit finds what the commit left, and an answer says what was written.
OwnLast(a, g) == OwnGoals(a) # <<>> /\ Last(OwnGoals(a)) = g
Finds(t) ==
    request[t].acc \notin crowded =>
        /\ pc[t] = "newest" => OwnLast(request[t].acc, request[t].goal)
        /\ pc[t] = "goal" => goals[request[t].goal].exists
Outcome(t) ==
    reply[t].code # 0 /\ OpOf(t) # "none" =>
        /\ reply[t].code = 200 => reply[t].wrote
        /\ reply[t].code # 200 /\ reply[t].wrote =>
               \/ request[t].acc \in crowded
               \/ outages > 0 /\ RouteOf(t).after = "invalidate"
Shown(t) ==
    OpOf(t) = "createGoal" /\ reply[t].code = 200 /\ request[t].acc \notin crowded =>
        reply[t].shown = request[t].goal
AnswersSound == \A t \in Threads : Finds(t) /\ Outcome(t) /\ Shown(t)

-------------------------------------------------------------------------------
(* The filter of a list *)

\* What holds of the empty sequence, and of a sequence with one more element when it holds
\* of the sequence, holds of all: a least counterexample is neither.
LEMMA AllSequences ==
  ASSUME NEW T, NEW G, <<>> \in G, \A s \in Seq(T), x \in T : s \in G => Append(s, x) \in G
  PROVE  \A s \in Seq(T) : s \in G
<1> DEFINE B == {n \in Nat : \E s \in Seq(T) : Len(s) = n /\ s \notin G}
<1>1. SUFFICES ASSUME B # {} PROVE FALSE
  <2>1. ASSUME B = {}, NEW s \in Seq(T) PROVE s \in G
    <3>1. Len(s) \in Nat
      OBVIOUS
    <3>2. QED
      BY <2>1, <3>1
  <2>2. QED
    BY <2>1
<1>2. PICK n \in B : \A m \in B : n <= m
  <2> HIDE DEF B
  <2>1. B \subseteq Nat
    BY DEF B
  <2>2. QED
    BY <1>1, <2>1, LeastNat
<1>3. PICK s \in Seq(T) : Len(s) = n /\ s \notin G
  OBVIOUS
<1>4. n # 0
  <2>1. ASSUME n = 0 PROVE FALSE
    <3>1. s = <<>>
      BY <1>3, <2>1
    <3>2. QED
      BY <1>3, <3>1
  <2>2. QED
    BY <2>1
<1> DEFINE r == SubSeq(s, 1, n - 1)
           x == s[n]
<1>5. r \in Seq(T) /\ x \in T /\ Len(r) = n - 1 /\ n - 1 \in Nat /\ s = Append(r, x)
  BY <1>3, <1>4
<1>6. n - 1 \notin B
  <2> HIDE DEF B
  <2>1. n \in Nat
    BY <1>3
  <2>2. QED
    BY <1>2, <2>1
<1>7. r \in G
  <2> HIDE DEF r, x
  <2>1. QED
    BY <1>5, <1>6
<1>8. QED
  <2> HIDE DEF r, x
  <2>1. QED
    BY <1>3, <1>5, <1>7

IsKept(k, s, S, m) ==
    k = [n \in 0 .. m |-> IF n = 0 THEN <<>>
                          ELSE IF s[n] \in S THEN Append(k[n - 1], s[n]) ELSE k[n - 1]]

LEMMA KeptIsSome ==
  ASSUME NEW s, NEW S, NEW k, IsKept(k, s, S, Len(s))
  PROVE  \E f : IsKept(f, s, S, Len(s)) /\ Kept(s, S) = f[Len(s)]
BY Zenon DEF IsKept, Kept

LEMMA KeptStep ==
  ASSUME NEW s, NEW S, NEW m, NEW k, IsKept(k, s, S, m), NEW n \in 0 .. m
  PROVE  k[n] = IF n = 0 THEN <<>>
                ELSE IF s[n] \in S THEN Append(k[n - 1], s[n]) ELSE k[n - 1]
<1> DEFINE F == [i \in 0 .. m |-> IF i = 0 THEN <<>>
                    ELSE IF s[i] \in S THEN Append(k[i - 1], s[i]) ELSE k[i - 1]]
<1>1. k = F
  BY Zenon DEF IsKept
<1>2. F[n] = IF n = 0 THEN <<>> ELSE IF s[n] \in S THEN Append(k[n - 1], s[n]) ELSE k[n - 1]
  OBVIOUS
<1> HIDE DEF F
<1>3. QED
  BY <1>1, <1>2

LEMMA KeptExists ==
  ASSUME NEW s, NEW S
  PROVE  \A m \in Nat : \E k : IsKept(k, s, S, m)
<1> DEFINE B == {m \in Nat : ~ \E k : IsKept(k, s, S, m)}
<1>1. SUFFICES ASSUME B # {} PROVE FALSE
  OBVIOUS
<1>2. PICK m \in B : \A i \in B : m <= i
  BY <1>1, LeastNat
<1>3. m \in Nat /\ ~ \E k : IsKept(k, s, S, m)
  OBVIOUS
<1>4. CASE m = 0
  <2> DEFINE k == [n \in 0 .. 0 |-> <<>>]
  <2>1. k = [n \in 0 .. 0 |-> IF n = 0 THEN <<>>
                ELSE IF s[n] \in S THEN Append(k[n - 1], s[n]) ELSE k[n - 1]]
    OBVIOUS
  <2>2. QED
    BY <1>3, <1>4, <2>1 DEF IsKept
<1>5. CASE m # 0
  <2>1. m - 1 \in Nat /\ m - 1 \notin B
    <3> HIDE DEF B
    <3>1. QED
      BY <1>2, <1>3, <1>5
  <2>2. PICK g : IsKept(g, s, S, m - 1)
    BY <2>1
  <2> DEFINE k == [n \in 0 .. m |-> IF n = 0 THEN <<>>
                      ELSE IF s[n] \in S THEN Append(g[n - 1], s[n]) ELSE g[n - 1]]
  <2>3. ASSUME NEW n \in 0 .. m
        PROVE  k[n] = IF n = 0 THEN <<>>
                      ELSE IF s[n] \in S THEN Append(k[n - 1], s[n]) ELSE k[n - 1]
    <3>1. CASE n = 0
      BY <3>1
    <3>2. CASE n # 0
      <4>1. n - 1 \in 0 .. (m - 1) /\ n - 1 \in 0 .. m
        BY <1>3, <3>2
      <4>2. g[n - 1] = IF n - 1 = 0 THEN <<>>
                       ELSE IF s[n - 1] \in S THEN Append(g[(n - 1) - 1], s[n - 1])
                       ELSE g[(n - 1) - 1]
        BY <2>2, <4>1, KeptStep
      <4>3. k[n - 1] = g[n - 1]
        BY <4>1, <4>2
      <4>4. QED
        BY <3>2, <4>3
    <3>3. QED
      BY <3>1, <3>2
  <2>4. k = [n \in 0 .. m |-> IF n = 0 THEN <<>>
                ELSE IF s[n] \in S THEN Append(k[n - 1], s[n]) ELSE k[n - 1]]
    BY <2>3
  <2>5. QED
    BY <1>3, <2>4 DEF IsKept
<1>6. QED
  BY <1>4, <1>5

\* Sequences that agree up to m have the same elements kept up to m.
LEMMA KeptUnique ==
  ASSUME NEW s, NEW r, NEW S, NEW l \in Nat, NEW m \in Nat, m <= l,
         \A i \in 1 .. m : s[i] = r[i],
         NEW k, IsKept(k, s, S, m), NEW f, IsKept(f, r, S, l)
  PROVE  k[m] = f[m]
<1> DEFINE B == {n \in Nat : n <= m /\ k[n] # f[n]}
<1>1. SUFFICES ASSUME B # {} PROVE FALSE
  OBVIOUS
<1>2. PICK n \in B : \A j \in B : n <= j
  BY <1>1, LeastNat
<1>3. n \in 0 .. m /\ n \in 0 .. l /\ n \in Nat /\ k[n] # f[n]
  OBVIOUS
<1>4. /\ k[n] = IF n = 0 THEN <<>> ELSE IF s[n] \in S THEN Append(k[n - 1], s[n]) ELSE k[n - 1]
      /\ f[n] = IF n = 0 THEN <<>> ELSE IF r[n] \in S THEN Append(f[n - 1], r[n]) ELSE f[n - 1]
  BY <1>3, KeptStep
<1>5. n # 0
  BY <1>3, <1>4
<1>6. n - 1 \in Nat /\ n - 1 <= m /\ s[n] = r[n]
  BY <1>3, <1>5
<1>7. n - 1 \notin B
  <2> HIDE DEF B
  <2>1. QED
    BY <1>2, <1>3, <1>5
<1>8. k[n - 1] = f[n - 1]
  BY <1>6, <1>7
<1>9. QED
  BY <1>3, <1>4, <1>5, <1>6, <1>8

\* The recurrence of Kept on sequences.
LEMMA KeptOfNone == ASSUME NEW S PROVE Kept(<<>>, S) = <<>>
<1>1. PICK g : IsKept(g, <<>>, S, 0)
  BY KeptExists
<1>2. Len(<<>>) = 0
  OBVIOUS
<1>3. PICK f : IsKept(f, <<>>, S, Len(<<>>)) /\ Kept(<<>>, S) = f[Len(<<>>)]
  BY <1>1, <1>2, KeptIsSome
<1>4. f[0] = <<>>
  BY <1>2, <1>3, KeptStep
<1>5. QED
  BY <1>2, <1>3, <1>4

LEMMA KeptOfMore ==
  ASSUME NEW T, NEW s \in Seq(T), NEW x \in T, NEW S
  PROVE  Kept(Append(s, x), S) = IF x \in S THEN Append(Kept(s, S), x) ELSE Kept(s, S)
<1> DEFINE r == Append(s, x)
           m == Len(s)
           l == Len(r)
<1>1. /\ m \in Nat /\ l = m + 1 /\ r[l] = x /\ l \in Nat /\ l # 0 /\ l - 1 = m /\ m <= l
      /\ \A i \in 1 .. m : s[i] = r[i]
  OBVIOUS
<1>2. PICK k : IsKept(k, s, S, m) /\ Kept(s, S) = k[m]
  <2>1. \E g : IsKept(g, s, S, m)
    BY <1>1, KeptExists
  <2>2. QED
    BY <2>1, KeptIsSome
<1>3. PICK f : IsKept(f, r, S, l) /\ Kept(r, S) = f[l]
  <2>1. \E g : IsKept(g, r, S, l)
    BY <1>1, KeptExists
  <2>2. QED
    BY <2>1, KeptIsSome
<1> HIDE DEF r, m, l
<1>4. k[m] = f[m]
  BY <1>1, <1>2, <1>3, KeptUnique
<1>5. f[l] = IF l = 0 THEN <<>> ELSE IF r[l] \in S THEN Append(f[l - 1], r[l]) ELSE f[l - 1]
  <2>1. l \in 0 .. l
    BY <1>1
  <2>2. QED
    BY <1>3, <2>1, KeptStep
<1>6. Kept(r, S) = IF x \in S THEN Append(f[m], x) ELSE f[m]
  BY <1>1, <1>3, <1>5
<1>7. QED
  BY <1>2, <1>4, <1>6 DEF r

\* What is kept comes from the list and the set, is no longer than the list, and has each
\* position of the list whose element is in the set.
LEMMA KeptTyped ==
  ASSUME NEW T, NEW S
  PROVE  \A s \in Seq(T) : Kept(s, S) \in Seq(T) /\ Len(Kept(s, S)) <= Len(s)
<1> DEFINE G == {s \in Seq(T) : Kept(s, S) \in Seq(T) /\ Len(Kept(s, S)) <= Len(s)}
<1>1. <<>> \in G
  <2>1. <<>> \in Seq(T) /\ Len(<<>>) <= Len(<<>>)
    OBVIOUS
  <2>2. QED
    BY <2>1, KeptOfNone, Zenon
<1>2. ASSUME NEW s \in Seq(T), NEW x \in T, s \in G PROVE Append(s, x) \in G
  <2>1. Kept(Append(s, x), S) = IF x \in S THEN Append(Kept(s, S), x) ELSE Kept(s, S)
    BY KeptOfMore
  <2>2. Kept(s, S) \in Seq(T) /\ Len(Kept(s, S)) <= Len(s)
    BY <1>2
  <2>3. Append(s, x) \in Seq(T) /\ Len(Append(s, x)) = Len(s) + 1 /\ Len(s) \in Nat
    OBVIOUS
  <2>4. QED
    BY <2>1, <2>2, <2>3
<1>3. \A s \in Seq(T) : s \in G
  <2> HIDE DEF G
  <2>1. QED
    BY <1>1, <1>2, AllSequences
<1>4. QED
  BY <1>3

LEMMA RangeOfMore ==
  ASSUME NEW T, NEW s \in Seq(T), NEW x \in T
  PROVE  Range(Append(s, x)) = Range(s) \cup {x}
<1>1. /\ DOMAIN Append(s, x) = 1 .. Len(s) + 1 /\ DOMAIN s = 1 .. Len(s) /\ Len(s) \in Nat
      /\ \A i \in 1 .. Len(s) : Append(s, x)[i] = s[i]
      /\ Append(s, x)[Len(s) + 1] = x
  OBVIOUS
<1>2. ASSUME NEW y PROVE y \in Range(Append(s, x)) <=> y \in Range(s) \cup {x}
  <2>1. ASSUME NEW i \in 1 .. Len(s) + 1, Append(s, x)[i] = y PROVE y \in Range(s) \cup {x}
    <3>1. i \in 1 .. Len(s) \/ i = Len(s) + 1
      BY <1>1
    <3>2. QED
      BY <1>1, <2>1, <3>1 DEF Range
  <2>2. ASSUME NEW i \in 1 .. Len(s), s[i] = y PROVE y \in Range(Append(s, x))
    <3>1. i \in 1 .. Len(s) + 1
      BY <1>1
    <3>2. QED
      BY <1>1, <2>2, <3>1 DEF Range
  <2>3. x \in Range(Append(s, x))
    <3>1. Len(s) + 1 \in 1 .. Len(s) + 1
      BY <1>1
    <3>2. QED
      BY <1>1, <3>1 DEF Range
  <2>4. QED
    BY <1>1, <2>1, <2>2, <2>3 DEF Range
<1>3. QED
  BY <1>2

LEMMA KeptRange ==
  ASSUME NEW T, NEW S
  PROVE  \A s \in Seq(T) : Range(Kept(s, S)) = Range(s) \cap S
<1> DEFINE G == {s \in Seq(T) : Range(Kept(s, S)) = Range(s) \cap S}
<1>1. <<>> \in G
  BY KeptOfNone DEF Range
<1>2. ASSUME NEW s \in Seq(T), NEW x \in T, s \in G PROVE Append(s, x) \in G
  <2>1. Kept(Append(s, x), S) = IF x \in S THEN Append(Kept(s, S), x) ELSE Kept(s, S)
    BY KeptOfMore
  <2>2. Range(Append(s, x)) = Range(s) \cup {x}
    BY RangeOfMore
  <2>3. Kept(s, S) \in Seq(T)
    BY KeptTyped
  <2>4. Range(Append(Kept(s, S), x)) = Range(Kept(s, S)) \cup {x}
    BY <2>3, RangeOfMore
  <2>5. Range(Kept(s, S)) = Range(s) \cap S
    BY <1>2
  <2>6. Append(s, x) \in Seq(T)
    OBVIOUS
  <2>7. Range(Kept(Append(s, x), S)) = Range(Append(s, x)) \cap S
    <3>1. CASE x \in S
      BY <2>1, <2>2, <2>4, <2>5, <3>1, Zenon
    <3>2. CASE x \notin S
      BY <2>1, <2>2, <2>5, <3>2
    <3>3. QED
      BY <3>1, <3>2
  <2>8. QED
    BY <2>6, <2>7
<1>3. \A s \in Seq(T) : s \in G
  <2> HIDE DEF G
  <2>1. QED
    BY <1>1, <1>2, AllSequences
<1>4. QED
  BY <1>3

\* Filtering twice is filtering by the intersection.
LEMMA KeptTwice ==
  ASSUME NEW T, NEW S, NEW R
  PROVE  \A s \in Seq(T) : Kept(Kept(s, S), R) = Kept(s, S \cap R)
<1> DEFINE G == {s \in Seq(T) : Kept(Kept(s, S), R) = Kept(s, S \cap R)}
<1>1. <<>> \in G
  BY KeptOfNone
<1>2. ASSUME NEW s \in Seq(T), NEW x \in T, s \in G PROVE Append(s, x) \in G
  <2>1. /\ Kept(Append(s, x), S) = IF x \in S THEN Append(Kept(s, S), x) ELSE Kept(s, S)
        /\ Kept(Append(s, x), S \cap R)
             = IF x \in S \cap R THEN Append(Kept(s, S \cap R), x) ELSE Kept(s, S \cap R)
    BY KeptOfMore
  <2>2. Kept(s, S) \in Seq(T)
    BY KeptTyped
  <2>3. Kept(Append(Kept(s, S), x), R)
            = IF x \in R THEN Append(Kept(Kept(s, S), R), x) ELSE Kept(Kept(s, S), R)
    BY <2>2, KeptOfMore
  <2>4. Kept(Kept(s, S), R) = Kept(s, S \cap R)
    BY <1>2
  <2>5. Append(s, x) \in Seq(T)
    OBVIOUS
  <2>6. Kept(Kept(Append(s, x), S), R) = Kept(Append(s, x), S \cap R)
    <3>1. CASE x \in S
      <4>1. x \in S \cap R <=> x \in R
        BY <3>1
      <4> HIDE DEF G
      <4>2. QED
        BY <2>1, <2>3, <2>4, <3>1, <4>1, Zenon
    <3>2. CASE x \notin S
      <4>1. x \notin S \cap R
        BY <3>2
      <4>2. QED
        BY <2>1, <2>4, <3>2, <4>1, Zenon
    <3>3. QED
      BY <3>1, <3>2
  <2>7. QED
    BY <2>5, <2>6
<1>3. \A s \in Seq(T) : s \in G
  <2> HIDE DEF G
  <2>1. QED
    BY <1>1, <1>2, AllSequences
<1>4. QED
  BY <1>3

\* Sets that agree on the elements of a list keep the same of it.
LEMMA KeptSame ==
  ASSUME NEW T, NEW S, NEW R
  PROVE  \A s \in Seq(T) : (\A x \in Range(s) : x \in S <=> x \in R) => Kept(s, S) = Kept(s, R)
<1> DEFINE G == {s \in Seq(T) : (\A x \in Range(s) : x \in S <=> x \in R) => Kept(s, S) = Kept(s, R)}
<1>1. <<>> \in G
  BY KeptOfNone
<1>2. ASSUME NEW s \in Seq(T), NEW x \in T, s \in G PROVE Append(s, x) \in G
  <2>1. /\ Kept(Append(s, x), S) = IF x \in S THEN Append(Kept(s, S), x) ELSE Kept(s, S)
        /\ Kept(Append(s, x), R) = IF x \in R THEN Append(Kept(s, R), x) ELSE Kept(s, R)
    BY KeptOfMore
  <2>2. Range(Append(s, x)) = Range(s) \cup {x}
    BY RangeOfMore
  <2>3. Append(s, x) \in Seq(T)
    OBVIOUS
  <2>4. ASSUME \A y \in Range(Append(s, x)) : y \in S <=> y \in R
        PROVE  Kept(Append(s, x), S) = Kept(Append(s, x), R)
    <3>1. \A y \in Range(s) : y \in S <=> y \in R
      BY <2>2, <2>4
    <3>2. Kept(s, S) = Kept(s, R)
      BY <1>2, <3>1
    <3>3. x \in S <=> x \in R
      BY <2>2, <2>4
    <3> HIDE DEF G
    <3>4. QED
      BY <2>1, <3>2, <3>3, Zenon
  <2>5. QED
    BY <2>3, <2>4
<1>3. \A s \in Seq(T) : s \in G
  <2> HIDE DEF G
  <2>1. QED
    BY <1>1, <1>2, AllSequences
<1>4. QED
  BY <1>3

\* The positions of a list whose element is in a set.
Places(s, S) == {i \in DOMAIN s : s[i] \in S}

LEMMA KeptCounts ==
  ASSUME NEW T, NEW S
  PROVE  \A s \in Seq(T) : IsFiniteSet(Places(s, S)) /\ Cardinality(Places(s, S)) = Len(Kept(s, S))
<1> DEFINE G == {s \in Seq(T) :
                   IsFiniteSet(Places(s, S)) /\ Cardinality(Places(s, S)) = Len(Kept(s, S))}
<1>1. <<>> \in G
  <2>1. Places(<<>>, S) = {} /\ <<>> \in Seq(T) /\ Len(<<>>) = 0
    BY DEF Places
  <2>2. QED
    BY <2>1, KeptOfNone, FS_EmptySet
<1>2. ASSUME NEW s \in Seq(T), NEW x \in T, s \in G PROVE Append(s, x) \in G
  <2>1. Kept(Append(s, x), S) = IF x \in S THEN Append(Kept(s, S), x) ELSE Kept(s, S)
    BY KeptOfMore
  <2>2. /\ DOMAIN Append(s, x) = 1 .. Len(s) + 1 /\ DOMAIN s = 1 .. Len(s) /\ Len(s) \in Nat
        /\ \A i \in 1 .. Len(s) : Append(s, x)[i] = s[i]
        /\ Append(s, x)[Len(s) + 1] = x
        /\ Append(s, x) \in Seq(T)
    OBVIOUS
  <2>3. Kept(s, S) \in Seq(T)
    BY KeptTyped
  <2>4. Len(Append(Kept(s, S), x)) = Len(Kept(s, S)) + 1
    BY <2>3
  <2>5. IsFiniteSet(Places(s, S)) /\ Cardinality(Places(s, S)) = Len(Kept(s, S))
    BY <1>2
  <2>6. CASE x \in S
    <3>1. Places(Append(s, x), S) = Places(s, S) \cup {Len(s) + 1}
      BY <2>2, <2>6 DEF Places
    <3>2. Len(s) + 1 \notin Places(s, S)
      BY <2>2 DEF Places
    <3>3. /\ IsFiniteSet(Places(s, S) \cup {Len(s) + 1})
          /\ Cardinality(Places(s, S) \cup {Len(s) + 1}) = Cardinality(Places(s, S)) + 1
      BY <2>5, <3>2, FS_AddElement
    <3>4. QED
      BY <2>1, <2>2, <2>4, <2>5, <2>6, <3>1, <3>3
  <2>7. CASE x \notin S
    <3>1. Places(Append(s, x), S) = Places(s, S)
      BY <2>2, <2>7 DEF Places
    <3>2. QED
      BY <2>1, <2>2, <2>5, <2>7, <3>1
  <2>8. QED
    BY <2>6, <2>7
<1>3. \A s \in Seq(T) : s \in G
  <2> HIDE DEF G
  <2>1. QED
    BY <1>1, <1>2, AllSequences
<1>4. QED
  BY <1>3

\* A list that has each element once still has after one that is new, and after a filter.
LEMMA InjectiveMore ==
  ASSUME NEW T, NEW s \in Seq(T), NEW x \in T
  PROVE  IsInjective(Append(s, x)) <=> IsInjective(s) /\ x \notin Range(s)
<1>1. /\ DOMAIN Append(s, x) = 1 .. Len(s) + 1 /\ DOMAIN s = 1 .. Len(s) /\ Len(s) \in Nat
      /\ \A i \in 1 .. Len(s) : Append(s, x)[i] = s[i]
      /\ Append(s, x)[Len(s) + 1] = x
  OBVIOUS
<1>2. ASSUME IsInjective(Append(s, x)) PROVE IsInjective(s) /\ x \notin Range(s)
  <2>1. IsInjective(s)
    BY <1>1, <1>2 DEF IsInjective
  <2>2. ASSUME NEW i \in 1 .. Len(s), s[i] = x PROVE FALSE
    <3>1. i \in 1 .. Len(s) + 1 /\ Len(s) + 1 \in 1 .. Len(s) + 1 /\ i # Len(s) + 1
      BY <1>1
    <3>2. QED
      BY <1>1, <1>2, <2>2, <3>1 DEF IsInjective
  <2>3. QED
    BY <1>1, <2>1, <2>2 DEF Range
<1>3. ASSUME IsInjective(s), x \notin Range(s) PROVE IsInjective(Append(s, x))
  <2>1. ASSUME NEW i \in 1 .. Len(s) + 1, NEW j \in 1 .. Len(s) + 1,
               Append(s, x)[i] = Append(s, x)[j]
        PROVE  i = j
    <3>1. \A k \in 1 .. Len(s) : s[k] # x
      BY <1>1, <1>3 DEF Range
    <3>2. (i \in 1 .. Len(s) \/ i = Len(s) + 1) /\ (j \in 1 .. Len(s) \/ j = Len(s) + 1)
      BY <1>1
    <3>3. CASE i \in 1 .. Len(s) /\ j \in 1 .. Len(s)
      BY <1>1, <1>3, <2>1, <3>3 DEF IsInjective
    <3>4. QED
      BY <1>1, <2>1, <3>1, <3>2, <3>3
  <2>2. QED
    BY <1>1, <2>1 DEF IsInjective
<1>4. QED
  BY <1>2, <1>3

LEMMA KeptInjective ==
  ASSUME NEW T, NEW S
  PROVE  \A s \in Seq(T) : IsInjective(s) => IsInjective(Kept(s, S))
<1> DEFINE G == {s \in Seq(T) : IsInjective(s) => IsInjective(Kept(s, S))}
<1>1. <<>> \in G
  BY KeptOfNone
<1>2. ASSUME NEW s \in Seq(T), NEW x \in T, s \in G PROVE Append(s, x) \in G
  <2>1. Kept(Append(s, x), S) = IF x \in S THEN Append(Kept(s, S), x) ELSE Kept(s, S)
    BY KeptOfMore
  <2>2. Kept(s, S) \in Seq(T) /\ Range(Kept(s, S)) = Range(s) \cap S
    BY KeptTyped, KeptRange
  <2>3. Append(s, x) \in Seq(T)
    OBVIOUS
  <2>4. ASSUME IsInjective(Append(s, x)) PROVE IsInjective(Kept(Append(s, x), S))
    <3>1. IsInjective(s) /\ x \notin Range(s)
      BY <2>4, InjectiveMore
    <3>2. IsInjective(Kept(s, S)) /\ x \notin Range(Kept(s, S))
      BY <1>2, <2>2, <3>1
    <3>3. IsInjective(Append(Kept(s, S), x))
      BY <2>2, <3>2, InjectiveMore
    <3> HIDE DEF G
    <3>4. QED
      BY <2>1, <3>2, <3>3, Zenon
  <2>5. QED
    BY <2>3, <2>4
<1>3. \A s \in Seq(T) : s \in G
  <2> HIDE DEF G
  <2>1. QED
    BY <1>1, <1>2, AllSequences
<1>4. QED
  BY <1>3

\* A filter that keeps the last element keeps it last.
LEMMA LastOfMore ==
  ASSUME NEW T, NEW s \in Seq(T), NEW x \in T
  PROVE  Append(s, x) # <<>> /\ Last(Append(s, x)) = x
<1>1. Len(Append(s, x)) = Len(s) + 1 /\ Append(s, x)[Len(s) + 1] = x /\ Len(s) \in Nat
  OBVIOUS
<1>2. Len(<<>>) = 0
  OBVIOUS
<1>3. QED
  BY <1>1, <1>2 DEF Last

LEMMA KeptLast ==
  ASSUME NEW T, NEW S
  PROVE  \A s \in Seq(T) : s # <<>> /\ Last(s) \in S =>
             Kept(s, S) # <<>> /\ Last(Kept(s, S)) = Last(s)
<1> DEFINE G == {s \in Seq(T) : s # <<>> /\ Last(s) \in S =>
                     Kept(s, S) # <<>> /\ Last(Kept(s, S)) = Last(s)}
<1>1. <<>> \in G
  OBVIOUS
<1>2. ASSUME NEW s \in Seq(T), NEW x \in T, s \in G PROVE Append(s, x) \in G
  <2>1. Kept(Append(s, x), S) = IF x \in S THEN Append(Kept(s, S), x) ELSE Kept(s, S)
    BY KeptOfMore
  <2>2. Append(s, x) \in Seq(T) /\ Last(Append(s, x)) = x
    BY LastOfMore
  <2>3. Kept(s, S) \in Seq(T)
    BY KeptTyped
  <2>4. Append(Kept(s, S), x) # <<>> /\ Last(Append(Kept(s, S), x)) = x
    BY <2>3, LastOfMore
  <2>5. QED
    BY <2>1, <2>2, <2>4
<1>3. \A s \in Seq(T) : s \in G
  <2> HIDE DEF G
  <2>1. QED
    BY <1>1, <1>2, AllSequences
<1>4. QED
  BY <1>3

-------------------------------------------------------------------------------
(* The routes *)

\* The queries that a route reads, one list per kind of report.
ReadLists == {AccountQueries, LoanQueries, <<"pending">>, <<"loans">>, <<"customers", "page">>,
              <<"page">>, <<"statement">>, <<"mini">>, <<"goals">>}
\* What the proofs use of a route x and its handler h.
Suits(x, h) ==
    /\ h.op \in (Ops \ {"password"}) \cup {"none", "transfer", "register"} /\ h.limited \in BOOLEAN
    /\ h.codes \in {<<>>, NotFound, InterestCodes}
    /\ h.op = "none" => /\ ~h.limited /\ h.check = "nothing"
                        /\ h.after \in {"lookup", "page", "ping", "report"}
    /\ h.op # "none" => h.after \in {"answer", "newest", "goal", "invalidate"}
    /\ h.after = "lookup" => x \in {"list", "search"}
    /\ h.after = "newest" <=> h.op = "createGoal"
    /\ h.after = "goal" => h.op = "contribute"
    /\ x \in InvalidatingRoutes => h.after = "invalidate"
    /\ h.op = "register" => h.check = "text" /\ ~h.limited
    /\ h.after = "page" <=> x \in {"keyset", "offset"}
    /\ h.after = "report" => h.reads \in ReadLists
    /\ x \in {"statement", "statementV2"} => h.reads = <<"statement">>
    /\ x \in {"mini", "miniV2"} => h.reads = <<"mini">>

LEMMA RoutesSuit == \A x \in DOMAIN Routes : Suits(x, Routes[x])
<1>1. DOMAIN Routes = {"deposit", "withdraw", "transfer", "close", "profile", "freeze",
                    "unfreeze", "delete", "interest", "createGoal", "updateGoal",
                    "contribute", "deleteGoal", "depositV2", "withdrawV2", "transferV2",
                    "closeV2", "profileV2", "createGoalV2", "contributeV2",
                    "deleteGoalV2", "applyV2", "payEmiV2", "approveV2", "rejectV2",
                    "freezeV2", "unfreezeV2", "deleteV2", "list", "search", "keyset",
                    "offset", "health", "statistics", "statisticsV2", "loanStatistics",
                    "pendingLoans", "allLoans", "accountsV2", "searchV2", "statement",
                    "statementV2", "mini", "miniV2", "goals", "goalsV2", "register",
                    "registerV2"}
  BY Zenon DEF Routes
<1>2. /\ Routes.deposit = DepositMoney /\ Suits("deposit", DepositMoney)
      /\ Routes.withdraw = WithdrawMoney /\ Suits("withdraw", WithdrawMoney)
      /\ Routes.transfer = TransferFunds /\ Suits("transfer", TransferFunds)
      /\ Routes.close = CloseV1 /\ Suits("close", CloseV1)
      /\ Routes.profile = ProfileV1 /\ Suits("profile", ProfileV1)
      /\ Routes.freeze = FreezeV1 /\ Suits("freeze", FreezeV1)
  <2>1. /\ Routes.deposit = DepositMoney
        /\ Routes.withdraw = WithdrawMoney
        /\ Routes.transfer = TransferFunds
        /\ Routes.close = CloseV1
        /\ Routes.profile = ProfileV1
        /\ Routes.freeze = FreezeV1
    BY Zenon DEF Routes
  <2>2. /\ Suits("deposit", DepositMoney)
        /\ Suits("withdraw", WithdrawMoney)
        /\ Suits("transfer", TransferFunds)
        /\ Suits("close", CloseV1)
        /\ Suits("profile", ProfileV1)
        /\ Suits("freeze", FreezeV1)
    BY DEF Suits, DepositMoney, WithdrawMoney, TransferFunds, CloseV1, ProfileV1,
        FreezeV1, Handler, Report, Walks, Ops, InvalidatingRoutes, ReadLists
  <2>3. QED
    BY <2>1, <2>2
<1>3. /\ Routes.unfreeze = UnfreezeV1 /\ Suits("unfreeze", UnfreezeV1)
      /\ Routes.delete = DeleteV1 /\ Suits("delete", DeleteV1)
      /\ Routes.interest = InterestV1 /\ Suits("interest", InterestV1)
      /\ Routes.createGoal = CreateGoalV1 /\ Suits("createGoal", CreateGoalV1)
      /\ Routes.updateGoal = UpdateGoalV1 /\ Suits("updateGoal", UpdateGoalV1)
      /\ Routes.contribute = ContributeV1 /\ Suits("contribute", ContributeV1)
  <2>1. /\ Routes.unfreeze = UnfreezeV1
        /\ Routes.delete = DeleteV1
        /\ Routes.interest = InterestV1
        /\ Routes.createGoal = CreateGoalV1
        /\ Routes.updateGoal = UpdateGoalV1
        /\ Routes.contribute = ContributeV1
    BY Zenon DEF Routes
  <2>2. /\ Suits("unfreeze", UnfreezeV1)
        /\ Suits("delete", DeleteV1)
        /\ Suits("interest", InterestV1)
        /\ Suits("createGoal", CreateGoalV1)
        /\ Suits("updateGoal", UpdateGoalV1)
        /\ Suits("contribute", ContributeV1)
    BY DEF Suits, UnfreezeV1, DeleteV1, InterestV1, CreateGoalV1, UpdateGoalV1,
        ContributeV1, Handler, Report, Walks, Ops, InvalidatingRoutes, ReadLists
  <2>3. QED
    BY <2>1, <2>2
<1>4. /\ Routes.deleteGoal = DeleteGoalV1 /\ Suits("deleteGoal", DeleteGoalV1)
      /\ Routes.depositV2 = DepositV2 /\ Suits("depositV2", DepositV2)
      /\ Routes.withdrawV2 = WithdrawV2 /\ Suits("withdrawV2", WithdrawV2)
      /\ Routes.transferV2 = TransferV2 /\ Suits("transferV2", TransferV2)
      /\ Routes.closeV2 = CloseV2 /\ Suits("closeV2", CloseV2)
      /\ Routes.profileV2 = ProfileV2 /\ Suits("profileV2", ProfileV2)
  <2>1. /\ Routes.deleteGoal = DeleteGoalV1
        /\ Routes.depositV2 = DepositV2
        /\ Routes.withdrawV2 = WithdrawV2
        /\ Routes.transferV2 = TransferV2
        /\ Routes.closeV2 = CloseV2
        /\ Routes.profileV2 = ProfileV2
    BY Zenon DEF Routes
  <2>2. /\ Suits("deleteGoal", DeleteGoalV1)
        /\ Suits("depositV2", DepositV2)
        /\ Suits("withdrawV2", WithdrawV2)
        /\ Suits("transferV2", TransferV2)
        /\ Suits("closeV2", CloseV2)
        /\ Suits("profileV2", ProfileV2)
    BY DEF Suits, DeleteGoalV1, DepositV2, WithdrawV2, TransferV2, CloseV2, ProfileV2,
        Handler, Report, Walks, Ops, InvalidatingRoutes, ReadLists
  <2>3. QED
    BY <2>1, <2>2
<1>5. /\ Routes.createGoalV2 = CreateGoalV2 /\ Suits("createGoalV2", CreateGoalV2)
      /\ Routes.contributeV2 = ContributeV2 /\ Suits("contributeV2", ContributeV2)
      /\ Routes.deleteGoalV2 = DeleteGoalV2 /\ Suits("deleteGoalV2", DeleteGoalV2)
      /\ Routes.applyV2 = ApplyV2 /\ Suits("applyV2", ApplyV2)
      /\ Routes.payEmiV2 = PayEmiV2 /\ Suits("payEmiV2", PayEmiV2)
      /\ Routes.approveV2 = ApproveV2 /\ Suits("approveV2", ApproveV2)
  <2>1. /\ Routes.createGoalV2 = CreateGoalV2
        /\ Routes.contributeV2 = ContributeV2
        /\ Routes.deleteGoalV2 = DeleteGoalV2
        /\ Routes.applyV2 = ApplyV2
        /\ Routes.payEmiV2 = PayEmiV2
        /\ Routes.approveV2 = ApproveV2
    BY Zenon DEF Routes
  <2>2. /\ Suits("createGoalV2", CreateGoalV2)
        /\ Suits("contributeV2", ContributeV2)
        /\ Suits("deleteGoalV2", DeleteGoalV2)
        /\ Suits("applyV2", ApplyV2)
        /\ Suits("payEmiV2", PayEmiV2)
        /\ Suits("approveV2", ApproveV2)
    BY DEF Suits, CreateGoalV2, ContributeV2, DeleteGoalV2, ApplyV2, PayEmiV2, ApproveV2,
        Handler, Report, Walks, Ops, InvalidatingRoutes, ReadLists
  <2>3. QED
    BY <2>1, <2>2
<1>6. /\ Routes.rejectV2 = RejectV2 /\ Suits("rejectV2", RejectV2)
      /\ Routes.freezeV2 = FreezeV2 /\ Suits("freezeV2", FreezeV2)
      /\ Routes.unfreezeV2 = UnfreezeV2 /\ Suits("unfreezeV2", UnfreezeV2)
      /\ Routes.deleteV2 = DeleteV2 /\ Suits("deleteV2", DeleteV2)
      /\ Routes.list = Lists /\ Suits("list", Lists)
      /\ Routes.search = Lists /\ Suits("search", Lists)
  <2>1. /\ Routes.rejectV2 = RejectV2
        /\ Routes.freezeV2 = FreezeV2
        /\ Routes.unfreezeV2 = UnfreezeV2
        /\ Routes.deleteV2 = DeleteV2
        /\ Routes.list = Lists
        /\ Routes.search = Lists
    BY Zenon DEF Routes
  <2>2. /\ Suits("rejectV2", RejectV2)
        /\ Suits("freezeV2", FreezeV2)
        /\ Suits("unfreezeV2", UnfreezeV2)
        /\ Suits("deleteV2", DeleteV2)
        /\ Suits("list", Lists)
        /\ Suits("search", Lists)
    BY DEF Suits, RejectV2, FreezeV2, UnfreezeV2, DeleteV2, Lists, Handler, Report, Walks,
        Ops, InvalidatingRoutes, ReadLists
  <2>3. QED
    BY <2>1, <2>2
<1>7. /\ Routes.keyset = Walks /\ Suits("keyset", Walks)
      /\ Routes.offset = AdminWalk /\ Suits("offset", AdminWalk)
      /\ Routes.health = Health /\ Suits("health", Health)
      /\ Routes.statistics = StatisticsV1 /\ Suits("statistics", StatisticsV1)
      /\ Routes.statisticsV2 = StatisticsV2 /\ Suits("statisticsV2", StatisticsV2)
      /\ Routes.loanStatistics = LoanStatisticsV2 /\ Suits("loanStatistics", LoanStatisticsV2)
  <2>1. /\ Routes.keyset = Walks
        /\ Routes.offset = AdminWalk
        /\ Routes.health = Health
        /\ Routes.statistics = StatisticsV1
        /\ Routes.statisticsV2 = StatisticsV2
        /\ Routes.loanStatistics = LoanStatisticsV2
    BY Zenon DEF Routes
  <2>2. /\ Suits("keyset", Walks)
        /\ Suits("offset", AdminWalk)
        /\ Suits("health", Health)
        /\ Suits("statistics", StatisticsV1)
        /\ Suits("statisticsV2", StatisticsV2)
        /\ Suits("loanStatistics", LoanStatisticsV2)
    BY DEF Suits, Walks, AdminWalk, Health, StatisticsV1, StatisticsV2, LoanStatisticsV2,
        Handler, Report, Walks, Ops, InvalidatingRoutes, ReadLists
  <2>3. QED
    BY <2>1, <2>2
<1>8. /\ Routes.pendingLoans = PendingLoansV2 /\ Suits("pendingLoans", PendingLoansV2)
      /\ Routes.allLoans = AllLoansV2 /\ Suits("allLoans", AllLoansV2)
      /\ Routes.accountsV2 = AccountsV2 /\ Suits("accountsV2", AccountsV2)
      /\ Routes.searchV2 = SearchV2 /\ Suits("searchV2", SearchV2)
      /\ Routes.statement = StatementV1 /\ Suits("statement", StatementV1)
      /\ Routes.statementV2 = StatementV2 /\ Suits("statementV2", StatementV2)
  <2>1. /\ Routes.pendingLoans = PendingLoansV2
        /\ Routes.allLoans = AllLoansV2
        /\ Routes.accountsV2 = AccountsV2
        /\ Routes.searchV2 = SearchV2
        /\ Routes.statement = StatementV1
        /\ Routes.statementV2 = StatementV2
    BY Zenon DEF Routes
  <2>2. /\ Suits("pendingLoans", PendingLoansV2)
        /\ Suits("allLoans", AllLoansV2)
        /\ Suits("accountsV2", AccountsV2)
        /\ Suits("searchV2", SearchV2)
        /\ Suits("statement", StatementV1)
        /\ Suits("statementV2", StatementV2)
    BY DEF Suits, PendingLoansV2, AllLoansV2, AccountsV2, SearchV2, StatementV1,
        StatementV2, Handler, Report, Walks, Ops, InvalidatingRoutes, ReadLists
  <2>3. QED
    BY <2>1, <2>2
<1>9. /\ Routes.mini = MiniV1 /\ Suits("mini", MiniV1)
      /\ Routes.miniV2 = MiniV2 /\ Suits("miniV2", MiniV2)
      /\ Routes.goals = GoalsV1 /\ Suits("goals", GoalsV1)
      /\ Routes.goalsV2 = GoalsV2 /\ Suits("goalsV2", GoalsV2)
      /\ Routes.register = RegisterV1 /\ Suits("register", RegisterV1)
      /\ Routes.registerV2 = RegisterV2 /\ Suits("registerV2", RegisterV2)
  <2>1. /\ Routes.mini = MiniV1
        /\ Routes.miniV2 = MiniV2
        /\ Routes.goals = GoalsV1
        /\ Routes.goalsV2 = GoalsV2
        /\ Routes.register = RegisterV1
        /\ Routes.registerV2 = RegisterV2
    BY Zenon DEF Routes
  <2>2. /\ Suits("mini", MiniV1)
        /\ Suits("miniV2", MiniV2)
        /\ Suits("goals", GoalsV1)
        /\ Suits("goalsV2", GoalsV2)
        /\ Suits("register", RegisterV1)
        /\ Suits("registerV2", RegisterV2)
    BY DEF Suits, MiniV1, MiniV2, GoalsV1, GoalsV2, RegisterV1, RegisterV2, Handler,
        Report, Walks, Ops, InvalidatingRoutes, ReadLists
  <2>3. QED
    BY <2>1, <2>2
<1>10. QED
  BY <1>1, <1>2, <1>3, <1>4, <1>5, <1>6, <1>7, <1>8, <1>9, Zenon

LEMMA CodesAreErrors ==
  ASSUME NEW x \in DOMAIN Routes, NEW why
  PROVE  CodeOf(Routes[x], why) \in {400, 404, 500}
<1>1. Routes[x].codes \in {<<>>, NotFound, InterestCodes}
  BY RoutesSuit, Zenon DEF Suits
<1>2. CASE Routes[x].codes = <<>>
  <2>1. why \notin DOMAIN <<>>
    OBVIOUS
  <2>2. QED
    BY <1>2, <2>1, Zenon DEF CodeOf
<1>3. CASE Routes[x].codes = NotFound
  <2>1. why \in DOMAIN NotFound => NotFound[why] = 404
    BY DEF NotFound
  <2>2. QED
    BY <1>3, <2>1, Zenon DEF CodeOf
<1>4. CASE Routes[x].codes = InterestCodes
  <2>1. why \in DOMAIN InterestCodes => InterestCodes[why] = 500
    BY DEF InterestCodes
  <2>2. QED
    BY <1>4, <2>1, Zenon DEF CodeOf
<1>5. QED
  BY <1>1, <1>2, <1>3, <1>4

\* The fields of a request, and the accounts it is about.
LEMMA RequestFields ==
  ASSUME NEW r \in Requests
  PROVE  /\ r.route \in DOMAIN Routes /\ r.acc \in Accounts /\ r.to \in Accounts
         /\ r.loan \in Loans /\ r.goal \in Goals /\ r.value \in Int /\ r.terms \in Terms
         /\ Offers(r) /\ Registers(r)
         /\ r.acc \in Parties(r) /\ r.to \in Parties(r) /\ Parties(r) \subseteq Accounts
<1>1. r \in Request /\ Offers(r) /\ Registers(r)
  BY RequestsAssumption, Zenon
<1>2. /\ r.route \in DOMAIN Routes /\ r.acc \in Accounts /\ r.to \in Accounts
      /\ r.loan \in Loans /\ r.goal \in Goals /\ r.value \in Int /\ r.terms \in Terms
  BY <1>1 DEF Request
<1>3. Parties(r) = Accounts \/ Parties(r) = {r.acc, r.to}
  BY Zenon DEF Parties
<1>4. r.acc \in Parties(r) /\ r.to \in Parties(r) /\ Parties(r) \subseteq Accounts
  BY <1>2, <1>3
<1>5. QED
  BY <1>1, <1>2, <1>4

LEMMA MeetingSymmetric ==
  ASSUME NEW p, NEW r PROVE Meeting(p, r) = Meeting(r, p)
<1>1. Parties(p) \cap Parties(r) = Parties(r) \cap Parties(p)
  OBVIOUS
<1>2. {Routes[p.route].op, Routes[r.route].op} = {Routes[r.route].op, Routes[p.route].op}
  OBVIOUS
<1>3. {p.acc, r.acc} = {r.acc, p.acc}
  OBVIOUS
<1>4. (p.goal = r.goal) = (r.goal = p.goal)
  OBVIOUS
<1>5. QED
  BY <1>1, <1>2, <1>3, <1>4, Zenon DEF Meeting

-------------------------------------------------------------------------------
(* What a step does to the threads *)

\* The other threads stay where they are.
OthersStay(t) ==
    /\ pc' \in [Threads -> Stages] /\ DOMAIN local' = Threads /\ DOMAIN reply' = Threads
    /\ \A u \in Threads : u # t => pc'[u] = pc[u] /\ local'[u] = local[u] /\ reply'[u] = reply[u]

LEMMA AnswerGoes ==
  ASSUME ThreadsSound, NEW t \in Threads, NEW l, NEW code, NEW shown, Answer(t, l, code, shown)
  PROVE  /\ pc'[t] = "idle" /\ local'[t] = NoLocal
         /\ reply'[t] = [code |-> code, wrote |-> l.wrote, shown |-> shown,
                         got |-> l.got, start |-> l.start, report |-> l.report]
         /\ OthersStay(t)
<1>1. "idle" \in Stages
  BY DEF Stages
<1>2. /\ pc' = [pc EXCEPT ![t] = "idle"] /\ local' = [local EXCEPT ![t] = NoLocal]
      /\ reply' = [reply EXCEPT ![t] = [code |-> code, wrote |-> l.wrote, shown |-> shown,
                         got |-> l.got, start |-> l.start, report |-> l.report]]
  BY Zenon DEF Answer, Goto
<1>3. pc \in [Threads -> Stages] /\ DOMAIN local = Threads /\ DOMAIN reply = Threads
  BY Zenon DEF ThreadsSound
<1> HIDE DEF Stages
<1>4. QED
  BY <1>1, <1>2, <1>3 DEF OthersStay

LEMMA GoneTo ==
  ASSUME ThreadsSound, NEW t \in Threads, NEW stage \in Stages, Goto(t, stage),
         NEW l, local' = [local EXCEPT ![t] = l], reply' = reply
  PROVE  pc'[t] = stage /\ local'[t] = l /\ reply'[t] = reply[t] /\ OthersStay(t)
<1>1. pc' = [pc EXCEPT ![t] = stage]
  BY Zenon DEF Goto
<1>2. pc \in [Threads -> Stages] /\ DOMAIN local = Threads /\ DOMAIN reply = Threads
  BY Zenon DEF ThreadsSound
<1>3. QED
  BY <1>1, <1>2 DEF OthersStay

LEMMA StayedAt ==
  ASSUME ThreadsSound, NEW t \in Threads, NEW stage \in Stages, Stay(t, stage)
  PROVE  pc'[t] = stage /\ local'[t] = local[t] /\ reply'[t] = reply[t] /\ OthersStay(t)
<1>1. pc' = [pc EXCEPT ![t] = stage] /\ local' = local /\ reply' = reply
  BY Zenon DEF Stay, Goto
<1>2. pc \in [Threads -> Stages] /\ DOMAIN local = Threads /\ DOMAIN reply = Threads
  BY Zenon DEF ThreadsSound
<1>3. QED
  BY <1>1, <1>2 DEF OthersStay

\* An advancing thread was pending; it keeps its request, and the others wait.
LEMMA OneAdvances ==
  ASSUME ThreadsSound, NEW t \in Threads, Advance(t)
  PROVE  Pending(t) /\ request' = request /\ OthersStay(t) /\ crowded' = crowded
<1> DEFINE Good == Pending(t) /\ request' = request /\ OthersStay(t) /\ crowded' = crowded
<1>1. ASSUME Check(t) PROVE Good
  <2>1. pc[t] = "check" /\ request' = request /\ crowded' = crowded
    BY <1>1 DEF Check, Serving, history
  <2>2. \/ \E code : Answer(t, NoLocal, code, 0)
        \/ Stay(t, Checked(RouteOf(t)))
    BY <1>1, Zenon DEF Check
  <2>3. OthersStay(t)
    <3>1. CASE Stay(t, Checked(RouteOf(t)))
      <4>1. Checked(RouteOf(t)) \in Stages
        <5>1. Staged(t) /\ request[t] \in Requests
          BY Zenon DEF ThreadsSound
        <5>2. request[t].route \in DOMAIN Routes
          BY <5>1, RequestFields, Zenon
        <5>3. OpOf(t) # "none"
          BY <2>1, <5>1, Zenon DEF Staged, Before
        <5>4. QED
          BY <5>3 DEF Checked, Stages, OpOf
      <4>2. QED
        BY <3>1, <4>1, StayedAt, Zenon
    <3>2. CASE \E code : Answer(t, NoLocal, code, 0)
      BY <3>2, AnswerGoes, Zenon
    <3>3. QED
      BY <2>2, <3>1, <3>2
  <2>4. QED
    BY <2>1, <2>3 DEF Pending
<1>2. ASSUME CleanUp(t) PROVE Good
  <2>1. pc[t] = "clean up" /\ request' = request /\ crowded' = crowded /\ Goto(t, "count")
    BY <1>2 DEF CleanUp, Serving, history
  <2>2. /\ local' = [local EXCEPT ![t].kept =
                         Kept(operations[request[t].acc], InWindow(clock))]
        /\ reply' = reply
    BY <1>2, Zenon DEF CleanUp
  <2>3. \E l : local' = [local EXCEPT ![t] = l]
    BY <2>2
  <2>4. "count" \in Stages
    BY DEF Stages
  <2>5. OthersStay(t)
    BY <2>1, <2>2, <2>3, <2>4, GoneTo, Zenon
  <2>6. QED
    BY <2>1, <2>5 DEF Pending
<1>3. ASSUME CountOperations(t) PROVE Good
  <2>1. pc[t] = "count" /\ request' = request /\ crowded' = crowded
    BY <1>3 DEF CountOperations, Serving, history
  <2>2. (\E code : Answer(t, NoLocal, code, 0)) \/ Stay(t, "record")
    BY <1>3, Zenon DEF CountOperations
  <2>3. "record" \in Stages
    BY DEF Stages
  <2>4. OthersStay(t)
    BY <2>2, <2>3, AnswerGoes, StayedAt, Zenon
  <2>5. QED
    BY <2>1, <2>4 DEF Pending
<1>4. ASSUME Record(t) PROVE Good
  <2>1. pc[t] = "record" /\ request' = request /\ crowded' = crowded /\ Stay(t, "serve")
    BY <1>4 DEF Record, Serving
  <2>2. "serve" \in Stages
    BY DEF Stages
  <2>3. OthersStay(t)
    BY <2>1, <2>2, StayedAt, Zenon
  <2>4. QED
    BY <2>1, <2>3 DEF Pending
<1>5. ASSUME Serve(t) PROVE Good
  <2>1. pc[t] = "serve" /\ request' = request /\ crowded' = crowded
    BY <1>5 DEF Serve, Serving
  <2>2. \/ \E l, code : Answer(t, l, code, 0)
        \/ /\ RouteOf(t).after # "answer" /\ Goto(t, RouteOf(t).after) /\ reply' = reply
           /\ local' = [local EXCEPT ![t] = [local[t] EXCEPT !.wrote = TRUE]]
    BY <1>5, Zenon DEF Serve
  <2>3. RouteOf(t).after \in Stages \cup {"answer"}
    <3>1. Staged(t) /\ request[t] \in Requests
      BY Zenon DEF ThreadsSound
    <3>2. request[t].route \in DOMAIN Routes
      BY <3>1, RequestFields, Zenon
    <3>3. RouteOf(t).op # "none"
      BY <2>1, <3>1, Zenon DEF Staged, Before, OpOf
    <3>4. Suits(request[t].route, RouteOf(t))
      BY <3>2, RoutesSuit, Zenon DEF RouteOf
    <3>5. RouteOf(t).after \in {"answer", "newest", "goal", "invalidate"}
      BY <3>3, <3>4, Zenon DEF Suits
    <3>6. QED
      BY <3>5 DEF Stages
  <2>4. OthersStay(t)
    <3>1. CASE \E l, code : Answer(t, l, code, 0)
      BY <3>1, AnswerGoes, Zenon
    <3>2. CASE /\ RouteOf(t).after # "answer" /\ Goto(t, RouteOf(t).after) /\ reply' = reply
               /\ local' = [local EXCEPT ![t] = [local[t] EXCEPT !.wrote = TRUE]]
      <4>1. RouteOf(t).after \in Stages
        BY <2>3, <3>2, Zenon
      <4>2. QED
        BY <3>2, <4>1, GoneTo, Zenon
    <3>3. QED
      BY <2>2, <3>1, <3>2
  <2>5. QED
    BY <2>1, <2>4 DEF Pending
<1>6. ASSUME ShowNewest(t) PROVE Good
  <2>1. pc[t] = "newest" /\ request' = request /\ crowded' = crowded
    BY <1>6 DEF ShowNewest, Serving, history
  <2>2. \E code, shown : Answer(t, local[t], code, shown)
    BY <1>6, Zenon DEF ShowNewest
  <2>3. QED
    BY <2>1, <2>2, AnswerGoes, Zenon DEF Pending
<1>7. ASSUME ShowGoal(t) PROVE Good
  <2>1. pc[t] = "goal" /\ request' = request /\ crowded' = crowded
    BY <1>7 DEF ShowGoal, Serving, history
  <2>2. \E code, shown : Answer(t, local[t], code, shown)
    BY <1>7, Zenon DEF ShowGoal
  <2>3. QED
    BY <2>1, <2>2, AnswerGoes, Zenon DEF Pending
<1>8. ASSUME Invalidate(t) PROVE Good
  <2>1. pc[t] = "invalidate" /\ request' = request /\ crowded' = crowded
    BY <1>8 DEF Invalidate, Serving
  <2>2. \E code : Answer(t, local[t], code, 0)
    BY <1>8, Zenon DEF Invalidate
  <2>3. QED
    BY <2>1, <2>2, AnswerGoes, Zenon DEF Pending
<1>9. ASSUME Lookup(t) PROVE Good
  <2>1. pc[t] = "lookup" /\ request' = request /\ crowded' = crowded
    BY <1>9 DEF Lookup, Serving, history
  <2>2. (\E code : Answer(t, NoLocal, code, 0)) \/ Stay(t, "query")
    BY <1>9, Zenon DEF Lookup
  <2>3. "query" \in Stages
    BY DEF Stages
  <2>4. OthersStay(t)
    BY <2>2, <2>3, AnswerGoes, StayedAt, Zenon
  <2>5. QED
    BY <2>1, <2>4 DEF Pending
<1>10. ASSUME Query(t) PROVE Good
  <2>1. pc[t] = "query" /\ request' = request /\ crowded' = crowded /\ Goto(t, "fill")
    BY <1>10 DEF Query, Serving, history
  <2>2. local' = [local EXCEPT ![t].page = Page] /\ reply' = reply
    BY <1>10, Zenon DEF Query
  <2>3. \E l : local' = [local EXCEPT ![t] = l]
    BY <2>2
  <2>4. "fill" \in Stages
    BY DEF Stages
  <2>5. OthersStay(t)
    BY <2>1, <2>2, <2>3, <2>4, GoneTo, Zenon
  <2>6. QED
    BY <2>1, <2>5 DEF Pending
<1>11. ASSUME Fill(t) PROVE Good
  <2>1. pc[t] = "fill" /\ request' = request /\ crowded' = crowded
    BY <1>11 DEF Fill, Serving, history
  <2>2. \E code : Answer(t, NoLocal, code, 0)
    BY <1>11, Zenon DEF Fill
  <2>3. QED
    BY <2>1, <2>2, AnswerGoes, Zenon DEF Pending
<1>12. ASSUME Ping(t) PROVE Good
  <2>1. pc[t] = "ping" /\ request' = request /\ crowded' = crowded
    BY <1>12 DEF Ping, Serving, history
  <2>2. \E code : Answer(t, NoLocal, code, 0)
    BY <1>12, Zenon DEF Ping
  <2>3. QED
    BY <2>1, <2>2, AnswerGoes, Zenon DEF Pending
<1>13. ASSUME NextPage(t) PROVE Good
  <2>1. pc[t] = "page" /\ request' = request /\ crowded' = crowded
    BY <1>13 DEF NextPage, Serving, history
  <2>2. \E l : \/ Answer(t, l, 200, 0)
               \/ Goto(t, "page") /\ local' = [local EXCEPT ![t] = l] /\ reply' = reply
    BY <1>13, Zenon DEF NextPage
  <2>3. "page" \in Stages
    BY DEF Stages
  <2>4. OthersStay(t)
    BY <2>2, <2>3, AnswerGoes, GoneTo, Zenon
  <2>5. QED
    BY <2>1, <2>4 DEF Pending
<1>14. ASSUME RunQuery(t) PROVE Good
  <2>1. pc[t] = "report" /\ request' = request /\ crowded' = crowded
    BY <1>14 DEF RunQuery, Serving, history
  <2>2. \E l : \/ Answer(t, l, 200, 0)
               \/ Goto(t, "report") /\ local' = [local EXCEPT ![t] = l] /\ reply' = reply
    BY <1>14, Zenon DEF RunQuery
  <2>3. "report" \in Stages
    BY DEF Stages
  <2>4. OthersStay(t)
    BY <2>2, <2>3, AnswerGoes, GoneTo, Zenon
  <2>5. QED
    BY <2>1, <2>4 DEF Pending
<1>15. QED
  BY <1>1, <1>2, <1>3, <1>4, <1>5, <1>6, <1>7, <1>8, <1>9, <1>10, <1>11, <1>12, <1>13, <1>14
  DEF Advance

-------------------------------------------------------------------------------
(* The stages of the threads *)

LEMMA IdleIsStaged ==
  ASSUME NEW t \in Threads, pc'[t] = "idle", local'[t] = NoLocal
  PROVE  Staged(t)'
BY DEF Staged, Before, Reads, Listing

\* A pending thread with what the invariant says of it, and its route.
LEMMA AtStage ==
  ASSUME ThreadsSound, NEW t \in Threads
  PROVE  /\ Staged(t) /\ request[t] \in Requests /\ request[t].route \in DOMAIN Routes
         /\ Suits(request[t].route, RouteOf(t))
<1>1. Staged(t) /\ request[t] \in Requests
  BY Zenon DEF ThreadsSound
<1>2. request[t].route \in DOMAIN Routes
  BY <1>1, RequestFields, Zenon
<1>3. QED
  BY <1>1, <1>2, RoutesSuit, Zenon DEF RouteOf

LEMMA StagedNext ==
  ASSUME ThreadsSound, NEW t \in Threads, Advance(t)
  PROVE  Staged(t)'
<1>0. request' = request /\ RouteOf(t)' = RouteOf(t) /\ OpOf(t)' = OpOf(t)
  <2>1. request' = request
    BY OneAdvances
  <2>2. QED
    BY <2>1 DEF RouteOf, OpOf
<1>a. Staged(t) /\ Suits(request[t].route, RouteOf(t)) /\ request[t] \in Requests
  BY AtStage
<1>b. DOMAIN local = Threads /\ DOMAIN local[t] = DOMAIN NoLocal
  BY <1>a, Zenon DEF ThreadsSound, Staged
<1>c. ASSUME NEW l, NEW code, NEW shown, Answer(t, l, code, shown) PROVE Staged(t)'
  BY <1>c, AnswerGoes, IdleIsStaged, Zenon
<1>1. ASSUME Check(t) PROVE Staged(t)'
  <2>1. pc[t] = "check" /\ OpOf(t) # "none" /\ ~local[t].wrote
    BY <1>1, <1>a DEF Check, Serving, Staged, Before
  <2>2. CASE Refusal(request[t]) # 0
    BY <1>1, <1>c, <2>2, Zenon DEF Check
  <2>3. CASE Refusal(request[t]) = 0
    <3>1. Stay(t, Checked(RouteOf(t)))
      BY <1>1, <2>3, Zenon DEF Check
    <3>2. Checked(RouteOf(t)) \in {"clean up", "serve"}
      BY <2>1 DEF Checked, OpOf
    <3>3. Checked(RouteOf(t)) \in Stages
      BY <3>2 DEF Stages
    <3>4. pc'[t] \in {"clean up", "serve"} /\ local'[t] = local[t]
      BY <3>1, <3>2, <3>3, StayedAt, Zenon
    <3>5. OpOf(t) = "register" => request[t].value # -1
      <4>1. ASSUME OpOf(t) = "register", request[t].value = -1 PROVE FALSE
        <5>1. Routes[request[t].route].check = "text"
          BY <1>a, <4>1 DEF Suits, OpOf, RouteOf
        <5>2. Refusal(request[t]) = 400
          BY <4>1, <5>1 DEF Refusal
        <5>3. QED
          BY <2>3, <5>2
      <4>2. QED
        BY <4>1
    <3>6. QED
      BY <1>0, <1>b, <2>1, <3>4, <3>5 DEF Staged, Before, Reads, Listing
  <2>4. QED
    BY <2>2, <2>3
<1>2. ASSUME CleanUp(t) PROVE Staged(t)'
  <2>1. pc[t] = "clean up"
    BY <1>2 DEF CleanUp, Serving
  <2>2. pc' = [pc EXCEPT ![t] = "count"]
    BY <1>2, Zenon DEF CleanUp, Goto
  <2>3. local' = [local EXCEPT ![t].kept = Kept(operations[request[t].acc], InWindow(clock))]
    BY <1>2, Zenon DEF CleanUp
  <2>4. pc'[t] = "count"
    BY <2>2 DEF ThreadsSound
  <2>5. DOMAIN local'[t] = DOMAIN local[t] /\ local'[t].wrote = local[t].wrote
    BY <2>3, <1>b DEF NoLocal
  <2>6. QED
    BY <1>0, <1>a, <1>b, <2>1, <2>4, <2>5 DEF Staged, Before, Reads, Listing
<1>3. ASSUME CountOperations(t) PROVE Staged(t)'
  <2>1. pc[t] = "count"
    BY <1>3 DEF CountOperations, Serving
  <2>2. (\E code : Answer(t, NoLocal, code, 0)) \/ Stay(t, "record")
    BY <1>3, Zenon DEF CountOperations
  <2>3. CASE Stay(t, "record")
    <3>1. "record" \in Stages
      BY DEF Stages
    <3>2. pc'[t] = "record" /\ local'[t] = local[t]
      BY <2>3, <3>1, StayedAt
    <3>3. QED
      BY <1>0, <1>a, <1>b, <2>1, <3>2 DEF Staged, Before, Reads, Listing
  <2>4. QED
    BY <1>c, <2>2, <2>3
<1>4. ASSUME Record(t) PROVE Staged(t)'
  <2>1. pc[t] = "record" /\ Stay(t, "serve")
    BY <1>4 DEF Record, Serving
  <2>2. "serve" \in Stages
    BY DEF Stages
  <2>3. pc'[t] = "serve" /\ local'[t] = local[t]
    BY <2>1, <2>2, StayedAt
  <2>4. QED
    BY <1>0, <1>a, <1>b, <2>1, <2>3 DEF Staged, Before, Reads, Listing
<1>5. ASSUME Serve(t) PROVE Staged(t)'
  <2>1. pc[t] = "serve" /\ OpOf(t) # "none"
    BY <1>5, <1>a DEF Serve, Serving, Staged, Before
  <2>2. \/ \E l, code : Answer(t, l, code, 0)
        \/ /\ RouteOf(t).after # "answer" /\ Goto(t, RouteOf(t).after) /\ reply' = reply
           /\ local' = [local EXCEPT ![t] = [local[t] EXCEPT !.wrote = TRUE]]
    BY <1>5, Zenon DEF Serve
  <2>3. CASE /\ RouteOf(t).after # "answer" /\ Goto(t, RouteOf(t).after) /\ reply' = reply
             /\ local' = [local EXCEPT ![t] = [local[t] EXCEPT !.wrote = TRUE]]
    <3>1. /\ RouteOf(t).after \in {"newest", "goal", "invalidate"}
          /\ RouteOf(t).after = "newest" => OpOf(t) = "createGoal"
          /\ RouteOf(t).after = "goal" => OpOf(t) = "contribute"
      BY <1>a, <2>1, <2>3 DEF Suits, OpOf
    <3>2. RouteOf(t).after \in Stages
      BY <3>1 DEF Stages
    <3>3. pc'[t] = RouteOf(t).after /\ local'[t] = [local[t] EXCEPT !.wrote = TRUE]
      BY <2>3, <3>2, GoneTo, Zenon
    <3>4. DOMAIN local'[t] = DOMAIN NoLocal /\ local'[t].wrote = TRUE
      BY <1>b, <3>3 DEF NoLocal
    <3>5. QED
      BY <1>0, <3>1, <3>3, <3>4 DEF Staged, Before, Reads, Listing
  <2>4. QED
    BY <1>c, <2>2, <2>3
<1>6. ASSUME ShowNewest(t) PROVE Staged(t)'
  <2>1. \E code, shown : Answer(t, local[t], code, shown)
    BY <1>6, Zenon DEF ShowNewest
  <2>2. QED
    BY <1>c, <2>1
<1>7. ASSUME ShowGoal(t) PROVE Staged(t)'
  <2>1. \E code, shown : Answer(t, local[t], code, shown)
    BY <1>7, Zenon DEF ShowGoal
  <2>2. QED
    BY <1>c, <2>1
<1>8. ASSUME Invalidate(t) PROVE Staged(t)'
  <2>1. \E code : Answer(t, local[t], code, 0)
    BY <1>8, Zenon DEF Invalidate
  <2>2. QED
    BY <1>c, <2>1
<1>9. ASSUME Lookup(t) PROVE Staged(t)'
  <2>1. pc[t] = "lookup"
    BY <1>9 DEF Lookup, Serving
  <2>2. (\E code : Answer(t, NoLocal, code, 0)) \/ Stay(t, "query")
    BY <1>9, Zenon DEF Lookup
  <2>3. CASE Stay(t, "query")
    <3>1. "query" \in Stages
      BY DEF Stages
    <3>2. pc'[t] = "query" /\ local'[t] = local[t]
      BY <2>3, <3>1, StayedAt
    <3>3. QED
      BY <1>0, <1>a, <1>b, <2>1, <3>2 DEF Staged, Before, Reads, Listing
  <2>4. QED
    BY <1>c, <2>2, <2>3
<1>10. ASSUME Query(t) PROVE Staged(t)'
  <2>1. pc[t] = "query"
    BY <1>10 DEF Query, Serving
  <2>2. pc' = [pc EXCEPT ![t] = "fill"] /\ local' = [local EXCEPT ![t].page = Page]
    BY <1>10, Zenon DEF Query, Goto
  <2>3. pc'[t] = "fill"
    BY <2>2 DEF ThreadsSound
  <2>4. DOMAIN local'[t] = DOMAIN local[t]
    BY <2>2, <1>b
  <2>5. QED
    BY <1>0, <1>a, <1>b, <2>1, <2>3, <2>4 DEF Staged, Before, Reads, Listing
<1>11. ASSUME Fill(t) PROVE Staged(t)'
  <2>1. \E code : Answer(t, NoLocal, code, 0)
    BY <1>11, Zenon DEF Fill
  <2>2. QED
    BY <1>c, <2>1
<1>12. ASSUME Ping(t) PROVE Staged(t)'
  <2>1. \E code : Answer(t, NoLocal, code, 0)
    BY <1>12, Zenon DEF Ping
  <2>2. QED
    BY <1>c, <2>1
<1>13. ASSUME NextPage(t) PROVE Staged(t)'
  <2> DEFINE page == IF request[t].route = "keyset"
                     THEN Keyset(request[t].acc, PageSize, local[t].cursor)
                     ELSE Offset(request[t].acc, PageSize,
                                 IF local[t].got = <<>> THEN 1 ELSE local[t].cursor)
             now == [local[t] EXCEPT !.got = @ \o page.items, !.cursor = page.cursor,
                        !.start = IF local[t].got = <<>> THEN Len(statements[request[t].acc])
                                  ELSE @]
  <2>1. pc[t] = "page"
    BY <1>13 DEF NextPage, Serving
  <2>2. \/ Answer(t, now, 200, 0)
        \/ Goto(t, "page") /\ local' = [local EXCEPT ![t] = now] /\ reply' = reply
    BY <1>13, Zenon DEF NextPage
  <2>3. CASE Goto(t, "page") /\ local' = [local EXCEPT ![t] = now] /\ reply' = reply
    <3>1. DOMAIN now = DOMAIN local[t]
      OBVIOUS
    <3> HIDE DEF now
    <3>2. "page" \in Stages
      BY DEF Stages
    <3>3. pc'[t] = "page" /\ local'[t] = now
      BY <2>3, <3>2, GoneTo, Zenon
    <3>4. QED
      BY <1>0, <1>a, <1>b, <2>1, <3>1, <3>3 DEF Staged, Before, Reads, Listing
  <2>4. QED
    BY <1>c, <2>2, <2>3
<1>14. ASSUME RunQuery(t) PROVE Staged(t)'
  <2> DEFINE query == RouteOf(t).reads[Cardinality(DOMAIN local[t].report) + 1]
             now == [local[t] EXCEPT
                        !.report = With(local[t].report, query, Value(query, request[t])),
                        !.start = IF local[t].report = <<>> THEN Rows(request[t]) ELSE @]
  <2>1. pc[t] = "report"
    BY <1>14 DEF RunQuery, Serving
  <2>2. \/ Answer(t, now, 200, 0)
        \/ Goto(t, "report") /\ local' = [local EXCEPT ![t] = now] /\ reply' = reply
    BY <1>14, Zenon DEF RunQuery
  <2>3. CASE Goto(t, "report") /\ local' = [local EXCEPT ![t] = now] /\ reply' = reply
    <3>1. DOMAIN now = DOMAIN local[t]
      OBVIOUS
    <3> HIDE DEF now
    <3>2. "report" \in Stages
      BY DEF Stages
    <3>3. pc'[t] = "report" /\ local'[t] = now
      BY <2>3, <3>2, GoneTo, Zenon
    <3>4. QED
      BY <1>0, <1>a, <1>b, <2>1, <3>1, <3>3 DEF Staged, Before, Reads, Listing
  <2>4. QED
    BY <1>c, <2>2, <2>3
<1>15. QED
  BY <1>1, <1>2, <1>3, <1>4, <1>5, <1>6, <1>7, <1>8, <1>9, <1>10, <1>11, <1>12, <1>13, <1>14
  DEF Advance

\* Where a thread stands, and what it has answered, when its request has arrived.
Welcomed(t) ==
    /\ pc'[t] \in {"idle", "check", "clean up", "serve", "lookup", "page", "ping", "report"}
    /\ reply'[t].code \in {0, 401, 403} /\ (reply'[t].code # 0 => ~reply'[t].wrote)

LEMMA Arrives ==
  ASSUME ThreadsSound, NEW t \in Threads, NEW r \in Requests, Arrive(t, r)
  PROVE  /\ pc[t] = "idle" /\ request' = [request EXCEPT ![t] = r] /\ request'[t] = r
         /\ OthersStay(t) /\ Staged(t)' /\ Welcomed(t)
<1>0. /\ pc[t] = "idle" /\ request' = [request EXCEPT ![t] = r] /\ request'[t] = r
      /\ RouteOf(t)' = Routes[r.route] /\ OpOf(t)' = Routes[r.route].op
      /\ request' \in [Threads -> Requests]
  <2>1. pc[t] = "idle" /\ request' = [request EXCEPT ![t] = r]
    BY Zenon DEF Arrive
  <2>2. request'[t] = r /\ request' \in [Threads -> Requests]
    BY <2>1 DEF ThreadsSound
  <2>3. QED
    BY <2>1, <2>2 DEF RouteOf, OpOf
<1>1. DOMAIN reply = Threads /\ local[t] = NoLocal
  BY <1>0, Zenon DEF ThreadsSound, Staged
<1>2. CASE CsrfRefuses(r) \/ AccountGone(r)
  <2>1. Answer(t, NoLocal, 403, 0) \/ Answer(t, NoLocal, 401, 0)
    BY <1>2, Zenon DEF Arrive
  <2>2. PICK code \in {401, 403} : Answer(t, NoLocal, code, 0)
    BY <2>1
  <2>3. /\ pc'[t] = "idle" /\ local'[t] = NoLocal /\ OthersStay(t)
        /\ reply'[t] = [code |-> code, wrote |-> NoLocal.wrote, shown |-> 0,
                        got |-> NoLocal.got, start |-> NoLocal.start, report |-> NoLocal.report]
    BY <2>2, AnswerGoes
  <2>4. reply'[t].code = code /\ ~reply'[t].wrote
    BY <2>3 DEF NoLocal
  <2>5. Staged(t)'
    BY <2>3, IdleIsStaged, Zenon
  <2>6. QED
    BY <1>0, <2>3, <2>4, <2>5 DEF Welcomed
<1>3. CASE ~(CsrfRefuses(r) \/ AccountGone(r))
  <2>1. /\ Goto(t, Entered(Routes[r.route])) /\ local' = local
        /\ reply' = [reply EXCEPT ![t] = NoReply]
    BY <1>3, Zenon DEF Arrive
  <2> DEFINE h == Routes[r.route]
  <2>2. r.route \in DOMAIN Routes /\ Suits(r.route, h)
    BY RequestFields, RoutesSuit, Zenon
  <2>3. /\ h.op = "none" => Entered(h) \in {"lookup", "page", "ping", "report"}
        /\ h.op # "none" => Entered(h) \in {"check", "clean up", "serve"}
        /\ Entered(h) = "lookup" => r.route \in {"list", "search"}
        /\ h.op = "register" => Entered(h) = "check"
    BY <2>2 DEF Suits, Entered, Checked
  <2>4. Entered(h) \in Stages
    BY <2>3 DEF Stages
  <2> HIDE DEF h
  <2>5. /\ pc' = [pc EXCEPT ![t] = Entered(h)] /\ pc \in [Threads -> Stages]
        /\ DOMAIN local = Threads
    BY <2>1, Zenon DEF Goto, ThreadsSound, h
  <2>6. pc'[t] = Entered(h) /\ local'[t] = NoLocal /\ reply'[t] = NoReply /\ OthersStay(t)
    BY <1>1, <2>1, <2>4, <2>5 DEF OthersStay
  <2>7. Staged(t)'
    <3>1. RouteOf(t)' = h /\ OpOf(t)' = h.op
      BY <1>0 DEF h
    <3>2. ~NoLocal.wrote
      BY DEF NoLocal
    <3>3. QED
      BY <1>0, <2>3, <2>6, <3>1, <3>2 DEF Staged, Before, Reads, Listing
  <2>8. QED
    <3>1. reply'[t].code = 0
      BY <2>6 DEF NoReply
    <3>2. pc'[t] \in {"check", "clean up", "serve", "lookup", "page", "ping", "report"}
      BY <2>3, <2>6
    <3>3. QED
      BY <1>0, <2>6, <2>7, <3>1, <3>2 DEF Welcomed
<1>4. QED
  BY <1>2, <1>3

LEMMA ThreadsSoundInit == ASSUME Init PROVE ThreadsSound
<1>1. /\ pc = [t \in Threads |-> "idle"] /\ local = [t \in Threads |-> NoLocal]
      /\ reply = [t \in Threads |-> NoReply]
      /\ request = [t \in Threads |-> CHOOSE r \in Requests : TRUE]
  BY Zenon DEF Init
<1>2. (CHOOSE r \in Requests : TRUE) \in Requests
  BY RequestsAssumption
<1>3. request \in [Threads -> Requests]
  BY <1>1, <1>2
<1>4. ASSUME NEW t \in Threads PROVE Staged(t)
  BY <1>1, <1>4 DEF Staged, Before, Reads, Listing
<1>5. pc \in [Threads -> Stages]
  BY <1>1 DEF Stages
<1>6. QED
  BY <1>1, <1>3, <1>4, <1>5 DEF ThreadsSound

\* A thread that stays keeps what is said of it.
LEMMA StayingIsStaged ==
  ASSUME ThreadsSound, NEW t, OthersStay(t), NEW u \in Threads, u # t,
         request'[u] = request[u]
  PROVE  Staged(u)'
<1>1. Staged(u)
  BY Zenon DEF ThreadsSound
<1>2. pc'[u] = pc[u] /\ local'[u] = local[u]
  BY Zenon DEF OthersStay
<1>3. RouteOf(u)' = RouteOf(u) /\ OpOf(u)' = OpOf(u)
  BY DEF RouteOf, OpOf
<1>4. QED
  BY <1>1, <1>2, <1>3 DEF Staged

LEMMA ThreadsSoundNext == ASSUME ThreadsSound, [Next]_vars PROVE ThreadsSound'
<1>1. ASSUME NEW t \in Threads, NEW r \in Requests, Arrive(t, r) PROVE ThreadsSound'
  <2>1. /\ request' = [request EXCEPT ![t] = r] /\ OthersStay(t) /\ Staged(t)'
    BY <1>1, Arrives, Zenon
  <2>2. request' \in [Threads -> Requests] /\ \A u \in Threads : u # t => request'[u] = request[u]
    BY <2>1 DEF ThreadsSound
  <2>3. \A u \in Threads : Staged(u)'
    BY <2>1, <2>2, StayingIsStaged, Zenon
  <2>4. QED
    BY <2>1, <2>2, <2>3, Zenon DEF ThreadsSound, OthersStay
<1>2. ASSUME NEW t \in Threads, Advance(t) PROVE ThreadsSound'
  <2>1. request' = request /\ OthersStay(t) /\ Staged(t)'
    BY <1>2, OneAdvances, StagedNext
  <2>2. \A u \in Threads : Staged(u)'
    BY <2>1, StayingIsStaged, Zenon
  <2>3. request' \in [Threads -> Requests]
    BY <2>1 DEF ThreadsSound
  <2>4. QED
    BY <2>1, <2>2, <2>3, Zenon DEF ThreadsSound, OthersStay
<1>3. ASSUME UNCHANGED threadVars PROVE ThreadsSound'
  BY <1>3 DEF threadVars, ThreadsSound, Staged, RouteOf, OpOf
<1>4. QED
  <2>1. Tick \/ Outage \/ Closing \/ UNCHANGED vars => UNCHANGED threadVars
    BY DEF Tick, Outage, Closing, vars, threadVars
  <2>2. QED
    BY <1>1, <1>2, <1>3, <2>1, Zenon DEF Next

\* Every stage a thread reaches goes with its route.
LEMMA ThreadsStay == Spec => []ThreadsSound
<1>1. QED
  BY ThreadsSoundInit, ThreadsSoundNext, PTL DEF Spec

-------------------------------------------------------------------------------
(* Requests that meet *)

LEMMA MeetingsSeenInit == ASSUME Init PROVE MeetingsSeen
<1>1. \A t \in Threads : ~Pending(t)
  BY DEF Init, Pending
<1>2. QED
  BY <1>1, Zenon DEF MeetingsSeen

LEMMA MeetingsSeenNext == ASSUME ThreadsSound, MeetingsSeen, [Next]_vars PROVE MeetingsSeen'
<1>1. ASSUME NEW t \in Threads, NEW r \in Requests, Arrive(t, r) PROVE MeetingsSeen'
  <2>1. /\ pc[t] = "idle" /\ request' = [request EXCEPT ![t] = r] /\ request'[t] = r
        /\ OthersStay(t)
    BY <1>1, Arrives, Zenon
  <2>2. crowded' = crowded \cup UNION {Meeting(request[u], r) : u \in {v \in Threads : pc[v] # "idle"}}
    BY <1>1, Zenon DEF Arrive
  <2>3. \A u \in Threads : u # t => request'[u] = request[u]
    BY <2>1 DEF ThreadsSound
  <2>4. ASSUME NEW u \in Threads, u # t, Pending(u)'
        PROVE  Meeting(request'[u], r) \subseteq crowded'
    <3>1. pc[u] # "idle" /\ request'[u] = request[u]
      BY <2>1, <2>3, <2>4 DEF Pending, OthersStay
    <3>2. QED
      BY <2>2, <3>1
  <2>5. ASSUME NEW u \in Threads, NEW v \in Threads, u # v, Pending(u)', Pending(v)'
        PROVE  Meeting(request'[u], request'[v]) \subseteq crowded'
    <3>1. CASE u = t
      BY <2>1, <2>4, <2>5, <3>1, MeetingSymmetric
    <3>2. CASE v = t
      BY <2>1, <2>4, <2>5, <3>2
    <3>3. CASE u # t /\ v # t
      <4>1. Pending(u) /\ Pending(v) /\ request'[u] = request[u] /\ request'[v] = request[v]
        BY <2>1, <2>3, <2>5, <3>3 DEF Pending, OthersStay
      <4>2. Meeting(request[u], request[v]) \subseteq crowded
        BY <2>5, <4>1, Zenon DEF MeetingsSeen
      <4>3. QED
        BY <2>2, <4>1, <4>2
    <3>4. QED
      BY <3>1, <3>2, <3>3
  <2>6. QED
    BY <2>5, Zenon DEF MeetingsSeen
<1>2. ASSUME NEW t \in Threads, Advance(t) PROVE MeetingsSeen'
  <2>1. Pending(t) /\ request' = request /\ OthersStay(t) /\ crowded' = crowded
    BY <1>2, OneAdvances, Zenon
  <2>2. ASSUME NEW u \in Threads, Pending(u)' PROVE Pending(u)
    BY <2>1, <2>2 DEF Pending, OthersStay
  <2>3. QED
    BY <2>1, <2>2 DEF MeetingsSeen
<1>3. ASSUME UNCHANGED <<pc, request, crowded>> PROVE MeetingsSeen'
  BY <1>3 DEF MeetingsSeen, Pending
<1>4. QED
  <2>1. Tick \/ Outage \/ Closing \/ UNCHANGED vars => UNCHANGED <<pc, request, crowded>>
    BY DEF Tick, Outage, Closing, vars, threadVars, history
  <2>2. QED
    BY <1>1, <1>2, <1>3, <2>1, Zenon DEF Next

LEMMA MeetingsStay == Spec => []MeetingsSeen
<1>1. MeetingsSeen /\ ThreadsSound /\ [Next]_vars => MeetingsSeen'
  BY MeetingsSeenNext
<1>2. QED
  BY <1>1, MeetingsSeenInit, ThreadsStay, PTL DEF Spec

\* An account that is not crowded is one pending request's only, and so are its goals.
LEMMA Alone ==
  ASSUME ThreadsSound, MeetingsSeen, NEW t \in Threads, NEW u \in Threads, t # u,
         Pending(t), Pending(u), request[t].acc \notin crowded
  PROVE  /\ request[u].acc # request[t].acc /\ request[u].to # request[t].acc
         /\ OpOf(t) \in GoalCalls /\ OpOf(u) \in GoalCalls => request[u].goal # request[t].goal
<1>1. Meeting(request[t], request[u]) \subseteq crowded
  BY Zenon DEF MeetingsSeen
<1>2. request[t] \in Requests /\ request[u] \in Requests
  BY AtStage, Zenon
<1>3. request[t].acc \in Parties(request[t]) /\ request[u].acc \in Parties(request[u])
      /\ request[u].to \in Parties(request[u])
  BY <1>2, RequestFields, Zenon
<1>4. Parties(request[t]) \cap Parties(request[u]) \subseteq crowded
  BY <1>1, Zenon DEF Meeting
<1>5. ASSUME OpOf(t) \in GoalCalls, OpOf(u) \in GoalCalls, request[u].goal = request[t].goal
      PROVE  FALSE
  <2>1. {Routes[request[t].route].op, Routes[request[u].route].op} \subseteq GoalCalls
    BY <1>5 DEF OpOf, RouteOf
  <2>2. request[t].goal = request[u].goal
    BY <1>5
  <2>3. Meeting(request[t], request[u])
          = (Parties(request[t]) \cap Parties(request[u])) \cup {request[t].acc, request[u].acc}
    BY <2>1, <2>2, Zenon DEF Meeting
  <2>4. QED
    BY <1>1, <2>3
<1>6. QED
  BY <1>3, <1>4, <1>5

-------------------------------------------------------------------------------
(* The limiter *)

\* Only the stages of the limiter touch its lists, and only they lead to one another.
Elsewhere(t) ==
    /\ pc'[t] \notin {"count", "record"}
    /\ UNCHANGED <<operations, admitted, clock>>

LEMMA OnlyTheLimiter ==
  ASSUME ThreadsSound, NEW t \in Threads, Advance(t),
         ~CleanUp(t), ~CountOperations(t), ~Record(t)
  PROVE  Elsewhere(t)
<1>a. ASSUME NEW l, NEW code, NEW shown, Answer(t, l, code, shown)
      PROVE  pc'[t] \notin {"count", "record"}
  <2>1. pc'[t] = "idle"
    BY <1>a, AnswerGoes, Zenon
  <2>2. QED
    BY <2>1
<1>b. ASSUME NEW stage \in Stages, Goto(t, stage) PROVE pc'[t] = stage
  <2>1. pc \in [Threads -> Stages] /\ pc' = [pc EXCEPT ![t] = stage]
    BY <1>b, Zenon DEF ThreadsSound, Goto
  <2>2. QED
    BY <2>1
<1>c. "query" \in Stages /\ "fill" \in Stages /\ "page" \in Stages /\ "report" \in Stages
  BY DEF Stages
<1>d. Staged(t) /\ Suits(request[t].route, RouteOf(t))
  BY AtStage, Zenon
<1>1. ASSUME Check(t) PROVE Elsewhere(t)
  <2>1. UNCHANGED <<operations, admitted, clock>> /\ pc[t] = "check"
    BY <1>1 DEF Check, history, Serving
  <2>2. \/ \E code : Answer(t, NoLocal, code, 0)
        \/ Goto(t, Checked(RouteOf(t)))
    BY <1>1, Zenon DEF Check, Stay
  <2>3. Checked(RouteOf(t)) \in {"clean up", "serve"}
    BY <1>d, <2>1 DEF Staged, Before, Checked, OpOf
  <2>4. Checked(RouteOf(t)) \in Stages
    BY <2>3 DEF Stages
  <2>5. pc'[t] \notin {"count", "record"}
    BY <1>a, <1>b, <2>2, <2>3, <2>4
  <2>6. QED
    BY <2>1, <2>5 DEF Elsewhere
<1>5. ASSUME Serve(t) PROVE Elsewhere(t)
  <2>1. UNCHANGED <<operations, admitted, clock>> /\ pc[t] = "serve"
    BY <1>5 DEF Serve, Serving
  <2>2. \/ \E l, code : Answer(t, l, code, 0)
        \/ RouteOf(t).after # "answer" /\ Goto(t, RouteOf(t).after)
    BY <1>5, Zenon DEF Serve
  <2>3. RouteOf(t).after \in {"answer", "newest", "goal", "invalidate"}
    BY <1>d, <2>1 DEF Staged, Before, Suits, OpOf
  <2>4. RouteOf(t).after \in Stages \cup {"answer"}
    BY <2>3 DEF Stages
  <2>5. pc'[t] \notin {"count", "record"}
    <3>1. CASE \E l, code : Answer(t, l, code, 0)
      BY <1>a, <3>1
    <3>2. CASE RouteOf(t).after # "answer" /\ Goto(t, RouteOf(t).after)
      <4>1. RouteOf(t).after \in Stages
        BY <2>4, <3>2, Zenon
      <4>2. pc'[t] = RouteOf(t).after
        BY <1>b, <3>2, <4>1, Zenon
      <4>3. QED
        BY <2>3, <4>2
    <3>3. QED
      BY <2>2, <3>1, <3>2
  <2>6. QED
    BY <2>1, <2>5 DEF Elsewhere
<1>6. ASSUME ShowNewest(t) PROVE Elsewhere(t)
  <2>1. UNCHANGED <<operations, admitted, clock>>
    BY <1>6 DEF ShowNewest, history
  <2>2. \E code, shown : Answer(t, local[t], code, shown)
    BY <1>6, Zenon DEF ShowNewest
  <2>3. QED
    BY <1>a, <2>1, <2>2 DEF Elsewhere
<1>7. ASSUME ShowGoal(t) PROVE Elsewhere(t)
  <2>1. UNCHANGED <<operations, admitted, clock>>
    BY <1>7 DEF ShowGoal, history
  <2>2. \E code, shown : Answer(t, local[t], code, shown)
    BY <1>7, Zenon DEF ShowGoal
  <2>3. QED
    BY <1>a, <2>1, <2>2 DEF Elsewhere
<1>8. ASSUME Invalidate(t) PROVE Elsewhere(t)
  <2>1. UNCHANGED <<operations, admitted, clock>>
    BY <1>8 DEF Invalidate
  <2>2. \E code : Answer(t, local[t], code, 0)
    BY <1>8, Zenon DEF Invalidate
  <2>3. QED
    BY <1>a, <2>1, <2>2 DEF Elsewhere
<1>9. ASSUME Lookup(t) PROVE Elsewhere(t)
  <2>1. UNCHANGED <<operations, admitted, clock>>
    BY <1>9 DEF Lookup, history
  <2>2. (\E code : Answer(t, NoLocal, code, 0)) \/ Goto(t, "query")
    BY <1>9, Zenon DEF Lookup, Stay
  <2>3. QED
    BY <1>a, <1>b, <1>c, <2>1, <2>2 DEF Elsewhere
<1>10. ASSUME Query(t) PROVE Elsewhere(t)
  <2>1. UNCHANGED <<operations, admitted, clock>> /\ Goto(t, "fill")
    BY <1>10 DEF Query, history
  <2>2. QED
    BY <1>b, <1>c, <2>1 DEF Elsewhere
<1>11. ASSUME Fill(t) PROVE Elsewhere(t)
  <2>1. UNCHANGED <<operations, admitted, clock>>
    BY <1>11 DEF Fill, history
  <2>2. \E code : Answer(t, NoLocal, code, 0)
    BY <1>11, Zenon DEF Fill
  <2>3. QED
    BY <1>a, <2>1, <2>2 DEF Elsewhere
<1>12. ASSUME Ping(t) PROVE Elsewhere(t)
  <2>1. UNCHANGED <<operations, admitted, clock>>
    BY <1>12 DEF Ping, history
  <2>2. \E code : Answer(t, NoLocal, code, 0)
    BY <1>12, Zenon DEF Ping
  <2>3. QED
    BY <1>a, <2>1, <2>2 DEF Elsewhere
<1>13. ASSUME NextPage(t) PROVE Elsewhere(t)
  <2>1. UNCHANGED <<operations, admitted, clock>>
    BY <1>13 DEF NextPage, history
  <2>2. (\E l : Answer(t, l, 200, 0)) \/ Goto(t, "page")
    BY <1>13, Zenon DEF NextPage
  <2>3. QED
    BY <1>a, <1>b, <1>c, <2>1, <2>2 DEF Elsewhere
<1>14. ASSUME RunQuery(t) PROVE Elsewhere(t)
  <2>1. UNCHANGED <<operations, admitted, clock>>
    BY <1>14 DEF RunQuery, history
  <2>2. (\E l : Answer(t, l, 200, 0)) \/ Goto(t, "report")
    BY <1>14, Zenon DEF RunQuery
  <2>3. QED
    BY <1>a, <1>b, <1>c, <2>1, <2>2 DEF Elsewhere
<1>15. QED
  BY <1>1, <1>5, <1>6, <1>7, <1>8, <1>9, <1>10, <1>11, <1>12, <1>13, <1>14, Zenon DEF Advance

\* What the limiter's own stages do.
LEMMA CleansUp ==
  ASSUME ThreadsSound, NEW t \in Threads, CleanUp(t)
  PROVE  /\ UNCHANGED <<operations, admitted, clock>> /\ pc'[t] = "count"
         /\ local'[t].kept = Kept(operations[request[t].acc], InWindow(clock))
<1>1. /\ UNCHANGED <<operations, admitted, clock>> /\ pc' = [pc EXCEPT ![t] = "count"]
      /\ local' = [local EXCEPT ![t].kept = Kept(operations[request[t].acc], InWindow(clock))]
  BY DEF CleanUp, Goto, history
<1>2. DOMAIN local = Threads /\ DOMAIN local[t] = DOMAIN NoLocal /\ pc \in [Threads -> Stages]
  BY Zenon DEF ThreadsSound, Staged
<1>3. "kept" \in DOMAIN NoLocal
  BY DEF NoLocal
<1>4. QED
  BY <1>1, <1>2, <1>3

LEMMA Counts ==
  ASSUME ThreadsSound, NEW t \in Threads, CountOperations(t)
  PROVE  /\ UNCHANGED <<admitted, clock>> /\ pc[t] = "count"
         /\ operations' = [operations EXCEPT ![request[t].acc] = local[t].kept]
         /\ pc'[t] = "idle" \/ (pc'[t] = "record" /\ ~Full(Len(local[t].kept)))
<1>1. /\ UNCHANGED <<admitted, clock>> /\ pc[t] = "count"
      /\ operations' = [operations EXCEPT ![request[t].acc] = local[t].kept]
  BY DEF CountOperations, history, Serving
<1>2. CASE Full(Len(local[t].kept))
  <2>1. Answer(t, NoLocal, 429, 0)
    BY <1>2, Zenon DEF CountOperations
  <2>2. pc'[t] = "idle"
    BY <2>1, AnswerGoes, Zenon
  <2>3. QED
    BY <1>1, <2>2
<1>3. CASE ~Full(Len(local[t].kept))
  <2>1. Stay(t, "record")
    BY <1>3, Zenon DEF CountOperations
  <2>2. "record" \in Stages
    BY DEF Stages
  <2>3. pc'[t] = "record"
    BY <2>1, <2>2, StayedAt, Zenon
  <2>4. QED
    BY <1>1, <1>3, <2>3
<1>4. QED
  BY <1>2, <1>3

LEMMA Records ==
  ASSUME ThreadsSound, NEW t \in Threads, Record(t)
  PROVE  /\ UNCHANGED clock /\ pc[t] = "record" /\ pc'[t] = "serve"
         /\ operations' = [operations EXCEPT ![request[t].acc] = Append(@, clock)]
         /\ admitted' = [admitted EXCEPT ![request[t].acc] = Append(@, clock)]
<1>1. /\ UNCHANGED clock /\ pc[t] = "record" /\ Stay(t, "serve")
      /\ operations' = [operations EXCEPT ![request[t].acc] = Append(@, clock)]
      /\ admitted' = [admitted EXCEPT ![request[t].acc] = Append(@, clock)]
  BY DEF Record, Serving
<1>2. "serve" \in Stages
  BY DEF Stages
<1>3. pc'[t] = "serve"
  BY <1>1, <1>2, StayedAt, Zenon
<1>4. QED
  BY <1>1, <1>3

\* The constants of the limiter are positive.
LEMMA LimiterConstants == MaxOps \in Nat /\ MaxOps > 0 /\ Window \in Nat /\ Window > 0
BY ApiAssumption

LEMMA SeqWider ==
  ASSUME NEW n \in Nat, NEW m \in Nat, n <= m, NEW s \in Seq(0 .. n)
  PROVE  s \in Seq(0 .. m)
<1>1. Len(s) \in Nat /\ DOMAIN s = 1 .. Len(s) /\ \A i \in 1 .. Len(s) : s[i] \in 0 .. n
  OBVIOUS
<1>2. \A i \in 1 .. Len(s) : s[i] \in 0 .. m
  BY <1>1
<1>3. QED
  BY <1>1, <1>2

LEMMA TimesKnownInit == ASSUME Init PROVE TimesKnown
<1>1. /\ clock = 0 /\ operations = [a \in Accounts |-> <<>>]
      /\ admitted = [a \in Accounts |-> <<>>] /\ pc = [t \in Threads |-> "idle"]
  BY DEF Init
<1>2. <<>> \in Seq(0 .. clock)
  OBVIOUS
<1>3. operations \in [Accounts -> Seq(0 .. clock)] /\ admitted \in [Accounts -> Seq(0 .. clock)]
  BY <1>1, <1>2, Zenon
<1>4. QED
  BY <1>1, <1>3 DEF TimesKnown

\* A step of the limiter leaves the threads that are about to count as they were.
LEMMA KeptElsewhere ==
  ASSUME TimesKnown, NEW t \in Threads, OthersStay(t), UNCHANGED clock
  PROVE  \A u \in Threads : u # t /\ pc'[u] = "count" => local'[u].kept \in Seq(0 .. clock')
BY DEF TimesKnown, OthersStay

LEMMA TimesKnownNext == ASSUME ThreadsSound, TimesKnown, [Next]_vars PROVE TimesKnown'
<1>0. /\ clock \in Nat /\ operations \in [Accounts -> Seq(0 .. clock)]
      /\ admitted \in [Accounts -> Seq(0 .. clock)]
      /\ \A t \in Threads : pc[t] = "count" => local[t].kept \in Seq(0 .. clock)
  BY DEF TimesKnown
<1>1. ASSUME NEW t \in Threads, NEW r \in Requests, Arrive(t, r) PROVE TimesKnown'
  <2>1. OthersStay(t) /\ Welcomed(t)
    BY <1>1, Arrives, Zenon
  <2>2. UNCHANGED <<operations, admitted, clock>>
    BY <1>1 DEF Arrive
  <2>3. pc'[t] # "count"
    BY <2>1 DEF Welcomed
  <2>4. \A u \in Threads : pc'[u] = "count" => local'[u].kept \in Seq(0 .. clock')
    BY <2>1, <2>2, <2>3, KeptElsewhere
  <2>5. QED
    BY <1>0, <2>2, <2>4 DEF TimesKnown
<1>2. ASSUME NEW t \in Threads, Advance(t) PROVE TimesKnown'
  <2>0. OthersStay(t) /\ request[t].acc \in Accounts
    <3>1. request[t] \in Requests
      BY AtStage, Zenon
    <3>2. QED
      BY <1>2, <3>1, OneAdvances, RequestFields, Zenon
  <2>1. CASE CleanUp(t)
    <3>1. /\ UNCHANGED <<operations, admitted, clock>> /\ pc'[t] = "count"
          /\ local'[t].kept = Kept(operations[request[t].acc], InWindow(clock))
      BY <2>1, CleansUp
    <3>2. operations[request[t].acc] \in Seq(0 .. clock)
      BY <1>0, <2>0
    <3>3. local'[t].kept \in Seq(0 .. clock')
      BY <3>1, <3>2, KeptTyped
    <3>4. \A u \in Threads : pc'[u] = "count" => local'[u].kept \in Seq(0 .. clock')
      BY <2>0, <3>1, <3>3, KeptElsewhere
    <3>5. QED
      BY <1>0, <3>1, <3>4 DEF TimesKnown
  <2>2. CASE CountOperations(t)
    <3>1. /\ UNCHANGED <<admitted, clock>> /\ pc[t] = "count" /\ pc'[t] \in {"idle", "record"}
          /\ operations' = [operations EXCEPT ![request[t].acc] = local[t].kept]
      BY <2>2, Counts
    <3>2. \A u \in Threads : pc'[u] = "count" => local'[u].kept \in Seq(0 .. clock')
      BY <2>0, <3>1, KeptElsewhere
    <3>3. operations' \in [Accounts -> Seq(0 .. clock')]
      <4>1. local[t].kept \in Seq(0 .. clock)
        BY <1>0, <3>1
      <4>2. QED
        BY <1>0, <3>1, <4>1
    <3>4. QED
      BY <1>0, <3>1, <3>2, <3>3 DEF TimesKnown
  <2>3. CASE Record(t)
    <3>1. /\ UNCHANGED clock /\ pc[t] = "record" /\ pc'[t] = "serve"
          /\ operations' = [operations EXCEPT ![request[t].acc] = Append(@, clock)]
          /\ admitted' = [admitted EXCEPT ![request[t].acc] = Append(@, clock)]
      BY <2>3, Records
    <3>2. \A u \in Threads : pc'[u] = "count" => local'[u].kept \in Seq(0 .. clock')
      BY <2>0, <3>1, KeptElsewhere
    <3>3. ASSUME NEW f \in [Accounts -> Seq(0 .. clock)],
                 NEW g, g = [f EXCEPT ![request[t].acc] = Append(@, clock)]
          PROVE  g \in [Accounts -> Seq(0 .. clock)]
      <4>1. f[request[t].acc] \in Seq(0 .. clock) /\ clock \in 0 .. clock
        BY <1>0, <2>0
      <4>2. Append(f[request[t].acc], clock) \in Seq(0 .. clock)
        BY <4>1
      <4>3. QED
        BY <3>3, <4>2
    <3>4. operations' \in [Accounts -> Seq(0 .. clock)] /\ admitted' \in [Accounts -> Seq(0 .. clock)]
      BY <1>0, <3>1, <3>3
    <3>5. QED
      BY <1>0, <3>1, <3>2, <3>4 DEF TimesKnown
  <2>4. CASE ~CleanUp(t) /\ ~CountOperations(t) /\ ~Record(t)
    <3>1. Elsewhere(t)
      BY <1>2, <2>4, OnlyTheLimiter
    <3>2. \A u \in Threads : pc'[u] = "count" => local'[u].kept \in Seq(0 .. clock')
      BY <2>0, <3>1, KeptElsewhere DEF Elsewhere
    <3>3. QED
      BY <1>0, <3>1, <3>2 DEF TimesKnown, Elsewhere
  <2>5. QED
    BY <2>1, <2>2, <2>3, <2>4
<1>3. ASSUME Tick PROVE TimesKnown'
  <2>1. clock' = clock + 1 /\ UNCHANGED <<operations, admitted, pc, local>>
    BY <1>3 DEF Tick, threadVars, history
  <2>2. clock' \in Nat /\ clock <= clock'
    BY <1>0, <2>1
  <2>3. \A s \in Seq(0 .. clock) : s \in Seq(0 .. clock')
    BY <1>0, <2>2, SeqWider
  <2>4. operations' \in [Accounts -> Seq(0 .. clock')] /\ admitted' \in [Accounts -> Seq(0 .. clock')]
    BY <1>0, <2>1, <2>3
  <2>5. \A t \in Threads : pc'[t] = "count" => local'[t].kept \in Seq(0 .. clock')
    BY <1>0, <2>1, <2>3
  <2>6. QED
    BY <2>2, <2>4, <2>5 DEF TimesKnown
<1>4. ASSUME UNCHANGED <<operations, admitted, clock, pc, local>> PROVE TimesKnown'
  BY <1>4 DEF TimesKnown
<1>5. QED
  <2>1. Outage \/ Closing \/ UNCHANGED vars => UNCHANGED <<operations, admitted, clock, pc, local>>
    BY DEF Outage, Closing, vars, threadVars, history
  <2>2. QED
    BY <1>1, <1>2, <1>3, <1>4, <2>1, Zenon DEF Next

LEMMA TimesStay == Spec => []TimesKnown
<1>1. TimesKnown /\ ThreadsSound /\ [Next]_vars => TimesKnown'
  BY TimesKnownNext
<1>2. QED
  BY <1>1, TimesKnownInit, ThreadsStay, PTL DEF Spec

\* How often the limiter has let an account pass within a window.
InSpan(ts) == ts .. ts + Window - 1
Bounded(a) == \A ts \in 0 .. clock : Cardinality(Places(admitted[a], InSpan(ts))) <= MaxOps

LEMMA LimiterIsBounded == LimiterHolds <=> \A a \in Accounts \ crowded : Bounded(a)
BY Zenon DEF LimiterHolds, Bounded, Places, InSpan

\* Later windows look no further back, at any list.
LEMMA LaterWindow ==
  ASSUME NEW c \in Nat, NEW d \in Nat, c <= d, NEW n \in Nat
  PROVE  \A s \in Seq(0 .. n) : Kept(Kept(s, InWindow(c)), InWindow(d)) = Kept(s, InWindow(d))
<1>1. InWindow(c) \cap InWindow(d) = InWindow(d)
  <2>1. ASSUME NEW ts \in Nat, ts > d - Window PROVE ts > c - Window
    BY <2>1, LimiterConstants
  <2>2. QED
    BY <2>1 DEF InWindow
<1>2. ASSUME NEW s \in Seq(0 .. n)
      PROVE  Kept(Kept(s, InWindow(c)), InWindow(d)) = Kept(s, InWindow(c) \cap InWindow(d))
  BY KeptTwice
<1>3. QED
  BY <1>1, <1>2

\* A list of times, with the latest.
LEMMA KeptOfNow ==
  ASSUME NEW n \in Nat, NEW S
  PROVE  \A s \in Seq(0 .. n) :
             Kept(Append(s, n), S) = IF n \in S THEN Append(Kept(s, S), n) ELSE Kept(s, S)
<1> DEFINE T == 0 .. n
<1>1. n \in T
  OBVIOUS
<1>2. ASSUME NEW s \in Seq(T)
      PROVE  Kept(Append(s, n), S) = IF n \in S THEN Append(Kept(s, S), n) ELSE Kept(s, S)
  <2> HIDE DEF T
  <2>1. QED
    BY <1>1, KeptOfMore
<1>3. QED
  BY <1>2

\* One more operation, in a window that is not full.
LEMMA OneMoreFits ==
  ASSUME NEW n \in Nat, NEW s \in Seq(0 .. n), NEW ops \in Seq(0 .. n), Len(ops) < MaxOps,
         Kept(ops, InWindow(n)) = Kept(s, InWindow(n)), NEW ts \in 0 .. n,
         Cardinality(Places(s, InSpan(ts))) <= MaxOps
  PROVE  Cardinality(Places(Append(s, n), InSpan(ts))) <= MaxOps
<1> DEFINE S == InSpan(ts)
           W == InWindow(n)
<1>1. n \in 0 .. n /\ Append(s, n) \in Seq(0 .. n)
  OBVIOUS
<1>2. /\ IsFiniteSet(Places(s, S)) /\ Cardinality(Places(s, S)) = Len(Kept(s, S))
      /\ IsFiniteSet(Places(s, W)) /\ Cardinality(Places(s, W)) = Len(Kept(s, W))
      /\ Cardinality(Places(Append(s, n), S)) = Len(Kept(Append(s, n), S))
  BY <1>1, KeptCounts
<1>3. Kept(Append(s, n), S) = IF n \in S THEN Append(Kept(s, S), n) ELSE Kept(s, S)
  BY KeptOfNow
<1>4. Kept(s, S) \in Seq(0 .. n)
  BY KeptTyped
<1>5. CASE n \notin S
  BY <1>2, <1>3, <1>5
<1>6. CASE n \in S
  <2>1. Places(s, S) \subseteq Places(s, W)
    <3>1. ASSUME NEW i \in DOMAIN s, s[i] \in S PROVE s[i] \in W
      <4>1. s[i] \in Nat /\ ts <= s[i] /\ n <= ts + Window - 1
        BY <1>6, <3>1, LimiterConstants DEF InSpan
      <4>2. s[i] > n - Window
        BY <4>1, LimiterConstants
      <4>3. QED
        BY <4>1, <4>2 DEF InWindow
    <3>2. QED
      BY <3>1 DEF Places
  <2>2. Cardinality(Places(s, S)) <= Cardinality(Places(s, W))
    BY <1>2, <2>1, FS_Subset
  <2>3. Len(Kept(s, W)) <= Len(ops)
    BY KeptTyped
  <2>4. Len(Kept(Append(s, n), S)) = Len(Kept(s, S)) + 1
    BY <1>3, <1>4, <1>6
  <2>5. /\ Len(Kept(s, S)) \in Nat /\ Len(Kept(s, W)) \in Nat /\ Len(ops) \in Nat
    <3>1. Kept(s, W) \in Seq(0 .. n)
      BY KeptTyped
    <3>2. QED
      BY <1>4, <3>1
  <2> HIDE DEF S, W
  <2>6. QED
    BY <1>2, <2>2, <2>3, <2>4, <2>5, LimiterConstants DEF S
<1>7. QED
  BY <1>5, <1>6

LEMMA LimiterSoundInit == ASSUME Init PROVE LimiterSound
<1>1. /\ clock = 0 /\ operations = [a \in Accounts |-> <<>>]
      /\ admitted = [a \in Accounts |-> <<>>] /\ pc = [t \in Threads |-> "idle"]
  BY DEF Init
<1>2. \A a \in Accounts : SameWindows(a)
  BY <1>1 DEF SameWindows
<1>3. ASSUME NEW a \in Accounts, NEW ts \in 0 .. clock
      PROVE  Cardinality(Places(admitted[a], InSpan(ts))) <= MaxOps
  <2>1. admitted[a] = <<>>
    BY <1>1
  <2>2. Places(<<>>, InSpan(ts)) = {}
    BY DEF Places
  <2>3. Cardinality({}) = 0
    BY FS_EmptySet
  <2>4. Cardinality(Places(admitted[a], InSpan(ts))) = 0
    BY <2>1, <2>2, <2>3
  <2>5. QED
    BY <2>4, LimiterConstants
<1>4. LimiterHolds
  BY <1>3, LimiterIsBounded DEF Bounded
<1>5. QED
  BY <1>1, <1>2, <1>4 DEF LimiterSound

\* A thread of another account than a finds what it has looked for.
Untangled(t) ==
    request[t].acc \notin crowded =>
        /\ pc[t] = "count" => Looked(t)
        /\ pc[t] = "record" => Len(operations[request[t].acc]) < MaxOps

LEMMA UntangledStay ==
  ASSUME NEW u \in Threads, Untangled(u), crowded \subseteq crowded', UNCHANGED clock,
         request'[u] = request[u], pc'[u] = pc[u], local'[u] = local[u],
         request[u].acc \notin crowded => operations'[request[u].acc] = operations[request[u].acc]
  PROVE  Untangled(u)'
BY DEF Untangled, Looked

LEMMA LimiterSoundNext ==
  ASSUME ThreadsSound, MeetingsSeen, TimesKnown, LimiterSound, [Next]_vars
  PROVE  LimiterSound'
<1>0. /\ clock \in Nat /\ operations \in [Accounts -> Seq(0 .. clock)]
      /\ admitted \in [Accounts -> Seq(0 .. clock)]
  BY DEF TimesKnown
<1>a. /\ \A a \in Accounts \ crowded : SameWindows(a)
      /\ \A t \in Threads : Untangled(t)
      /\ \A a \in Accounts \ crowded : Bounded(a)
  BY LimiterIsBounded, Zenon DEF LimiterSound, Untangled
<1>b. ASSUME \A a \in Accounts \ crowded' : SameWindows(a)' /\ Bounded(a)',
             \A t \in Threads : Untangled(t)'
      PROVE  LimiterSound'
  <2>1. LimiterHolds' <=> \A a \in Accounts \ crowded' : Bounded(a)'
    BY Zenon DEF LimiterHolds, Bounded, Places, InSpan
  <2>2. QED
    BY <1>b, <2>1, Zenon DEF LimiterSound, Untangled
<1>c. ASSUME UNCHANGED <<operations, admitted, clock>>, NEW a, SameWindows(a), Bounded(a)
      PROVE  SameWindows(a)' /\ Bounded(a)'
  BY <1>c DEF SameWindows, Bounded
<1>1. ASSUME NEW t \in Threads, NEW r \in Requests, Arrive(t, r) PROVE LimiterSound'
  <2>1. /\ request' = [request EXCEPT ![t] = r] /\ OthersStay(t) /\ Welcomed(t)
    BY <1>1, Arrives, Zenon
  <2>2. UNCHANGED <<operations, admitted, clock>> /\ crowded \subseteq crowded'
    BY <1>1 DEF Arrive
  <2>3. Untangled(t)'
    <3>1. pc'[t] \notin {"count", "record"}
      BY <2>1 DEF Welcomed
    <3>2. QED
      BY <3>1 DEF Untangled
  <2>4. ASSUME NEW u \in Threads, u # t PROVE Untangled(u)'
    <3>1. request'[u] = request[u] /\ pc'[u] = pc[u] /\ local'[u] = local[u]
      BY <2>1, <2>4 DEF ThreadsSound, OthersStay
    <3>2. QED
      BY <1>a, <2>2, <3>1, UntangledStay
  <2>5. \A a \in Accounts \ crowded' : SameWindows(a)' /\ Bounded(a)'
    BY <1>a, <1>c, <2>2
  <2>6. QED
    BY <1>b, <2>3, <2>4, <2>5
<1>2. ASSUME NEW t \in Threads, Advance(t) PROVE LimiterSound'
  <2> DEFINE b == request[t].acc
  <2>0. /\ OthersStay(t) /\ request' = request /\ Pending(t) /\ crowded' = crowded
        /\ b \in Accounts
    <3>1. request[t] \in Requests
      BY AtStage, Zenon
    <3>2. QED
      BY <1>2, <3>1, OneAdvances, RequestFields, Zenon
  <2>a. ASSUME UNCHANGED clock, \A a \in Accounts : a # b => operations'[a] = operations[a],
               NEW u \in Threads, u # t
        PROVE  Untangled(u)'
    <3>1. pc'[u] = pc[u] /\ local'[u] = local[u] /\ request'[u] = request[u]
      BY <2>0, <2>a DEF OthersStay
    <3>2. CASE pc[u] = "idle"
      BY <3>1, <3>2 DEF Untangled
    <3>3. CASE pc[u] # "idle" /\ request[u].acc \notin crowded
      <4>1. request[u].acc # b
        BY <2>0, <2>a, <3>3, Alone, Zenon DEF Pending
      <4>2. request[u].acc \in Accounts
        BY AtStage, RequestFields, Zenon
      <4>3. operations'[request[u].acc] = operations[request[u].acc]
        BY <2>a, <4>1, <4>2
      <4>4. QED
        BY <1>a, <2>0, <2>a, <3>1, <4>3, UntangledStay
    <3>4. CASE request[u].acc \in crowded
      BY <2>0, <3>1, <3>4 DEF Untangled
    <3>5. QED
      BY <3>2, <3>3, <3>4
  <2> HIDE DEF b
  <2>1. CASE CleanUp(t)
    <3>1. /\ UNCHANGED <<operations, admitted, clock>> /\ pc'[t] = "count"
          /\ local'[t].kept = Kept(operations[b], InWindow(clock))
      BY <2>1, CleansUp DEF b
    <3>2. Untangled(t)'
      <4>1. clock \in 0 .. clock
        BY <1>0
      <4>2. Looked(t)'
        BY <2>0, <3>1, <4>1 DEF Looked, b
      <4>3. QED
        BY <3>1, <4>2 DEF Untangled
    <3>3. \A u \in Threads : Untangled(u)'
      BY <2>a, <3>1, <3>2
    <3>4. \A a \in Accounts \ crowded' : SameWindows(a)' /\ Bounded(a)'
      BY <1>a, <1>c, <2>0, <3>1
    <3>5. QED
      BY <1>b, <3>3, <3>4
  <2>2. CASE CountOperations(t)
    <3>1. /\ UNCHANGED <<admitted, clock>> /\ pc[t] = "count"
          /\ operations' = [operations EXCEPT ![b] = local[t].kept]
          /\ pc'[t] = "idle" \/ (pc'[t] = "record" /\ ~Full(Len(local[t].kept)))
      BY <2>2, Counts DEF b
    <3>2. /\ operations'[b] = local[t].kept
          /\ \A a \in Accounts : a # b => operations'[a] = operations[a]
      BY <1>0, <2>0, <3>1
    <3>3. local[t].kept \in Seq(0 .. clock)
      BY <3>1 DEF TimesKnown
    <3>4. Untangled(t)'
      <4>1. pc'[t] = "record" => Len(operations'[b]) < MaxOps
        <5>1. Len(local[t].kept) \in Nat
          BY <3>3
        <5>2. QED
          BY <3>1, <3>2, <5>1, LimiterConstants DEF Full
      <4>2. pc'[t] # "count"
        BY <3>1
      <4>3. QED
        BY <2>0, <4>1, <4>2 DEF Untangled, b
    <3>5. \A u \in Threads : Untangled(u)'
      BY <2>a, <3>1, <3>2, <3>4
    <3>6. ASSUME NEW a \in Accounts \ crowded PROVE SameWindows(a)'
      <4>1. CASE a # b
        BY <1>a, <3>1, <3>2, <3>6, <4>1 DEF SameWindows
      <4>2. CASE a = b
        <5>1. PICK c \in 0 .. clock : local[t].kept = Kept(operations[b], InWindow(c))
          BY <1>a, <3>1, <3>6, <4>2 DEF Untangled, Looked, b
        <5>2. operations[b] \in Seq(0 .. clock)
          BY <1>0, <2>0
        <5>3. ASSUME NEW d \in Nat, d >= clock'
              PROVE  Kept(operations'[a], InWindow(d)) = Kept(admitted'[a], InWindow(d))
          <6>1. c \in Nat /\ c <= d /\ d >= clock
            BY <1>0, <3>1, <5>1, <5>3
          <6>2. Kept(local[t].kept, InWindow(d)) = Kept(operations[b], InWindow(d))
            BY <1>0, <5>1, <5>2, <6>1, LaterWindow
          <6>3. Kept(operations[b], InWindow(d)) = Kept(admitted[b], InWindow(d))
            BY <1>a, <3>6, <4>2, <6>1 DEF SameWindows
          <6>4. QED
            BY <3>1, <3>2, <4>2, <6>2, <6>3
        <5>4. QED
          BY <5>3 DEF SameWindows
      <4>3. QED
        BY <4>1, <4>2
    <3>7. \A a \in Accounts \ crowded : Bounded(a)'
      BY <1>a, <3>1 DEF Bounded
    <3>8. QED
      BY <1>b, <2>0, <3>5, <3>6, <3>7
  <2>3. CASE Record(t)
    <3>1. /\ UNCHANGED clock /\ pc[t] = "record" /\ pc'[t] = "serve"
          /\ operations' = [operations EXCEPT ![b] = Append(@, clock)]
          /\ admitted' = [admitted EXCEPT ![b] = Append(@, clock)]
      BY <2>3, Records DEF b
    <3>2. /\ operations'[b] = Append(operations[b], clock)
          /\ admitted'[b] = Append(admitted[b], clock)
          /\ \A a \in Accounts : a # b => operations'[a] = operations[a] /\ admitted'[a] = admitted[a]
      BY <1>0, <2>0, <3>1
    <3>3. Untangled(t)'
      BY <3>1 DEF Untangled
    <3>4. \A u \in Threads : Untangled(u)'
      BY <2>a, <3>1, <3>2, <3>3
    <3>5. /\ operations[b] \in Seq(0 .. clock) /\ admitted[b] \in Seq(0 .. clock)
          /\ clock \in 0 .. clock
      BY <1>0, <2>0
    <3>6. ASSUME NEW a \in Accounts \ crowded PROVE SameWindows(a)' /\ Bounded(a)'
      <4>1. CASE a # b
        BY <1>a, <3>1, <3>2, <3>6, <4>1 DEF SameWindows, Bounded
      <4>2. CASE a = b
        <5>1. ASSUME NEW d \in Nat, d >= clock'
              PROVE  Kept(operations'[a], InWindow(d)) = Kept(admitted'[a], InWindow(d))
          <6>1. Kept(operations[b], InWindow(d)) = Kept(admitted[b], InWindow(d))
            BY <1>a, <3>1, <3>6, <4>2, <5>1 DEF SameWindows
          <6>2. /\ Kept(Append(operations[b], clock), InWindow(d))
                     = IF clock \in InWindow(d) THEN Append(Kept(operations[b], InWindow(d)), clock)
                       ELSE Kept(operations[b], InWindow(d))
                /\ Kept(Append(admitted[b], clock), InWindow(d))
                     = IF clock \in InWindow(d) THEN Append(Kept(admitted[b], InWindow(d)), clock)
                       ELSE Kept(admitted[b], InWindow(d))
            <7>1. \A s \in Seq(0 .. clock) :
                      Kept(Append(s, clock), InWindow(d))
                        = IF clock \in InWindow(d) THEN Append(Kept(s, InWindow(d)), clock)
                          ELSE Kept(s, InWindow(d))
              BY <1>0, KeptOfNow
            <7>2. QED
              BY <3>5, <7>1
          <6>3. QED
            BY <3>2, <4>2, <6>1, <6>2, Zenon
        <5>2. SameWindows(a)'
          BY <5>1 DEF SameWindows
        <5>3. Len(operations[b]) < MaxOps
          BY <1>a, <3>1, <3>6, <4>2 DEF Untangled, b
        <5>4. Kept(operations[b], InWindow(clock)) = Kept(admitted[b], InWindow(clock))
          BY <1>0, <1>a, <3>6, <4>2 DEF SameWindows
        <5>5. ASSUME NEW ts \in 0 .. clock
              PROVE  Cardinality(Places(Append(admitted[b], clock), InSpan(ts))) <= MaxOps
          <6>1. Cardinality(Places(admitted[b], InSpan(ts))) <= MaxOps
            BY <1>a, <3>6, <4>2 DEF Bounded
          <6>2. QED
            BY <1>0, <3>5, <5>3, <5>4, <6>1, OneMoreFits
        <5>6. Bounded(a)'
          BY <3>1, <3>2, <4>2, <5>5 DEF Bounded, InSpan
        <5>7. QED
          BY <5>2, <5>6
      <4>3. QED
        BY <4>1, <4>2
    <3>7. QED
      BY <1>b, <2>0, <3>4, <3>6
  <2>4. CASE ~CleanUp(t) /\ ~CountOperations(t) /\ ~Record(t)
    <3>1. pc'[t] \notin {"count", "record"} /\ UNCHANGED <<operations, admitted, clock>>
      BY <1>2, <2>4, OnlyTheLimiter DEF Elsewhere
    <3>2. Untangled(t)'
      BY <3>1 DEF Untangled
    <3>3. \A u \in Threads : Untangled(u)'
      BY <2>a, <3>1, <3>2
    <3>4. \A a \in Accounts \ crowded' : SameWindows(a)' /\ Bounded(a)'
      BY <1>a, <1>c, <2>0, <3>1
    <3>5. QED
      BY <1>b, <3>3, <3>4
  <2>5. QED
    BY <2>1, <2>2, <2>3, <2>4
<1>3. ASSUME Tick PROVE LimiterSound'
  <2>1. clock' = clock + 1 /\ UNCHANGED <<operations, admitted, pc, local, request, crowded>>
    BY <1>3 DEF Tick, threadVars, history
  <2>2. \A t \in Threads : Untangled(t)'
    <3>1. 0 .. clock \subseteq 0 .. clock'
      BY <1>0, <2>1
    <3>2. QED
      BY <1>a, <2>1, <3>1 DEF Untangled, Looked
  <2>3. ASSUME NEW a \in Accounts \ crowded' PROVE SameWindows(a)' /\ Bounded(a)'
    <3>1. SameWindows(a)'
      <4>1. \A c \in Nat : c >= clock' => c >= clock
        BY <1>0, <2>1
      <4>2. QED
        BY <1>a, <2>1, <2>3, <4>1 DEF SameWindows
    <3>2. ASSUME NEW ts \in 0 .. clock' PROVE Cardinality(Places(admitted[a], InSpan(ts))) <= MaxOps
      <4>1. CASE ts \in 0 .. clock
        BY <1>a, <2>1, <2>3, <4>1 DEF Bounded
      <4>2. CASE ts \notin 0 .. clock
        <5>1. ts = clock + 1
          BY <1>0, <2>1, <4>2
        <5>2. Places(admitted[a], InSpan(ts)) = {}
          <6>1. \A i \in DOMAIN admitted[a] : admitted[a][i] \in 0 .. clock
            BY <1>0, <2>3
          <6>2. \A x \in 0 .. clock : x \notin InSpan(ts)
            BY <1>0, <5>1 DEF InSpan
          <6>3. QED
            BY <6>1, <6>2, Zenon DEF Places
        <5>3. QED
          BY <5>2, FS_EmptySet, LimiterConstants
      <4>3. QED
        BY <4>1, <4>2
    <3>3. Bounded(a)'
      BY <2>1, <3>2 DEF Bounded
    <3>4. QED
      BY <3>1, <3>3
  <2>4. QED
    BY <1>b, <2>2, <2>3
<1>4. ASSUME UNCHANGED <<operations, admitted, clock, pc, local, request, crowded>> PROVE LimiterSound'
  <2>1. \A a \in Accounts \ crowded' : SameWindows(a)' /\ Bounded(a)'
    BY <1>4, <1>a, <1>c
  <2>2. \A t \in Threads : Untangled(t)'
    BY <1>4, <1>a DEF Untangled, Looked
  <2>3. QED
    BY <1>b, <2>1, <2>2
<1>5. QED
  <2>1. Outage \/ Closing \/ UNCHANGED vars =>
            UNCHANGED <<operations, admitted, clock, pc, local, request, crowded>>
    BY DEF Outage, Closing, vars, threadVars, history
  <2>2. QED
    BY <1>1, <1>2, <1>3, <1>4, <2>1, Zenon DEF Next

\* account_rate_limit.py: the limiter keeps its promise to every account whose requests do
\* not overlap, whatever the window and the number of operations it admits.
THEOREM LimiterKeepsItsPromise == Spec => []LimiterHolds
<1>1. LimiterSound /\ ThreadsSound /\ MeetingsSeen /\ TimesKnown /\ [Next]_vars => LimiterSound'
  BY LimiterSoundNext
<1>2. LimiterSound => LimiterHolds
  BY DEF LimiterSound
<1>3. QED
  BY <1>1, <1>2, LimiterSoundInit, ThreadsStay, MeetingsStay, TimesStay, PTL DEF Spec

-------------------------------------------------------------------------------
(* The tables *)

\* Whether a goal is stored after a call.
LEMMA GoalStored ==
  ASSUME NEW c, GoodCall(c), NEW rows, GoodRows(rows), NEW w, PlanIs(c, rows, w),
         c.op = "createGoal" => rows.goal.owner = 0,
         NEW goal, goal = RowsAfter(c.op, rows, w).goal
  PROVE  /\ w.drops = (c.op = "deleteGoal")
         /\ c.op = "createGoal" => goal.exists
         /\ c.op = "deleteGoal" => ~goal.exists
         /\ c.op \notin {"createGoal", "deleteGoal"} => goal.exists = rows.goal.exists
         /\ c.op = "contribute" => rows.goal.exists
<1> DEFINE g == rows.goal
<1>0. /\ g \in GoalRow /\ SoundGoal(g) /\ ScopedPlan(c, w) /\ c.value \in Int
      /\ g.exists \in BOOLEAN
  BY PlanScoped, RowsTyped DEF GoodRows
<1>1. goal = IF w.drops THEN [g EXCEPT !.exists = FALSE]
             ELSE IF w.adds # 0 THEN UpdateRow(Contribution(g, w.adds), g, g)
             ELSE IF g.exists \/ c.op = "createGoal" THEN UpdateRow(w.goal, g, g) ELSE g
  BY DEF RowsAfter
<1>a. ASSUME NEW cols, "exists" \notin DOMAIN cols PROVE UpdateRow(cols, g, g).exists = g.exists
  BY <1>0, <1>a, UpdatedGoal DEF Assigned
<1> HIDE DEF g
<1>2. CASE c.op = "createGoal"
  <2>1. w.drops = FALSE /\ w.adds = 0 /\ w.goal.exists = TRUE /\ "exists" \in DOMAIN w.goal
    BY <1>2 DEF PlanIs
  <2>2. g.exists = FALSE
    BY <1>0, <1>2 DEF SoundGoal, NoGoal, g
  <2>3. goal = UpdateRow(w.goal, g, g)
    BY <1>1, <1>2, <2>1
  <2>4. UpdateRow(w.goal, g, g).exists = TRUE
    BY <1>0, <2>1, <2>2, UpdatedGoal DEF Assigned
  <2>5. QED
    BY <1>2, <2>1, <2>3, <2>4
<1>3. CASE c.op = "deleteGoal"
  <2>1. w.drops = TRUE
    BY <1>3 DEF PlanIs
  <2>2. goal = [g EXCEPT !.exists = FALSE]
    BY <1>1, <2>1
  <2>3. goal.exists = FALSE
    BY <1>0, <2>2 DEF GoalRow
  <2>4. QED
    BY <1>3, <2>1, <2>3
<1>4. CASE c.op = "contribute"
  <2>1. w.drops = FALSE /\ w.adds # 0 /\ g.exists
    BY <1>0, <1>4 DEF PlanIs, g
  <2>2. goal = UpdateRow(Contribution(g, w.adds), g, g)
    BY <1>1, <2>1
  <2>3. "exists" \notin DOMAIN Contribution(g, w.adds)
    BY DEF Contribution
  <2>4. QED
    BY <1>4, <1>a, <2>1, <2>2, <2>3 DEF g
<1>5. CASE c.op \notin {"createGoal", "deleteGoal", "contribute"}
  <2>1. w.drops = FALSE /\ w.adds = 0 /\ "exists" \notin DOMAIN w.goal
    <3>1. CASE c.op = "updateGoal"
      BY <3>1 DEF PlanIs
    <3>2. CASE c.op # "updateGoal"
      BY <1>0, <1>5, <3>2 DEF ScopedPlan, GoalIdle, GoalCalls
    <3>3. QED
      BY <3>1, <3>2
  <2>2. goal = UpdateRow(w.goal, g, g) \/ goal = g
    BY <1>1, <2>1
  <2>3. QED
    BY <1>5, <1>a, <2>1, <2>2 DEF g
<1>6. QED
  BY <1>2, <1>3, <1>4, <1>5

\* What the administrator's list tells of an account is the same of both rows.
SameStatus(old, new) == Status(new) = Status(old) /\ new.deleted = old.deleted
\* What a thread leaves that has written, of its loan, of its goal, and elsewhere.
LoanWritten(t, old, new) == new.owner = IF OpOf(t) = "apply" THEN request[t].acc ELSE old.owner
GoalWritten(t, old, new) ==
    /\ new.owner = IF OpOf(t) = "createGoal" THEN request[t].acc ELSE old.owner
    /\ OpOf(t) = "createGoal" => new.exists
    /\ OpOf(t) = "deleteGoal" => ~new.exists
    /\ OpOf(t) \notin {"createGoal", "deleteGoal"} => new.exists = old.exists
    /\ OpOf(t) = "contribute" => old.exists
    /\ OpOf(t) \notin GoalCalls => new = old
Written(t) ==
    /\ RowsSound'
    /\ \A a \in Accounts \ {request[t].acc} : SameStatus(accounts[a], accounts'[a])
    /\ \A l \in Loans \ {request[t].loan} : loans'[l] = loans[l]
    /\ LoanWritten(t, loans[request[t].loan], loans'[request[t].loan])
    /\ \A g \in Goals \ {request[t].goal} : goals'[g] = goals[g]
    /\ GoalWritten(t, goals[request[t].goal], goals'[request[t].goal])
    /\ order' = RowOrder(OpOf(t), OpOf(t) = "deleteGoal", request[t].goal)

\* A commit of three rows that are sound.
LEMMA RowsCommitted ==
  ASSUME RowsSound, NEW t \in Threads, request[t] \in Requests,
         NEW row \in AccountRow, row.balance >= 0,
         NEW loan \in LoanRow, SoundLoan(loan), LoanWritten(t, loans[request[t].loan], loan),
         NEW goal \in GoalRow, SoundGoal(goal), GoalWritten(t, goals[request[t].goal], goal),
         accounts' = [accounts EXCEPT ![request[t].acc] = row],
         loans' = [loans EXCEPT ![request[t].loan] = loan],
         goals' = [goals EXCEPT ![request[t].goal] = goal],
         order' = RowOrder(OpOf(t), OpOf(t) = "deleteGoal", request[t].goal)
  PROVE  Written(t)
<1>1. request[t].acc \in Accounts /\ request[t].loan \in Loans /\ request[t].goal \in Goals
  BY RequestFields, Zenon
<1>2. /\ accounts \in [Accounts -> AccountRow] /\ \A a \in Accounts : accounts[a].balance >= 0
      /\ loans \in [Loans -> LoanRow] /\ \A l \in Loans : SoundLoan(loans[l])
      /\ goals \in [Goals -> GoalRow] /\ \A g \in Goals : SoundGoal(goals[g])
  BY Zenon DEF RowsSound
<1>3. /\ accounts' \in [Accounts -> AccountRow] /\ \A a \in Accounts : accounts'[a].balance >= 0
      /\ \A a \in Accounts : a # request[t].acc => accounts'[a] = accounts[a]
  BY <1>1, <1>2
<1>4. /\ loans' \in [Loans -> LoanRow] /\ loans'[request[t].loan] = loan
      /\ \A l \in Loans : l # request[t].loan => loans'[l] = loans[l]
  BY <1>1, <1>2
<1>5. /\ goals' \in [Goals -> GoalRow] /\ goals'[request[t].goal] = goal
      /\ \A g \in Goals : g # request[t].goal => goals'[g] = goals[g]
  BY <1>1, <1>2
<1>6. (\A l \in Loans : SoundLoan(loans'[l])) /\ (\A g \in Goals : SoundGoal(goals'[g]))
  BY <1>2, <1>4, <1>5, Zenon
<1>7. RowsSound'
  BY <1>3, <1>4, <1>5, <1>6, Zenon DEF RowsSound
<1>8. \A a \in Accounts \ {request[t].acc} : SameStatus(accounts[a], accounts'[a])
  BY <1>3 DEF SameStatus
<1>9. QED
  BY <1>4, <1>5, <1>7, <1>8, Zenon DEF Written

\* A granted call of one of the services.
LEMMA CallWrites ==
  ASSUME ThreadsSound, RowsSound, IdsFree, NEW t \in Threads, pc[t] = "serve",
         OpOf(t) \in Ops, Verdict(request[t]).ok, Committed(request[t], Verdict(request[t]).writes)
  PROVE  Written(t)
<1> DEFINE r == request[t]
           c == CallOf(r)
           rows == RowsOf(r)
           w == Decision(c, rows).writes
           after == RowsAfter(OpOf(t), rows, w)
<1>0. /\ r \in Requests /\ r.acc \in Accounts /\ r.loan \in Loans /\ r.goal \in Goals
      /\ r.value \in Int /\ r.terms \in Terms /\ Offers(r) /\ Routes[r.route].op = OpOf(t)
  BY AtStage, RequestFields DEF OpOf, RouteOf
<1>1. Verdict(r) = Decision(c, rows)
  <2>1. OpOf(t) # "transfer" /\ OpOf(t) # "register"
    BY DEF Ops
  <2> HIDE DEF c, rows
  <2>2. QED
    BY <1>0, <2>1, Zenon DEF Verdict, c, rows
<1>2. c.op = OpOf(t) /\ c.acc = r.acc /\ c.value = r.value /\ c.terms = r.terms
  BY <1>0 DEF CallOf
<1>3. /\ rows.account = accounts[r.acc] /\ rows.loan = loans[r.loan] /\ rows.goal = goals[r.goal]
  BY DEF RowsOf
<1> HIDE DEF rows, c
<1>4. GoodCall(c)
  <2>1. r.acc \in Nat /\ r.acc # 0
    BY <1>0, ApiAssumption
  <2>2. OpOf(t) \in {"profile", "password", "updateGoal"} => r.value >= 0
    <3>1. OpOf(t) # "password"
      <4>1. Suits(request[t].route, RouteOf(t))
        BY AtStage, Zenon
      <4>2. OpOf(t) \in (Ops \ {"password"}) \cup {"none", "transfer", "register"}
        BY <4>1, Zenon DEF Suits, OpOf
      <4>3. QED
        BY <4>2
    <3>2. QED
      BY <1>0, <3>1 DEF Offers
  <2>3. QED
    BY <1>0, <1>2, <2>1, <2>2 DEF GoodCall
<1>5. GoodRows(rows)
  BY <1>0, <1>3 DEF RowsSound, GoodRows
<1>6. (c.op = "apply" => rows.loan.owner = 0) /\ (c.op = "createGoal" => rows.goal.owner = 0)
  <2>1. \A op : OpOf(t) = op => Creates(t, op)
    BY DEF Creates, Before
  <2>2. QED
    BY <1>2, <1>3, <2>1 DEF IdsFree
<1>7. Decision(c, rows).ok /\ Committed(r, w)
  BY <1>1
<1>8. Served(c, rows, w, after)
  <2>1. after = RowsAfter(c.op, rows, w)
    BY <1>2
  <2>2. QED
    BY <1>4, <1>5, <1>6, <1>7, <2>1, CallServed
<1>9. /\ w.drops = (c.op = "deleteGoal")
      /\ c.op = "createGoal" => after.goal.exists
      /\ c.op = "deleteGoal" => ~after.goal.exists
      /\ c.op \notin {"createGoal", "deleteGoal"} => after.goal.exists = rows.goal.exists
      /\ c.op = "contribute" => rows.goal.exists
  <2>1. PlanIs(c, rows, w)
    BY <1>4, <1>5, <1>7, AcceptedPlan
  <2>2. after.goal = RowsAfter(c.op, rows, w).goal
    BY <1>2
  <2> HIDE DEF w, after
  <2>3. QED
    BY <1>4, <1>5, <1>6, <2>1, <2>2, GoalStored
<1>10. /\ accounts' = [accounts EXCEPT ![r.acc] = after.account]
       /\ loans' = [loans EXCEPT ![r.loan] = after.loan]
       /\ goals' = [goals EXCEPT ![r.goal] = after.goal]
       /\ order' = RowOrder(OpOf(t), w.drops, r.goal)
  <2> HIDE DEF w
  <2>1. QED
    BY <1>0, <1>7, Zenon DEF Committed, rows
<1> HIDE DEF w, after
<1>11. /\ after.account \in AccountRow /\ after.account.balance >= 0
       /\ after.loan \in LoanRow /\ SoundLoan(after.loan)
       /\ after.goal \in GoalRow /\ SoundGoal(after.goal)
       /\ LoanLeft(c, rows.loan, after.loan) /\ GoalLeft(c, rows.goal, after.goal)
  BY <1>8 DEF Served, GoodRows
<1>12. LoanWritten(t, loans[r.loan], after.loan)
  BY <1>2, <1>3, <1>11 DEF LoanLeft, LoanWritten
<1>13. GoalWritten(t, goals[r.goal], after.goal)
  BY <1>2, <1>3, <1>9, <1>11 DEF GoalLeft, GoalWritten
<1>14. order' = RowOrder(OpOf(t), OpOf(t) = "deleteGoal", r.goal)
  BY <1>2, <1>9, <1>10
<1>15. QED
  BY <1>0, <1>10, <1>11, <1>12, <1>13, <1>14, RowsCommitted

\* A transfer moves between two accounts that are there, and leaves the loans and the goals.
LEMMA TransferWrites ==
  ASSUME ThreadsSound, RowsSound, NEW t \in Threads, OpOf(t) = "transfer",
         Verdict(request[t]).ok, Transferred(request[t])
  PROVE  Written(t)
<1> DEFINE r == request[t]
           s == accounts[r.acc]
           d == accounts[r.to]
           out == EntryFor(s, "TRANSFER_OUT", r.value)
           in == EntryFor(d, "TRANSFER_IN", r.value)
<1>0. /\ r \in Requests /\ r.acc \in Accounts /\ r.to \in Accounts /\ r.value \in Int
      /\ r.loan \in Loans /\ r.goal \in Goals
  BY AtStage, RequestFields, Zenon
<1>1. /\ accounts \in [Accounts -> AccountRow] /\ \A a \in Accounts : accounts[a].balance >= 0
      /\ s \in AccountRow /\ d \in AccountRow
  BY <1>0 DEF RowsSound
<1>2. Verdict(r) = TransferDecision(s, d, r.acc = r.to, r.value)
  BY Zenon DEF Verdict, OpOf, RouteOf
<1>3. r.value > 0 /\ r.acc # r.to /\ r.value <= s.balance
  <2>1. (r.acc = r.to) \in BOOLEAN /\ TransferDecision(s, d, r.acc = r.to, r.value).ok
    BY <1>2
  <2> DEFINE same == r.acc = r.to
  <2>2. same \in BOOLEAN /\ TransferDecision(s, d, same, r.value).ok
    BY <2>1
  <2> HIDE DEF s, d, same
  <2>3. r.value > 0 /\ ~same /\ r.value <= s.balance
    BY <1>0, <1>1, <2>2, TransferGranted
  <2>4. QED
    BY <2>3 DEF same
<1>4. out.balance = s.balance - r.value /\ in.balance = d.balance + r.value
  BY <1>0, <1>1, TransferLegs
<1>5. /\ accounts' = [accounts EXCEPT ![r.acc].balance = out.balance, ![r.to].balance = in.balance]
      /\ UNCHANGED <<loans, goals, order>>
  BY Zenon DEF Transferred
<1> HIDE DEF out, in
<1>6. accounts' = [a \in Accounts |->
                       IF a = r.to THEN [accounts[a] EXCEPT !.balance = in.balance]
                       ELSE IF a = r.acc THEN [accounts[a] EXCEPT !.balance = out.balance]
                       ELSE accounts[a]]
  BY <1>0, <1>1, <1>3, <1>5
<1>7. ASSUME NEW a \in Accounts PROVE accounts'[a] \in AccountRow /\ accounts'[a].balance >= 0
  <2>1. accounts[a] \in AccountRow /\ accounts[a].balance >= 0
    BY <1>1
  <2>2. /\ s.balance \in Int /\ d.balance \in Int /\ s.balance >= 0 /\ d.balance >= 0
    BY <1>0, <1>1 DEF AccountRow
  <2>3. out.balance \in Int /\ out.balance >= 0 /\ in.balance \in Int /\ in.balance >= 0
    BY <1>0, <1>3, <1>4, <2>2
  <2>4. \A b \in Int : [accounts[a] EXCEPT !.balance = b] \in AccountRow
                       /\ [accounts[a] EXCEPT !.balance = b].balance = b
    BY <2>1 DEF AccountRow
  <2> HIDE DEF s, d
  <2>5. QED
    BY <1>6, <2>1, <2>3, <2>4
<1>8. accounts' \in [Accounts -> AccountRow]
  BY <1>6, <1>7
<1>9. RowsSound'
  BY <1>5, <1>7, <1>8 DEF RowsSound
<1>10. ASSUME NEW a \in Accounts PROVE SameStatus(accounts[a], accounts'[a])
  <2>1. accounts[a] \in AccountRow
    BY <1>1
  <2>2. \A b : [accounts[a] EXCEPT !.balance = b].deleted = accounts[a].deleted
               /\ Status([accounts[a] EXCEPT !.balance = b]) = Status(accounts[a])
    BY <2>1 DEF AccountRow, Status
  <2>3. accounts'[a] = accounts[a] \/ \E b : accounts'[a] = [accounts[a] EXCEPT !.balance = b]
    BY <1>6
  <2>4. QED
    BY <2>2, <2>3 DEF SameStatus
<1>11. LoanWritten(t, loans[r.loan], loans'[r.loan]) /\ GoalWritten(t, goals[r.goal], goals'[r.goal])
  BY <1>5 DEF LoanWritten, GoalWritten
<1>12. order' = RowOrder(OpOf(t), OpOf(t) = "deleteGoal", r.goal)
  BY <1>5 DEF RowOrder
<1>13. QED
  BY <1>5, <1>9, <1>10, <1>11, <1>12 DEF Written

\* A registration writes a whole row.
LEMMA RegisterWrites ==
  ASSUME ThreadsSound, RowsSound, NEW t \in Threads, pc[t] = "serve", OpOf(t) = "register",
         Committed(request[t], Verdict(request[t]).writes)
  PROVE  Written(t)
<1> DEFINE r == request[t]
           rows == RowsOf(r)
           new == [balance |-> 0, active |-> TRUE, frozen |-> FALSE, deleted |-> FALSE,
                   profile |-> 0, password |-> r.value]
           w == [NoWrites EXCEPT !.account = new]
           after == RowsAfter("register", rows, w)
<1>0. /\ r \in Requests /\ r.acc \in Accounts /\ r.value \in Int
      /\ r.loan \in Loans /\ r.goal \in Goals /\ Registers(r)
  BY AtStage, RequestFields, Zenon
<1>1. Verdict(r).writes = w
  <2>1. Verdict(r) = CustomerRegister(r.value)
    BY Zenon DEF Verdict, OpOf, RouteOf
  <2>2. QED
    BY <2>1 DEF CustomerRegister, Done
<1>2. r.value > 0
  <2>1. r.value # -1
    <3>1. Staged(t)
      BY AtStage, Zenon
    <3>2. QED
      BY <3>1 DEF Staged, Before
  <2>2. QED
    BY <1>0, <2>1 DEF Registers, OpOf, RouteOf
<1>3. new \in AccountRow /\ new.balance = 0
  BY <1>0, <1>2 DEF AccountRow
<1>4. w.account = new /\ w.loan = <<>> /\ w.goal = <<>> /\ w.adds = 0 /\ w.drops = FALSE
  BY DEF NoWrites
<1>5. /\ rows.account = accounts[r.acc] /\ rows.loan = loans[r.loan] /\ rows.goal = goals[r.goal]
      /\ rows.account \in AccountRow /\ rows.loan \in LoanRow /\ rows.goal \in GoalRow
      /\ rows.account.balance >= 0 /\ SoundLoan(rows.loan) /\ SoundGoal(rows.goal)
  BY <1>0 DEF RowsSound, RowsOf
<1> HIDE DEF rows, w, new
<1>6. /\ after.account = UpdateRow(new, rows.account, rows.account)
      /\ after.loan = UpdateRow(<<>>, rows.loan, rows.loan)
      /\ after.goal = UpdateRow(<<>>, rows.goal, rows.goal) \/ after.goal = rows.goal
  BY <1>4 DEF RowsAfter
<1>7. after.account \in AccountRow /\ after.account.balance >= 0
  <2>1. DOMAIN new = {"balance", "active", "frozen", "deleted", "profile", "password"}
    BY DEF new
  <2>2. \A col \in {"balance", "active", "frozen", "deleted", "profile", "password"} :
            Assigned(new, rows.account, rows.account, col) = new[col]
    BY <2>1 DEF Assigned
  <2>3. after.account = [balance |-> new.balance, active |-> new.active, frozen |-> new.frozen,
                         deleted |-> new.deleted, profile |-> new.profile,
                         password |-> new.password]
    BY <1>5, <1>6, <2>2, UpdatedAccount
  <2> HIDE DEF after
  <2>4. QED
    BY <1>3, <2>3 DEF AccountRow
<1>8. after.loan = rows.loan /\ after.goal = rows.goal
  <2>1. rows.loan = [col \in DOMAIN rows.loan |-> rows.loan[col]]
        /\ rows.goal = [col \in DOMAIN rows.goal |-> rows.goal[col]]
    BY <1>5 DEF LoanRow, GoalRow
  <2> HIDE DEF after
  <2>2. QED
    BY <1>6, <2>1, NothingUpdated
<1>9. /\ accounts' = [accounts EXCEPT ![r.acc] = after.account]
      /\ loans' = [loans EXCEPT ![r.loan] = after.loan]
      /\ goals' = [goals EXCEPT ![r.goal] = after.goal]
      /\ order' = RowOrder("register", w.drops, r.goal)
  <2>1. Routes[r.route].op = "register" /\ Committed(r, w)
    BY <1>1 DEF OpOf, RouteOf
  <2>2. QED
    BY <2>1, Zenon DEF Committed, rows
<1> HIDE DEF after
<1>10. LoanWritten(t, loans[r.loan], after.loan) /\ GoalWritten(t, goals[r.goal], after.goal)
  BY <1>5, <1>8 DEF LoanWritten, GoalWritten
<1>11. order' = RowOrder(OpOf(t), OpOf(t) = "deleteGoal", r.goal)
  BY <1>4, <1>9
<1>12. QED
  BY <1>0, <1>5, <1>7, <1>8, <1>9, <1>10, <1>11, RowsCommitted

\* A served request has written what it decided, or nothing.
LEMMA ServeWrites ==
  ASSUME ThreadsSound, RowsSound, IdsFree, NEW t \in Threads, Serve(t)
  PROVE  /\ pc[t] = "serve" /\ UNCHANGED <<operations, cacheVars, clock, request, boundVars, crowded, admitted>>
         /\ \/ /\ UNCHANGED <<tables, settled>>
               /\ \E why : Answer(t, local[t], CodeOf(RouteOf(t), why), 0)
            \/ /\ Written(t) /\ Settling(t)
               /\ \/ /\ RouteOf(t).after = "answer"
                     /\ Answer(t, [local[t] EXCEPT !.wrote = TRUE], 200, 0)
                  \/ /\ RouteOf(t).after # "answer" /\ Goto(t, RouteOf(t).after)
                     /\ local' = [local EXCEPT ![t] = [local[t] EXCEPT !.wrote = TRUE]]
                     /\ reply' = reply
<1>1. /\ pc[t] = "serve"
      /\ UNCHANGED <<operations, cacheVars, clock, request, boundVars, crowded, admitted>>
  BY Zenon DEF Serve, Serving
<1>2. CASE ~Verdict(request[t]).ok
  BY <1>1, <1>2, Zenon DEF Serve
<1>3. CASE Verdict(request[t]).ok
  <2>1. Written(t)
    <3>1. OpOf(t) \in Ops \cup {"transfer", "register"}
      <4>1. Staged(t) /\ Suits(request[t].route, RouteOf(t))
        BY AtStage, Zenon
      <4>2. OpOf(t) # "none"
        BY <1>1, <4>1 DEF Staged, Before
      <4>3. OpOf(t) \in (Ops \ {"password"}) \cup {"none", "transfer", "register"}
        BY <4>1, Zenon DEF Suits, OpOf
      <4>4. QED
        BY <4>2, <4>3
    <3>2. \/ OpOf(t) = "transfer" /\ Transferred(request[t])
          \/ OpOf(t) # "transfer" /\ Committed(request[t], Verdict(request[t]).writes)
      BY <1>3, Zenon DEF Serve, OpOf
    <3>3. CASE OpOf(t) = "transfer"
      BY <1>3, <3>2, <3>3, TransferWrites
    <3>4. CASE OpOf(t) = "register"
      BY <1>1, <3>2, <3>4, RegisterWrites
    <3>5. CASE OpOf(t) \in Ops
      <4>1. OpOf(t) # "transfer"
        BY <3>5 DEF Ops
      <4>2. QED
        BY <1>1, <1>3, <3>2, <3>5, <4>1, CallWrites
    <3>6. QED
      BY <3>1, <3>3, <3>4, <3>5
  <2>2. /\ Settling(t)
        /\ \/ /\ RouteOf(t).after = "answer"
              /\ Answer(t, [local[t] EXCEPT !.wrote = TRUE], 200, 0)
           \/ /\ RouteOf(t).after # "answer" /\ Goto(t, RouteOf(t).after)
              /\ local' = [local EXCEPT ![t] = [local[t] EXCEPT !.wrote = TRUE]]
              /\ reply' = reply
    BY <1>3, Zenon DEF Serve
  <2>3. QED
    BY <1>1, <2>1, <2>2
<1>4. QED
  BY <1>2, <1>3

\* Only a served request writes, and no thread returns to what comes before that.
OnlyReads(t) ==
    /\ UNCHANGED <<accounts, loans, goals, order, settled>>
    /\ pc'[t] \in Before => pc[t] \in Before

LEMMA OnlyServeWrites ==
  ASSUME ThreadsSound, NEW t \in Threads, Advance(t), ~Serve(t), ~Invalidate(t)
  PROVE  OnlyReads(t)
<1>a. ASSUME NEW l, NEW code, NEW shown, Answer(t, l, code, shown) PROVE pc'[t] \notin Before
  <2>1. pc'[t] = "idle"
    BY <1>a, AnswerGoes, Zenon
  <2>2. QED
    BY <2>1 DEF Before
<1>b. ASSUME NEW stage \in {"query", "fill", "page", "report"}, Goto(t, stage)
      PROVE  pc'[t] \notin Before
  <2>1. pc \in [Threads -> Stages] /\ pc' = [pc EXCEPT ![t] = stage]
    BY <1>b, Zenon DEF ThreadsSound, Goto
  <2>2. QED
    BY <2>1 DEF Before
<1>1. CASE Check(t) \/ CleanUp(t) \/ CountOperations(t) \/ Record(t)
  <2>1. pc[t] \in Before
    BY <1>1 DEF Check, CleanUp, CountOperations, Record, Serving, Before
  <2>2. UNCHANGED <<tables, settled>>
    BY <1>1 DEF Check, CleanUp, CountOperations, Record, tables, history
  <2>3. QED
    BY <2>1, <2>2 DEF OnlyReads, tables
<1>2. CASE ShowNewest(t) \/ ShowGoal(t) \/ Fill(t) \/ Ping(t)
  <2>1. \E l, code, shown : Answer(t, l, code, shown)
    BY <1>2, Zenon DEF ShowNewest, ShowGoal, Fill, Ping
  <2>2. UNCHANGED <<tables, settled>>
    BY <1>2 DEF ShowNewest, ShowGoal, Fill, Ping, tables, history
  <2>3. QED
    BY <1>a, <2>1, <2>2 DEF OnlyReads, tables
<1>3. CASE Lookup(t) \/ Query(t) \/ NextPage(t) \/ RunQuery(t)
  <2>1. \/ \E l, code, shown : Answer(t, l, code, shown)
        \/ \E stage \in {"query", "fill", "page", "report"} : Goto(t, stage)
    BY <1>3, Zenon DEF Lookup, Query, NextPage, RunQuery, Stay
  <2>2. UNCHANGED <<tables, settled>>
    BY <1>3 DEF Lookup, Query, NextPage, RunQuery, tables, history
  <2>3. pc'[t] \notin Before
    BY <1>a, <1>b, <2>1
  <2>4. QED
    BY <2>2, <2>3 DEF OnlyReads, tables
<1>4. QED
  BY <1>1, <1>2, <1>3 DEF Advance

LEMMA Invalidates ==
  ASSUME ThreadsSound, NEW t \in Threads, Invalidate(t)
  PROVE  /\ pc[t] = "invalidate" /\ pc'[t] = "idle" /\ Connect
         /\ cache' = IF Reachable THEN <<>> ELSE cache
         /\ settled' = IF Raises THEN settled \ {request[t].acc} ELSE settled
         /\ \E code \in {500, 200} : Answer(t, local[t], code, 0) /\ (code = 500 <=> Raises)
         /\ UNCHANGED <<accounts, loans, goals, order, redis, clock, outages, crowded, admitted, request>>
<1>1. \E code \in {500, 200} : Answer(t, local[t], code, 0) /\ (code = 500 <=> Raises)
  <2>1. Answer(t, local[t], IF Raises THEN 500 ELSE 200, 0)
    BY Zenon DEF Invalidate
  <2>2. CASE Raises
    BY <2>1, <2>2
  <2>3. CASE ~Raises
    BY <2>1, <2>3
  <2>4. QED
    BY <2>2, <2>3
<1>2. pc'[t] = "idle"
  <2>1. PICK code \in {500, 200} : Answer(t, local[t], code, 0)
    BY <1>1
  <2>2. QED
    BY <2>1, AnswerGoes, Zenon
<1>3. /\ pc[t] = "invalidate" /\ Connect
      /\ cache' = IF Reachable THEN <<>> ELSE cache
      /\ settled' = IF Raises THEN settled \ {request[t].acc} ELSE settled
      /\ UNCHANGED <<tables, operations, redis, clock, request, boundVars, crowded, admitted>>
  BY Zenon DEF Invalidate, Serving
<1>4. QED
  BY <1>1, <1>2, <1>3 DEF tables, boundVars

\* The rows, the order of the goals, and the ids that are free.
TablesSound == RowsSound /\ OrderSound /\ IdsFree

LEMMA TablesSoundInit == ASSUME Init PROVE TablesSound
<1>1. /\ accounts = OpeningAccounts /\ loans = OpeningLoans /\ goals = OpeningGoals
      /\ order \in Bijection(1 .. Cardinality(StoredGoals), StoredGoals)
      /\ pc = [t \in Threads |-> "idle"]
  BY DEF Init
<1>2. RowsSound
  BY <1>1, ApiAssumption DEF RowsSound
<1>3. IdsFree
  <2>1. \A t \in Threads, op \in {"createGoal", "apply"} : ~Creates(t, op)
    BY <1>1 DEF Creates, Before
  <2>2. QED
    BY <2>1, Zenon DEF IdsFree
<1>4. OrderSound
  <2>1. IsFiniteSet(StoredGoals)
    <3>1. IsFiniteSet(Goals) /\ StoredGoals \subseteq Goals
      BY ApiAssumption DEF StoredGoals
    <3>2. QED
      BY <3>1, FS_Subset
  <2>2. Cardinality(StoredGoals) \in Nat
    BY <2>1, FS_CardinalityType
  <2>3. /\ order \in [1 .. Cardinality(StoredGoals) -> StoredGoals] /\ IsInjective(order)
        /\ \A g \in StoredGoals : \E i \in 1 .. Cardinality(StoredGoals) : order[i] = g
    BY <1>1 DEF Bijection, Injection, Surjection
  <2>4. order \in Seq(StoredGoals)
    BY <2>2, <2>3
  <2>5. Range(order) = StoredGoals
    BY <2>3 DEF Range
  <2>6. StoredGoals = {g \in Goals : goals[g].exists}
    BY <1>1 DEF StoredGoals
  <2>7. order \in Seq(Goals)
    <3>1. StoredGoals \subseteq Goals
      BY DEF StoredGoals
    <3>2. QED
      BY <2>2, <2>3, <3>1
  <2>8. QED
    BY <2>3, <2>5, <2>6, <2>7 DEF OrderSound
<1>5. QED
  BY <1>2, <1>3, <1>4 DEF TablesSound

\* The order after a write.
LEMMA OrderWritten ==
  ASSUME ThreadsSound, TablesSound, NEW t \in Threads, pc[t] = "serve", Written(t)
  PROVE  OrderSound'
<1> DEFINE g0 == request[t].goal
<1>0. g0 \in Goals
  BY AtStage, RequestFields, Zenon
<1>1. order \in Seq(Goals) /\ IsInjective(order) /\ Range(order) = {g \in Goals : goals[g].exists}
  BY DEF TablesSound, OrderSound
<1>2. /\ \A g \in Goals \ {g0} : goals'[g] = goals[g]
      /\ GoalWritten(t, goals[g0], goals'[g0])
      /\ order' = RowOrder(OpOf(t), OpOf(t) = "deleteGoal", g0)
  BY DEF Written
<1>3. CASE OpOf(t) = "createGoal"
  <2>1. order' = Append(order, g0)
    BY <1>2, <1>3 DEF RowOrder
  <2>2. g0 \notin Range(order)
    <3>1. Creates(t, "createGoal")
      BY <1>3 DEF Creates, Before
    <3>2. goals[g0].owner = 0
      BY <3>1 DEF TablesSound, IdsFree
    <3>3. ~goals[g0].exists
      BY <1>0, <3>2 DEF TablesSound, RowsSound, SoundGoal, NoGoal
    <3>4. QED
      BY <1>1, <3>3
  <2>3. order' \in Seq(Goals) /\ IsInjective(order')
    <3>1. Append(order, g0) \in Seq(Goals)
      BY <1>0, <1>1
    <3>2. IsInjective(Append(order, g0))
      BY <1>0, <1>1, <2>2, InjectiveMore
    <3>3. QED
      BY <2>1, <3>1, <3>2
  <2>4. Range(order') = Range(order) \cup {g0}
    BY <1>0, <1>1, <2>1, RangeOfMore
  <2>5. goals'[g0].exists
    BY <1>2, <1>3 DEF GoalWritten
  <2>6. Range(order') = {g \in Goals : goals'[g].exists}
    BY <1>0, <1>1, <1>2, <2>4, <2>5
  <2>7. QED
    BY <2>3, <2>6 DEF OrderSound
<1>4. CASE OpOf(t) = "deleteGoal"
  <2>1. order' = Kept(order, Goals \ {g0})
    BY <1>2, <1>4 DEF RowOrder
  <2>2. order' \in Seq(Goals) /\ IsInjective(order')
    <3>1. Kept(order, Goals \ {g0}) \in Seq(Goals)
      BY <1>1, KeptTyped
    <3>2. IsInjective(Kept(order, Goals \ {g0}))
      BY <1>1, KeptInjective
    <3>3. QED
      BY <2>1, <3>1, <3>2
  <2>3. Range(order') = Range(order) \cap (Goals \ {g0})
    BY <1>1, <2>1, KeptRange
  <2>4. ~goals'[g0].exists
    BY <1>2, <1>4 DEF GoalWritten
  <2>5. Range(order') = {g \in Goals : goals'[g].exists}
    BY <1>0, <1>1, <1>2, <2>3, <2>4
  <2>6. QED
    BY <2>2, <2>5 DEF OrderSound
<1>5. CASE OpOf(t) \notin {"createGoal", "deleteGoal"}
  <2>1. order' = order
    BY <1>2, <1>5 DEF RowOrder
  <2>2. goals'[g0].exists = goals[g0].exists
    BY <1>2, <1>5 DEF GoalWritten
  <2>3. \A g \in Goals : goals'[g].exists = goals[g].exists
    BY <1>2, <2>2
  <2>4. QED
    BY <1>1, <2>1, <2>3 DEF OrderSound
<1>6. QED
  BY <1>3, <1>4, <1>5

\* No other thread's ids are used up by a step of one, once it is past creating its own.
LEMMA IdsStayFree ==
  ASSUME IdsFree, NEW t \in Threads, OthersStay(t), request' = request,
         \A op : Creates(t, op)' => Creates(t, op),
         \A g \in Goals : goals'[g].owner = goals[g].owner \/ (g = request[t].goal /\ Creates(t, "createGoal") /\ ~Creates(t, "createGoal")'),
         \A l \in Loans : loans'[l].owner = loans[l].owner \/ (l = request[t].loan /\ Creates(t, "apply") /\ ~Creates(t, "apply")'),
         \A u \in Threads : request[u].goal \in Goals /\ request[u].loan \in Loans
  PROVE  IdsFree'
<1>1. \A op : \A u \in Threads : u # t => (Creates(u, op)' <=> Creates(u, op))
  BY DEF Creates, OthersStay, OpOf, RouteOf
<1>2. \A op : \A u \in Threads : Creates(u, op)' => Creates(u, op)
  BY <1>1
<1>3. ASSUME NEW u \in Threads, Creates(u, "createGoal")'
      PROVE  goals'[request'[u].goal].owner = 0
  <2>1. Creates(u, "createGoal")
    BY <1>2, <1>3
  <2>2. goals[request[u].goal].owner = 0
    BY <2>1 DEF IdsFree
  <2>3. ASSUME request[u].goal = request[t].goal, Creates(t, "createGoal"), ~Creates(t, "createGoal")'
        PROVE  FALSE
    <3>1. u # t
      BY <1>3, <2>3
    <3>2. QED
      BY <2>1, <2>3, <3>1, Zenon DEF IdsFree
  <2>4. QED
    BY <2>2, <2>3
<1>4. ASSUME NEW u \in Threads, Creates(u, "apply")'
      PROVE  loans'[request'[u].loan].owner = 0
  <2>1. Creates(u, "apply")
    BY <1>2, <1>4
  <2>2. loans[request[u].loan].owner = 0
    BY <2>1 DEF IdsFree
  <2>3. ASSUME request[u].loan = request[t].loan, Creates(t, "apply"), ~Creates(t, "apply")'
        PROVE  FALSE
    <3>1. u # t
      BY <1>4, <2>3
    <3>2. QED
      BY <2>1, <2>3, <3>1, Zenon DEF IdsFree
  <2>4. QED
    BY <2>2, <2>3
<1>5. QED
  BY <1>2, <1>3, <1>4 DEF IdsFree

LEMMA TablesSoundNext == ASSUME ThreadsSound, TablesSound, [Next]_vars PROVE TablesSound'
<1>0. RowsSound /\ OrderSound /\ IdsFree
  BY DEF TablesSound
<1>a. ASSUME UNCHANGED <<accounts, loans, goals, order>> PROVE RowsSound' /\ OrderSound'
  BY <1>0, <1>a DEF RowsSound, OrderSound
<1>b. \A u \in Threads : request[u].goal \in Goals /\ request[u].loan \in Loans
  BY AtStage, RequestFields, Zenon
<1>1. ASSUME NEW t \in Threads, NEW r \in Requests, Arrive(t, r) PROVE TablesSound'
  <2>1. /\ pc[t] = "idle" /\ request' = [request EXCEPT ![t] = r] /\ request'[t] = r
        /\ OthersStay(t)
    BY <1>1, Arrives, Zenon
  <2>2. UNCHANGED <<accounts, loans, goals, order>> /\ FreshId(r)
    BY <1>1 DEF Arrive, tables
  <2>3. \A u \in Threads : u # t => request'[u] = request[u]
    BY <2>1 DEF ThreadsSound
  <2>4. ASSUME NEW op, NEW u \in Threads, u # t, Creates(u, op)'
        PROVE  Creates(u, op) /\ pc[u] # "idle"
    <3>1. pc'[u] = pc[u] /\ request'[u] = request[u]
      BY <2>1, <2>3, <2>4 DEF OthersStay
    <3>2. QED
      BY <2>4, <3>1 DEF Creates, OpOf, RouteOf, Before
  <2>5. \A op : Creates(t, op)' => Routes[r.route].op = op
    BY <2>1 DEF Creates, OpOf, RouteOf
  <2>6. /\ Creates(t, "createGoal")' => goals[r.goal].owner = 0
               /\ \A u \in Threads : pc[u] # "idle" => request[u].goal # r.goal
        /\ Creates(t, "apply")' => loans[r.loan].owner = 0
               /\ \A u \in Threads : pc[u] # "idle" => request[u].loan # r.loan
    BY <2>2, <2>5 DEF FreshId
  <2>7. ASSUME NEW u \in Threads, Creates(u, "createGoal")' PROVE goals'[request'[u].goal].owner = 0
    <3>1. CASE u = t
      BY <2>1, <2>2, <2>6, <2>7, <3>1
    <3>2. CASE u # t
      BY <1>0, <2>2, <2>3, <2>4, <2>7, <3>2 DEF IdsFree
    <3>3. QED
      BY <3>1, <3>2
  <2>8. ASSUME NEW u \in Threads, Creates(u, "apply")' PROVE loans'[request'[u].loan].owner = 0
    <3>1. CASE u = t
      BY <2>1, <2>2, <2>6, <2>8, <3>1
    <3>2. CASE u # t
      BY <1>0, <2>2, <2>3, <2>4, <2>8, <3>2 DEF IdsFree
    <3>3. QED
      BY <3>1, <3>2
  <2>9. ASSUME NEW u \in Threads, NEW v \in Threads, u # v,
               Creates(u, "createGoal")', Creates(v, "createGoal")'
        PROVE  request'[u].goal # request'[v].goal
    <3>1. CASE u = t
      BY <2>1, <2>3, <2>4, <2>6, <2>9, <3>1
    <3>2. CASE v = t
      BY <2>1, <2>3, <2>4, <2>6, <2>9, <3>2
    <3>3. CASE u # t /\ v # t
      BY <1>0, <2>3, <2>4, <2>9, <3>3 DEF IdsFree
    <3>4. QED
      BY <3>1, <3>2, <3>3
  <2>10. ASSUME NEW u \in Threads, NEW v \in Threads, u # v,
                Creates(u, "apply")', Creates(v, "apply")'
         PROVE  request'[u].loan # request'[v].loan
    <3>1. CASE u = t
      BY <2>1, <2>3, <2>4, <2>6, <2>10, <3>1
    <3>2. CASE v = t
      BY <2>1, <2>3, <2>4, <2>6, <2>10, <3>2
    <3>3. CASE u # t /\ v # t
      BY <1>0, <2>3, <2>4, <2>10, <3>3 DEF IdsFree
    <3>4. QED
      BY <3>1, <3>2, <3>3
  <2>11. IdsFree'
    BY <2>7, <2>8, <2>9, <2>10 DEF IdsFree
  <2>12. QED
    BY <1>a, <2>2, <2>11 DEF TablesSound
<1>2. ASSUME NEW t \in Threads, Serve(t) PROVE TablesSound'
  <2>0. OthersStay(t) /\ request' = request
    <3>1. Advance(t)
      BY <1>2 DEF Advance
    <3>2. QED
      BY <3>1, OneAdvances, Zenon
  <2>1. pc[t] = "serve" /\ (UNCHANGED tables \/ Written(t))
    BY <1>0, <1>2, ServeWrites, Zenon
  <2>2. pc'[t] \notin Before
    <3>1. \/ \E l, code, shown : Answer(t, l, code, shown)
          \/ RouteOf(t).after # "answer" /\ Goto(t, RouteOf(t).after)
      BY <1>2, Zenon DEF Serve
    <3>2. CASE \E l, code, shown : Answer(t, l, code, shown)
      <4>1. pc'[t] = "idle"
        BY <3>2, AnswerGoes, Zenon
      <4>2. QED
        BY <4>1 DEF Before
    <3>3. CASE RouteOf(t).after # "answer" /\ Goto(t, RouteOf(t).after)
      <4>1. Staged(t) /\ Suits(request[t].route, RouteOf(t))
        BY AtStage, Zenon
      <4>2. OpOf(t) # "none"
        BY <2>1, <4>1 DEF Staged, Before
      <4>3. RouteOf(t).after \in {"newest", "goal", "invalidate"}
        BY <3>3, <4>1, <4>2 DEF Suits, OpOf
      <4>4. pc'[t] = RouteOf(t).after
        <5>1. pc \in [Threads -> Stages]
          BY Zenon DEF ThreadsSound
        <5>2. QED
          BY <3>3, <5>1 DEF Goto
      <4>5. QED
        BY <4>3, <4>4 DEF Before
    <3>4. QED
      BY <3>1, <3>2, <3>3
  <2>3. \A op : ~Creates(t, op)'
    BY <2>2 DEF Creates
  <2>4. \A op : OpOf(t) = op => Creates(t, op)
    BY <2>1 DEF Creates, Before
  <2>5. \A g \in Goals : \/ goals'[g].owner = goals[g].owner
                         \/ /\ g = request[t].goal /\ Creates(t, "createGoal")
                            /\ ~Creates(t, "createGoal")'
    <3>1. CASE UNCHANGED tables
      BY <3>1 DEF tables
    <3>2. CASE Written(t)
      BY <2>3, <2>4, <3>2 DEF Written, GoalWritten
    <3>3. QED
      BY <2>1, <3>1, <3>2
  <2>6. \A l \in Loans : \/ loans'[l].owner = loans[l].owner
                         \/ /\ l = request[t].loan /\ Creates(t, "apply")
                            /\ ~Creates(t, "apply")'
    <3>1. CASE UNCHANGED tables
      BY <3>1 DEF tables
    <3>2. CASE Written(t)
      BY <2>3, <2>4, <3>2 DEF Written, LoanWritten
    <3>3. QED
      BY <2>1, <3>1, <3>2
  <2>7. IdsFree'
    BY <1>0, <1>b, <2>0, <2>3, <2>5, <2>6, IdsStayFree, Zenon
  <2>8. RowsSound' /\ OrderSound'
    <3>1. CASE UNCHANGED tables
      BY <1>a, <3>1 DEF tables
    <3>2. CASE Written(t)
      BY <2>1, <3>2, OrderWritten DEF Written
    <3>3. QED
      BY <2>1, <3>1, <3>2
  <2>9. QED
    BY <2>7, <2>8 DEF TablesSound
<1>3. ASSUME NEW t \in Threads, Advance(t), ~Serve(t) PROVE TablesSound'
  <2>0. OthersStay(t) /\ request' = request
    BY <1>3, OneAdvances, Zenon
  <2>1. UNCHANGED <<accounts, loans, goals, order>> /\ (pc'[t] \in Before => pc[t] \in Before)
    <3>1. CASE Invalidate(t)
      <4>1. pc'[t] = "idle" /\ UNCHANGED <<accounts, loans, goals, order>>
        BY <3>1, Invalidates
      <4>2. QED
        BY <4>1 DEF Before
    <3>2. CASE ~Invalidate(t)
      BY <1>3, <3>2, OnlyServeWrites DEF OnlyReads
    <3>3. QED
      BY <3>1, <3>2
  <2>2. \A op : Creates(t, op)' => Creates(t, op)
    BY <2>0, <2>1 DEF Creates, OpOf, RouteOf
  <2>3. (\A g \in Goals : goals'[g].owner = goals[g].owner)
        /\ (\A l \in Loans : loans'[l].owner = loans[l].owner)
    BY <2>1
  <2>4. IdsFree'
    BY <1>0, <1>b, <2>0, <2>2, <2>3, IdsStayFree, Zenon
  <2>5. QED
    BY <1>a, <2>1, <2>4 DEF TablesSound
<1>4. ASSUME UNCHANGED <<accounts, loans, goals, order, pc, request>> PROVE TablesSound'
  BY <1>0, <1>a, <1>4 DEF TablesSound, IdsFree, Creates, OpOf, RouteOf
<1>5. QED
  <2>1. Tick \/ Outage \/ Closing \/ UNCHANGED vars =>
            UNCHANGED <<accounts, loans, goals, order, pc, request>>
    BY DEF Tick, Outage, Closing, vars, threadVars, tables
  <2>2. QED
    BY <1>1, <1>2, <1>3, <1>4, <2>1, Zenon DEF Next

\* The rows are sound and the order lists the stored goals.
LEMMA TablesStay == Spec => []TablesSound
<1>1. TablesSound /\ ThreadsSound /\ [Next]_vars => TablesSound'
  BY TablesSoundNext
<1>2. QED
  BY <1>1, TablesSoundInit, ThreadsStay, PTL DEF Spec

-------------------------------------------------------------------------------
(* The cached lists *)

\* Steps that neither read nor change what the cached lists tell.
Bystander(t) ==
    /\ pc[t] # "invalidate" /\ pc'[t] # "fill"
    /\ UNCHANGED <<accounts, settled, cache, client, redis, outages>>

LEMMA OnlyLists ==
  ASSUME ThreadsSound, NEW t \in Threads, Advance(t),
         ~Serve(t), ~Invalidate(t), ~Lookup(t), ~Query(t), ~Fill(t), ~Ping(t)
  PROVE  Bystander(t)
<1>a. ASSUME NEW l, NEW code, NEW shown, Answer(t, l, code, shown) PROVE pc'[t] # "fill"
  <2>1. pc'[t] = "idle"
    BY <1>a, AnswerGoes, Zenon
  <2>2. QED
    BY <2>1
<1>b. ASSUME NEW stage, stage # "fill", Goto(t, stage) PROVE pc'[t] # "fill"
  <2>1. pc \in [Threads -> Stages] /\ pc' = [pc EXCEPT ![t] = stage]
    BY <1>b, Zenon DEF ThreadsSound, Goto
  <2>2. QED
    BY <1>b, <2>1
<1>1. CASE Check(t)
  <2>1. pc[t] = "check" /\ UNCHANGED <<accounts, settled, cache, client, redis, outages>>
    BY <1>1 DEF Check, Serving, tables, history, cacheVars, boundVars
  <2>2. \/ \E code : Answer(t, NoLocal, code, 0)
        \/ Goto(t, Checked(RouteOf(t)))
    BY <1>1, Zenon DEF Check, Stay
  <2>3. Checked(RouteOf(t)) # "fill"
    <3>1. Staged(t) /\ OpOf(t) # "none"
      BY <2>1, AtStage DEF Staged, Before
    <3>2. QED
      BY <3>1 DEF Checked, OpOf
  <2>4. pc'[t] # "fill"
    BY <1>a, <1>b, <2>2, <2>3, Zenon
  <2>5. QED
    BY <2>1, <2>4 DEF Bystander
<1>2. CASE CleanUp(t) \/ CountOperations(t) \/ Record(t)
  <2>1. /\ pc[t] \in {"clean up", "count", "record"}
        /\ UNCHANGED <<accounts, settled, cache, client, redis, outages>>
    BY <1>2 DEF CleanUp, CountOperations, Record, Serving, tables, history, cacheVars, boundVars
  <2>2. \/ \E l, code, shown : Answer(t, l, code, shown)
        \/ \E stage \in {"count", "record", "serve"} : Goto(t, stage)
    BY <1>2, Zenon DEF CleanUp, CountOperations, Record, Stay
  <2>3. pc'[t] # "fill"
    BY <1>a, <1>b, <2>2
  <2>4. QED
    BY <2>1, <2>3 DEF Bystander
<1>3. CASE ShowNewest(t) \/ ShowGoal(t) \/ NextPage(t) \/ RunQuery(t)
  <2>1. /\ pc[t] \in {"newest", "goal", "page", "report"}
        /\ UNCHANGED <<accounts, settled, cache, client, redis, outages>>
    BY <1>3 DEF ShowNewest, ShowGoal, NextPage, RunQuery, Serving, tables, history, cacheVars, boundVars
  <2>2. \/ \E l, code, shown : Answer(t, l, code, shown)
        \/ \E stage \in {"page", "report"} : Goto(t, stage)
    BY <1>3, Zenon DEF ShowNewest, ShowGoal, NextPage, RunQuery
  <2>3. pc'[t] # "fill"
    BY <1>a, <1>b, <2>2
  <2>4. QED
    BY <2>1, <2>3 DEF Bystander
<1>4. QED
  BY <1>1, <1>2, <1>3 DEF Advance

\* A list tells of an account what it told when the account's row tells the same.
LEMMA ToldStays ==
  ASSUME NEW a \in Accounts, accounts \in [Accounts -> AccountRow],
         accounts' \in [Accounts -> AccountRow], SameStatus(accounts[a], accounts'[a]),
         NEW page, Told(page, accounts, a)
  PROVE  Told(page, accounts', a)
BY DEF Told, SameStatus, Listed

LEMMA PageTold ==
  ASSUME NEW a PROVE Told(Page, accounts, a)
BY DEF Told, Page

\* The lists go on telling of every account that is still settled.
LEMMA PagesStay ==
  ASSUME PagesTold, RowsSound, RowsSound', settled' \subseteq Accounts,
         NEW t \in Threads, OthersStay(t),
         \A u \in Threads : u # t => request'[u] = request[u],
         cache' = cache, pc[t] # "invalidate", pc'[t] # "fill",
         \A a \in settled' : \/ a \in settled /\ SameStatus(accounts[a], accounts'[a])
                             \/ Changing(a)' /\ \A u \in Threads : pc[u] # "fill"
  PROVE  PagesTold'
<1>0. accounts \in [Accounts -> AccountRow] /\ accounts' \in [Accounts -> AccountRow]
  BY DEF RowsSound
<1>1. ASSUME NEW k \in DOMAIN cache', NEW a \in settled', ~Changing(a)'
      PROVE  Told(cache'[k].page, accounts', a)
  <2>1. a \in settled /\ SameStatus(accounts[a], accounts'[a])
    BY <1>1
  <2>2. ~Changing(a)
    <3>1. ASSUME NEW u \in Threads, pc[u] = "invalidate", request[u].acc = a PROVE FALSE
      <4>1. u # t
        BY <3>1
      <4>2. pc'[u] = "invalidate" /\ request'[u].acc = a
        BY <3>1, <4>1 DEF OthersStay
      <4>3. QED
        BY <1>1, <4>2 DEF Changing
    <3>2. QED
      BY <3>1 DEF Changing
  <2>3. Told(cache[k].page, accounts, a)
    BY <1>1, <2>1, <2>2 DEF PagesTold
  <2>4. a \in Accounts
    BY <1>1
  <2>5. QED
    BY <1>0, <2>1, <2>3, <2>4, ToldStays, Zenon
<1>2. ASSUME NEW u \in Threads, pc'[u] = "fill", NEW a \in settled'
      PROVE  Told(local'[u].page, accounts', a)
  <2>1. u # t
    BY <1>2
  <2>2. pc[u] = "fill" /\ local'[u] = local[u]
    BY <1>2, <2>1 DEF OthersStay
  <2>3. a \in settled /\ SameStatus(accounts[a], accounts'[a])
    BY <2>2
  <2>4. Told(local[u].page, accounts, a)
    BY <2>2, <2>3 DEF PagesTold
  <2>5. a \in Accounts
    BY <1>2
  <2>6. QED
    BY <1>0, <2>2, <2>3, <2>4, <2>5, ToldStays, Zenon
<1>3. QED
  BY <1>1, <1>2 DEF PagesTold

\* A connection, and what it leaves of the cache.
LEMMA Connected ==
  ASSUME CacheSound, Connect, UNCHANGED <<cache, redis, outages>>, settled' \subseteq Accounts
  PROVE  CacheSound'
BY DEF CacheSound, Connect

LEMMA ReachableIsUp ==
  ASSUME CacheSound, Connect, Reachable PROVE client' = "up"
BY DEF CacheSound, Connect, Reachable

LEMMA ListsSoundInit == ASSUME Init PROVE ListsSound
<1>1. /\ settled = Accounts /\ client = "new" /\ redis = TRUE /\ outages = 0 /\ cache = <<>>
      /\ pc = [t \in Threads |-> "idle"]
  BY DEF Init
<1>2. DOMAIN cache = {}
  BY <1>1
<1>3. QED
  BY <1>1, <1>2 DEF ListsSound, CacheSound, PagesTold

LEMMA ServeTells ==
  ASSUME ThreadsSound, TablesSound, TablesSound', ListsSound, NEW t \in Threads, Serve(t)
  PROVE  ListsSound'
<1>0. CacheSound /\ PagesTold /\ RowsSound /\ RowsSound' /\ IdsFree
  BY DEF ListsSound, TablesSound
<1>1. OthersStay(t) /\ request' = request
  <2>1. Advance(t)
    BY DEF Advance
  <2>2. QED
    BY <2>1, OneAdvances, Zenon
<1>2. request[t].acc \in Accounts /\ pc[t] = "serve" /\ UNCHANGED <<cache, client, redis, outages>>
  <2>1. request[t].acc \in Accounts
    BY AtStage, RequestFields, Zenon
  <2>2. QED
    BY <2>1 DEF Serve, Serving, cacheVars, boundVars
<1>3. pc'[t] # "fill"
  <2>1. \/ \E l, code, shown : Answer(t, l, code, shown)
        \/ RouteOf(t).after # "answer" /\ Goto(t, RouteOf(t).after)
    BY Zenon DEF Serve
  <2>2. CASE \E l, code, shown : Answer(t, l, code, shown)
    <3>1. pc'[t] = "idle"
      BY <2>2, AnswerGoes, Zenon
    <3>2. QED
      BY <3>1
  <2>3. CASE Goto(t, RouteOf(t).after)
    <3>1. Staged(t) /\ Suits(request[t].route, RouteOf(t))
      BY AtStage, Zenon
    <3>2. OpOf(t) # "none"
      BY <1>2, <3>1 DEF Staged, Before
    <3>3. RouteOf(t).after # "fill"
      BY <3>1, <3>2 DEF Suits, OpOf
    <3>4. pc'[t] = RouteOf(t).after
      <4>1. pc \in [Threads -> Stages]
        BY Zenon DEF ThreadsSound
      <4>2. QED
        BY <2>3, <4>1 DEF Goto
    <3>5. QED
      BY <3>3, <3>4
  <2>4. QED
    BY <2>1, <2>2, <2>3
<1>a. ASSUME settled' \subseteq Accounts,
             \A a \in settled' : \/ a \in settled /\ SameStatus(accounts[a], accounts'[a])
                                 \/ Changing(a)' /\ \A u \in Threads : pc[u] # "fill"
      PROVE  ListsSound'
  <2>1. CacheSound'
    BY <1>0, <1>2, <1>a DEF CacheSound
  <2>2. PagesTold'
    <3>1. \A u \in Threads : u # t => request'[u] = request[u]
      BY <1>1
    <3>2. cache' = cache /\ pc[t] # "invalidate"
      BY <1>2
    <3>3. QED
      BY <1>0, <1>1, <1>3, <1>a, <3>1, <3>2, PagesStay, Zenon
  <2>3. QED
    BY <2>1, <2>2 DEF ListsSound
<1>4. CASE UNCHANGED <<tables, settled>>
  <2>1. \A a \in settled' : a \in settled /\ SameStatus(accounts[a], accounts'[a])
    BY <1>4 DEF tables, SameStatus
  <2>2. QED
    BY <1>0, <1>4, <1>a, <2>1 DEF CacheSound
<1>5. CASE /\ Written(t) /\ Settling(t)
           /\ \/ RouteOf(t).after = "answer"
              \/ RouteOf(t).after # "answer" /\ Goto(t, RouteOf(t).after)
  <2>1. \A a \in Accounts \ {request[t].acc} : SameStatus(accounts[a], accounts'[a])
    BY <1>5 DEF Written
  <2>2. \/ settled' = settled /\ \A a \in Accounts : SameStatus(accounts[a], accounts'[a])
        \/ /\ request[t].route \in InvalidatingRoutes /\ \A u \in Threads : pc[u] # "fill"
           /\ settled' = settled \cup {request[t].acc}
        \/ settled' = settled \ {request[t].acc}
    BY <1>5 DEF Settling, SameStatus
  <2>3. CASE settled' = settled /\ \A a \in Accounts : SameStatus(accounts[a], accounts'[a])
    BY <1>0, <1>a, <2>3 DEF CacheSound
  <2>4. CASE settled' = settled \ {request[t].acc}
    <3>1. \A a \in settled' : a \in settled /\ SameStatus(accounts[a], accounts'[a])
      BY <1>0, <2>1, <2>4 DEF CacheSound
    <3>2. QED
      BY <1>0, <1>a, <2>4, <3>1 DEF CacheSound
  <2>5. CASE /\ request[t].route \in InvalidatingRoutes /\ \A u \in Threads : pc[u] # "fill"
             /\ settled' = settled \cup {request[t].acc}
    <3>1. ASSUME NEW a, a = request[t].acc PROVE Changing(a)'
      <4>1. Suits(request[t].route, RouteOf(t))
        BY AtStage, Zenon
      <4>2. RouteOf(t).after = "invalidate"
        BY <2>5, <4>1 DEF Suits
      <4>3. Goto(t, "invalidate")
        BY <1>5, <4>2
      <4>4. pc'[t] = "invalidate"
        <5>1. pc \in [Threads -> Stages]
          BY Zenon DEF ThreadsSound
        <5>2. QED
          BY <4>3, <5>1 DEF Goto
      <4>5. QED
        BY <1>1, <3>1, <4>4 DEF Changing
    <3>2. ASSUME NEW a \in settled'
          PROVE  \/ a \in settled /\ SameStatus(accounts[a], accounts'[a])
                 \/ Changing(a)' /\ \A u \in Threads : pc[u] # "fill"
      <4>1. CASE a = request[t].acc
        BY <2>5, <3>1, <4>1
      <4>2. CASE a # request[t].acc
        <5>1. a \in settled /\ a \in Accounts
          BY <1>0, <2>5, <4>2 DEF CacheSound
        <5>2. QED
          BY <2>1, <4>2, <5>1
      <4>3. QED
        BY <4>1, <4>2
    <3>3. QED
      BY <1>0, <1>2, <1>a, <2>5, <3>2 DEF CacheSound
  <2>6. QED
    BY <2>2, <2>3, <2>4, <2>5
<1>6. QED
  <2>1. \/ UNCHANGED <<tables, settled>>
        \/ /\ Written(t) /\ Settling(t)
           /\ \/ RouteOf(t).after = "answer"
              \/ RouteOf(t).after # "answer" /\ Goto(t, RouteOf(t).after)
    BY <1>0, ServeWrites, Zenon
  <2>2. QED
    BY <1>4, <1>5, <2>1

\* The lists are deleted, unless Redis fails.
LEMMA InvalidateTells ==
  ASSUME ThreadsSound, RowsSound, RowsSound', ListsSound, NEW t \in Threads, Invalidate(t)
  PROVE  ListsSound'
<1>0. CacheSound /\ PagesTold
  BY DEF ListsSound
<1>1. OthersStay(t) /\ request' = request
  <2>1. Advance(t)
    BY DEF Advance
  <2>2. QED
    BY <2>1, OneAdvances, Zenon
<1>2. /\ pc'[t] = "idle" /\ Connect
      /\ cache' = IF Reachable THEN <<>> ELSE cache
      /\ settled' = IF Raises THEN settled \ {request[t].acc} ELSE settled
      /\ UNCHANGED <<accounts, redis, outages>>
  BY Invalidates
<1>3. \/ Reachable /\ DOMAIN cache' = {} /\ settled' = settled
      \/ cache' = cache /\ settled' = settled \ {request[t].acc}
      \/ DOMAIN cache = {} /\ cache' = cache /\ settled' = settled
  <2>1. CASE Reachable
    BY <1>2, <2>1 DEF Reachable, Raises
  <2>2. CASE Raises
    BY <1>2, <2>2 DEF Reachable, Raises
  <2>3. CASE client = "off"
    BY <1>0, <1>2, <2>3 DEF CacheSound, Reachable, Raises
  <2>4. QED
    BY <1>0, <2>1, <2>2, <2>3 DEF CacheSound, Reachable, Raises
<1>4. CacheSound'
  <2>1. settled' \subseteq Accounts /\ outages' \in Nat /\ redis' \in BOOLEAN /\ (~redis' => outages' > 0)
    BY <1>0, <1>2, <1>3 DEF CacheSound
  <2>2. client' \in {"new", "up", "off"}
    BY <1>0, <1>2 DEF CacheSound, Connect
  <2>3. client' # "up" => DOMAIN cache' = {}
    BY <1>0, <1>2, <1>3 DEF CacheSound, Connect
  <2>4. \A k \in DOMAIN cache' : k \in {"list", "search"} /\ cache'[k].expires \in Nat
    BY <1>0, <1>3 DEF CacheSound
  <2>5. QED
    BY <2>1, <2>2, <2>3, <2>4 DEF CacheSound
<1>5. ASSUME NEW k \in DOMAIN cache', NEW a \in settled', ~Changing(a)'
      PROVE  Told(cache'[k].page, accounts', a)
  <2>1. cache' = cache /\ settled' = settled \ {request[t].acc}
    BY <1>3, <1>5
  <2>2. ~Changing(a)
    <3>1. ASSUME NEW u \in Threads, pc[u] = "invalidate", request[u].acc = a PROVE FALSE
      <4>1. u # t
        BY <1>5, <2>1, <3>1
      <4>2. pc'[u] = "invalidate" /\ request'[u].acc = a
        BY <1>1, <3>1, <4>1 DEF OthersStay
      <4>3. QED
        BY <1>5, <4>2 DEF Changing
    <3>2. QED
      BY <3>1 DEF Changing
  <2>3. QED
    BY <1>0, <1>2, <1>5, <2>1, <2>2 DEF PagesTold
<1>6. ASSUME NEW u \in Threads, pc'[u] = "fill", NEW a \in settled'
      PROVE  Told(local'[u].page, accounts', a)
  <2>1. u # t
    BY <1>2, <1>6
  <2>2. pc[u] = "fill" /\ local'[u] = local[u]
    BY <1>1, <1>6, <2>1 DEF OthersStay
  <2>3. a \in settled
    BY <1>3
  <2>4. QED
    BY <1>0, <1>2, <2>2, <2>3 DEF PagesTold
<1>7. PagesTold'
  BY <1>5, <1>6 DEF PagesTold
<1>8. QED
  BY <1>4, <1>7 DEF ListsSound

\* A list that was read tells of every account,
LEMMA QueryTells ==
  ASSUME ThreadsSound, RowsSound, RowsSound', ListsSound, NEW t \in Threads, Query(t)
  PROVE  ListsSound'
<1>0. CacheSound /\ PagesTold
  BY DEF ListsSound
<1>1. OthersStay(t) /\ request' = request
  <2>1. Advance(t)
    BY DEF Advance
  <2>2. QED
    BY <2>1, OneAdvances, Zenon
<1>2. /\ UNCHANGED <<accounts, settled, cache, client, redis, outages>>
      /\ local' = [local EXCEPT ![t].page = Page] /\ pc[t] = "query"
  BY DEF Query, tables, cacheVars, boundVars, history, Serving
<1>3. local'[t].page = Page
  <2>1. DOMAIN local = Threads /\ DOMAIN local[t] = DOMAIN NoLocal
    BY AtStage DEF ThreadsSound, Staged
  <2>2. "page" \in DOMAIN NoLocal
    BY DEF NoLocal
  <2>3. QED
    BY <1>2, <2>1, <2>2
<1>4. CacheSound'
  BY <1>0, <1>2 DEF CacheSound
<1>5. \A a : Changing(a)' <=> Changing(a)
  <2>1. pc' = [pc EXCEPT ![t] = "fill"] /\ pc \in [Threads -> Stages]
    BY Zenon DEF Query, Goto, ThreadsSound
  <2>2. QED
    BY <1>1, <1>2, <2>1 DEF Changing
<1>6. ASSUME NEW u \in Threads, pc'[u] = "fill", NEW a \in settled'
      PROVE  Told(local'[u].page, accounts', a)
  <2>1. CASE u = t
    <3>1. Told(Page, accounts, a)
      BY PageTold
    <3>2. QED
      BY <1>2, <1>3, <2>1, <3>1
  <2>2. CASE u # t
    BY <1>0, <1>1, <1>2, <1>6, <2>2 DEF PagesTold, OthersStay
  <2>3. QED
    BY <2>1, <2>2
<1>7. PagesTold'
  BY <1>0, <1>2, <1>5, <1>6 DEF PagesTold
<1>8. QED
  BY <1>4, <1>7 DEF ListsSound

\* and is stored as it was read.
LEMMA FillTells ==
  ASSUME ThreadsSound, RowsSound, RowsSound', ListsSound, clock \in Nat, NEW t \in Threads, Fill(t)
  PROVE  ListsSound'
<1> DEFINE key == PageKey(request[t])
           entry == [page |-> local[t].page, expires |-> clock + Ttl]
<1>0. CacheSound /\ PagesTold
  BY DEF ListsSound
<1>1. OthersStay(t) /\ request' = request
  <2>1. Advance(t)
    BY DEF Advance
  <2>2. QED
    BY <2>1, OneAdvances, Zenon
<1>2. /\ pc[t] = "fill" /\ Connect /\ UNCHANGED <<accounts, settled, redis, outages>>
      /\ cache' = IF Reachable
                  THEN [k \in DOMAIN cache \cup {key} |-> IF k = key THEN entry ELSE cache[k]]
                  ELSE cache
  BY DEF Fill, With, tables, boundVars, history, Serving
<1>3. pc'[t] = "idle"
  <2>1. \E code : Answer(t, NoLocal, code, 0)
    BY Zenon DEF Fill
  <2>2. QED
    BY <2>1, AnswerGoes, Zenon
<1>4. key \in {"list", "search"}
  <2>1. Staged(t)
    BY AtStage, Zenon
  <2>2. QED
    BY <1>2, <2>1 DEF Staged, Listing, PageKey
<1>5. \A a : Changing(a)' <=> Changing(a)
  BY <1>1, <1>2, <1>3 DEF Changing, OthersStay
<1>6. \A a \in settled : Told(local[t].page, accounts, a)
  BY <1>0, <1>2 DEF PagesTold
<1>7. /\ entry.expires \in Nat /\ entry.page = local[t].page
  BY ApiAssumption
<1> HIDE DEF key, entry
<1>8. ASSUME NEW k \in DOMAIN cache'
      PROVE  (k = key /\ Reachable /\ cache'[k] = entry) \/ (k \in DOMAIN cache /\ cache'[k] = cache[k])
  BY <1>2, <1>8
<1>9. CacheSound'
  <2>1. /\ client' \in {"new", "up", "off"} /\ settled' \subseteq Accounts /\ outages' \in Nat
        /\ redis' \in BOOLEAN /\ (~redis' => outages' > 0)
    BY <1>0, <1>2 DEF CacheSound, Connect
  <2>2. client' # "up" => DOMAIN cache' = {}
    <3>1. CASE Reachable
      BY <1>0, <1>2, <3>1, ReachableIsUp
    <3>2. CASE ~Reachable
      BY <1>0, <1>2, <3>2 DEF CacheSound, Connect
    <3>3. QED
      BY <3>1, <3>2
  <2>3. \A k \in DOMAIN cache' : k \in {"list", "search"} /\ cache'[k].expires \in Nat
    BY <1>0, <1>4, <1>7, <1>8 DEF CacheSound
  <2>4. QED
    BY <2>1, <2>2, <2>3 DEF CacheSound
<1>10. ASSUME NEW k \in DOMAIN cache', NEW a \in settled', ~Changing(a)'
       PROVE  Told(cache'[k].page, accounts', a)
  <2>1. ~Changing(a) /\ a \in settled /\ accounts' = accounts
    BY <1>2, <1>5, <1>10
  <2>2. CASE cache'[k] = entry
    <3>1. Told(local[t].page, accounts, a)
      BY <1>6, <2>1
    <3>2. QED
      BY <1>7, <2>1, <2>2, <3>1
  <2>3. CASE k \in DOMAIN cache /\ cache'[k] = cache[k]
    <3>1. Told(cache[k].page, accounts, a)
      BY <1>0, <2>1, <2>3 DEF PagesTold
    <3>2. QED
      BY <2>1, <2>3, <3>1
  <2>4. QED
    BY <1>8, <2>2, <2>3
<1>11. ASSUME NEW u \in Threads, pc'[u] = "fill", NEW a \in settled'
       PROVE  Told(local'[u].page, accounts', a)
  BY <1>0, <1>1, <1>2, <1>3, <1>11 DEF PagesTold, OthersStay
<1>12. PagesTold'
  BY <1>10, <1>11 DEF PagesTold
<1>13. QED
  BY <1>9, <1>12 DEF ListsSound

LEMMA ListsSoundNext ==
  ASSUME ThreadsSound, TimesKnown, TablesSound, TablesSound', ListsSound, [Next]_vars
  PROVE  ListsSound'
<1>0. CacheSound /\ PagesTold /\ RowsSound /\ RowsSound' /\ clock \in Nat
  BY DEF ListsSound, TablesSound, TimesKnown
<1>a. ASSUME UNCHANGED accounts, settled' = settled
      PROVE  /\ settled' \subseteq Accounts
             /\ \A a \in settled' : \/ a \in settled /\ SameStatus(accounts[a], accounts'[a])
                                    \/ Changing(a)' /\ \A u \in Threads : pc[u] # "fill"
  BY <1>0, <1>a DEF CacheSound, SameStatus
<1>1. ASSUME NEW t \in Threads, NEW r \in Requests, Arrive(t, r) PROVE ListsSound'
  <2>1. /\ pc[t] = "idle" /\ request' = [request EXCEPT ![t] = r] /\ OthersStay(t) /\ Welcomed(t)
    BY <1>1, Arrives, Zenon
  <2>2. UNCHANGED <<accounts, settled, cache, client, redis, outages>>
    BY <1>1 DEF Arrive, tables, cacheVars
  <2>3. \A u \in Threads : u # t => request'[u] = request[u]
    BY <2>1 DEF ThreadsSound
  <2>4. pc[t] # "invalidate" /\ pc'[t] # "fill"
    <3>1. pc'[t] \in {"idle", "check", "clean up", "serve", "lookup", "page", "ping", "report"}
      BY <2>1, Zenon DEF Welcomed
    <3>2. QED
      BY <2>1, <3>1
  <2>5. CacheSound'
    BY <1>0, <2>2 DEF CacheSound
  <2>6. PagesTold'
    BY <1>0, <1>a, <2>1, <2>2, <2>3, <2>4, PagesStay, Zenon
  <2>7. QED
    BY <2>5, <2>6 DEF ListsSound
<1>2. ASSUME NEW t \in Threads, Advance(t) PROVE ListsSound'
  <2>0. OthersStay(t) /\ \A u \in Threads : u # t => request'[u] = request[u]
    BY <1>2, OneAdvances, Zenon
  <2>1. CASE Serve(t)
    BY <2>1, ServeTells
  <2>2. CASE Invalidate(t)
    BY <1>0, <2>2, InvalidateTells
  <2>3. CASE Query(t)
    BY <1>0, <2>3, QueryTells
  <2>4. CASE Fill(t)
    BY <1>0, <2>4, FillTells
  <2>5. CASE Lookup(t) \/ Ping(t)
    <3>1. /\ pc[t] \in {"lookup", "ping"} /\ Connect
          /\ UNCHANGED <<accounts, settled, cache, redis, outages>>
      BY <2>5 DEF Lookup, Ping, Serving, tables, history, boundVars
    <3>2. pc[t] # "invalidate" /\ cache' = cache /\ UNCHANGED accounts /\ settled' = settled
      BY <3>1
    <3>3. pc'[t] # "fill"
      <4>1. \/ \E l, code, shown : Answer(t, l, code, shown)
            \/ Goto(t, "query")
        BY <2>5, Zenon DEF Lookup, Ping, Stay
      <4>2. CASE \E l, code, shown : Answer(t, l, code, shown)
        <5>1. pc'[t] = "idle"
          BY <4>2, AnswerGoes, Zenon
        <5>2. QED
          BY <5>1
      <4>3. CASE Goto(t, "query")
        <5>1. pc \in [Threads -> Stages]
          BY Zenon DEF ThreadsSound
        <5>2. QED
          BY <4>3, <5>1 DEF Goto
      <4>4. QED
        BY <4>1, <4>2, <4>3
    <3>4. CacheSound'
      BY <1>0, <1>a, <3>1, Connected
    <3>5. PagesTold'
      BY <1>0, <1>a, <2>0, <3>2, <3>3, PagesStay, Zenon
    <3>6. QED
      BY <3>4, <3>5 DEF ListsSound
  <2>6. CASE ~Serve(t) /\ ~Invalidate(t) /\ ~Lookup(t) /\ ~Query(t) /\ ~Fill(t) /\ ~Ping(t)
    <3>1. Bystander(t)
      BY <1>2, <2>6, OnlyLists, Zenon
    <3>2. /\ pc[t] # "invalidate" /\ pc'[t] # "fill" /\ cache' = cache /\ UNCHANGED accounts
          /\ settled' = settled /\ UNCHANGED <<client, redis, outages>>
      BY <3>1 DEF Bystander
    <3>3. CacheSound'
      BY <1>0, <3>2 DEF CacheSound
    <3>4. PagesTold'
      BY <1>0, <1>a, <2>0, <3>2, PagesStay, Zenon
    <3>5. QED
      BY <3>3, <3>4 DEF ListsSound
  <2>7. QED
    BY <2>1, <2>2, <2>3, <2>4, <2>5, <2>6
<1>3. ASSUME UNCHANGED <<accounts, settled, cache, client, pc, local, request>>,
             \/ UNCHANGED <<redis, outages>>
             \/ redis' \in BOOLEAN /\ outages' = outages + 1
      PROVE  ListsSound'
  <2>1. CacheSound'
    BY <1>0, <1>3 DEF CacheSound
  <2>2. PagesTold'
    BY <1>0, <1>3 DEF PagesTold, Changing
  <2>3. QED
    BY <2>1, <2>2 DEF ListsSound
<1>4. QED
  <2>1. Tick \/ Closing \/ UNCHANGED vars =>
            UNCHANGED <<accounts, settled, cache, client, pc, local, request, redis, outages>>
    BY DEF Tick, Closing, vars, threadVars, tables, cacheVars, boundVars, history
  <2>2. Outage => /\ UNCHANGED <<accounts, settled, cache, client, pc, local, request>>
                  /\ redis' \in BOOLEAN /\ outages' = outages + 1
    BY DEF Outage, threadVars, tables, history
  <2>3. CASE Tick \/ Closing \/ UNCHANGED vars
    BY <1>3, <2>1, <2>3
  <2>4. CASE Outage
    BY <1>3, <2>2, <2>4
  <2>5. QED
    BY <1>1, <1>2, <2>3, <2>4, Zenon DEF Next

LEMMA ListsStay == Spec => []ListsSound
<1>1. /\ ListsSound /\ ThreadsSound /\ TimesKnown /\ TablesSound /\ TablesSound' /\ [Next]_vars
          => ListsSound'
  BY ListsSoundNext
<1>2. QED
  BY <1>1, ListsSoundInit, ThreadsStay, TimesStay, TablesStay, PTL DEF Spec

\* utils/cache.py and routes/admin.py: whatever the interleaving of readers and changes, and
\* whenever Redis fails, a cached list that is still valid tells the status of every account
\* whose last change was made, and its invalidation answered, through a v1 route while no
\* list was being read.
THEOREM CachedListsTellTheTruth == Spec => []ListTellsStatus
<1>1. ListsSound => ListTellsStatus
  BY DEF ListsSound, PagesTold, ListTellsStatus, Told
<1>2. QED
  BY <1>1, ListsStay, PTL

LEMMA ElementsTyped == ASSUME NEW T, NEW s \in Seq(T) PROVE Range(s) \subseteq T
<1>1. \A i \in DOMAIN s : s[i] \in T
  OBVIOUS
<1>2. QED
  BY <1>1 DEF Range

\* The columns keep their types, the order of the goals lists each stored goal once, no time
\* in the limiter's lists is of the future, and the client knows two lists.
THEOREM Typed == Spec => []TypeOK
<1>1. ThreadsSound /\ TimesKnown /\ TablesSound /\ ListsSound => TypeOK
  <2>1. ASSUME TimesKnown, NEW a \in Accounts PROVE Range(operations[a]) \subseteq 0 .. clock
    <3>1. operations[a] \in Seq(0 .. clock)
      BY <2>1 DEF TimesKnown
    <3>2. QED
      BY <3>1, ElementsTyped, Zenon
  <2>2. QED
    BY <2>1 DEF TypeOK, ThreadsSound, TablesSound, RowsSound, OrderSound, ListsSound, CacheSound
<1>2. QED
  BY <1>1, ThreadsStay, TimesStay, TablesStay, ListsStay, PTL

-------------------------------------------------------------------------------
(* The answers *)

LEMMA AnswersSoundMeans == AnswersSound => AnswersTellOutcome /\ CreatedIsShown
BY DEF AnswersSound, Outcome, Shown, AnswersTellOutcome, CreatedIsShown, OpOf, RouteOf

LEMMA AnswersSoundInit == ASSUME Init PROVE AnswersSound
<1>1. /\ pc = [t \in Threads |-> "idle"] /\ reply = [t \in Threads |-> NoReply]
  BY DEF Init
<1>2. NoReply.code = 0
  BY DEF NoReply
<1>3. QED
  BY <1>1, <1>2 DEF AnswersSound, Finds, Outcome, Shown

\* What a route refuses for itself it refuses with an error.
LEMMA RefusalIsError ==
  ASSUME NEW r PROVE Refusal(r) \in {0, 400, 403, 404}
<1> DEFINE row == accounts[r.acc]
           to == accounts[r.to]
           check == Routes[r.route].check
           Codes == {0, 400, 403, 404}
           parties == PartiesRefusal(row, to, r.acc = r.to)
           closing == CloseRefusal(row, r.value)
           funds == BalanceRefusal(row, r.value)
           gone == IF row.deleted THEN 404 ELSE 0
           either == IF row.deleted \/ to.deleted THEN 404 ELSE 0
           text == IF r.value = -1 THEN 400 ELSE 0
<1>1. parties \in Codes
  BY DEF PartiesRefusal
<1>2. closing \in Codes
  BY DEF CloseRefusal
<1>3. funds \in Codes
  BY DEF BalanceRefusal
<1>4. gone \in Codes /\ either \in Codes /\ text \in Codes /\ 0 \in Codes
  OBVIOUS
<1>5. Refusal(r) = CASE check = "parties"           -> parties
                     [] check = "both exist"        -> either
                     [] check = "text"              -> text
                     [] check = "text and password" -> closing
                     [] check = "exists"            -> gone
                     [] check = "balance"           -> funds
                     [] OTHER                       -> 0
  BY Zenon DEF Refusal
<1> HIDE DEF row, to, check, Codes, parties, closing, funds, gone, either, text
<1>6. Refusal(r) \in Codes
  BY <1>1, <1>2, <1>3, <1>4, <1>5
<1>7. QED
  BY <1>6 DEF Codes

\* An answer with an error that has written nothing, or to a request that writes nothing.
LEMMA ErrorTells ==
  ASSUME ThreadsSound, NEW t \in Threads, NEW l, NEW code, NEW shown, Answer(t, l, code, shown),
         ~l.wrote, code # 200, request' = request
  PROVE  (Finds(t) /\ Outcome(t) /\ Shown(t))'
<1>1. /\ pc'[t] = "idle"
      /\ reply'[t] = [code |-> code, wrote |-> l.wrote, shown |-> shown,
                      got |-> l.got, start |-> l.start, report |-> l.report]
  BY AnswerGoes
<1>2. reply'[t].code = code /\ reply'[t].wrote = l.wrote
  BY <1>1
<1>3. QED
  BY <1>1, <1>2 DEF Finds, Outcome, Shown

\* A step that leaves the request unanswered.
LEMMA WaitTells ==
  ASSUME NEW t \in Threads, Outcome(t), Shown(t), reply'[t] = reply[t], request'[t] = request[t],
         crowded \subseteq crowded', outages \in Nat, outages' \in Nat, outages <= outages'
  PROVE  Outcome(t)' /\ Shown(t)'
<1>1. OpOf(t)' = OpOf(t) /\ RouteOf(t)' = RouteOf(t)
  BY DEF OpOf, RouteOf
<1>2. outages > 0 => outages' > 0
  OBVIOUS
<1>3. QED
  BY <1>1, <1>2 DEF Outcome, Shown

\* A thread that has still to find its goals finds them after a step that leaves them.
LEMMA FindsStay ==
  ASSUME NEW t \in Threads, Finds(t), pc'[t] = pc[t], request'[t] = request[t],
         crowded \subseteq crowded', UNCHANGED <<goals, order>>
  PROVE  Finds(t)'
BY DEF Finds, OwnLast, OwnGoals

\* The goals of another account after a write.
LEMMA OwnLastStays ==
  ASSUME ThreadsSound, TablesSound, NEW t \in Threads, pc[t] = "serve", Written(t),
         NEW b \in Accounts, b # request[t].acc, NEW g \in Goals, OwnLast(b, g),
         OpOf(t) \in GoalCalls => request[t].goal # g
  PROVE  OwnLast(b, g)'
<1> DEFINE g0 == request[t].goal
           S == {x \in Goals : goals[x].owner = b}
           R == Goals \ {g0}
<1>0. g0 \in Goals /\ b # 0 /\ order \in Seq(Goals)
  <2>1. g0 \in Goals
    BY AtStage, RequestFields, Zenon
  <2>2. b # 0
    BY ApiAssumption
  <2>3. QED
    BY <2>1, <2>2 DEF TablesSound, OrderSound
<1>1. /\ \A x \in Goals \ {g0} : goals'[x] = goals[x]
      /\ GoalWritten(t, goals[g0], goals'[g0])
      /\ order' = RowOrder(OpOf(t), OpOf(t) = "deleteGoal", g0)
  BY DEF Written
<1>2. goals'[g0].owner = b <=> goals[g0].owner = b
  <2>1. CASE OpOf(t) = "createGoal"
    <3>1. goals'[g0].owner = request[t].acc
      BY <1>1, <2>1 DEF GoalWritten
    <3>2. Creates(t, "createGoal")
      BY <2>1 DEF Creates, Before
    <3>3. goals[g0].owner = 0
      BY <3>2 DEF TablesSound, IdsFree
    <3>4. QED
      BY <1>0, <3>1, <3>3
  <2>2. CASE OpOf(t) # "createGoal"
    BY <1>1, <2>2 DEF GoalWritten
  <2>3. QED
    BY <2>1, <2>2
<1>3. {x \in Goals : goals'[x].owner = b} = S
  BY <1>1, <1>2
<1>4. Kept(order, S) # <<>> /\ Last(Kept(order, S)) = g
  BY DEF OwnLast, OwnGoals
<1>5. OwnGoals(b)' = Kept(order', S)
  BY <1>3 DEF OwnGoals
<1>6. Kept(order, S) \in Seq(Goals)
  <2> HIDE DEF S
  <2>1. QED
    BY <1>0, KeptTyped
<1>7. Kept(order', S) # <<>> /\ Last(Kept(order', S)) = g
  <2>1. CASE OpOf(t) = "createGoal"
    <3>1. order' = Append(order, g0)
      BY <1>1, <2>1 DEF RowOrder
    <3>2. g0 \notin S
      <4>1. Creates(t, "createGoal")
        BY <2>1 DEF Creates, Before
      <4>2. goals[g0].owner = 0
        BY <4>1 DEF TablesSound, IdsFree
      <4>3. QED
        BY <1>0, <4>2
    <3> HIDE DEF S, g0
    <3>3. Kept(Append(order, g0), S) = Kept(order, S)
      BY <1>0, <3>2, KeptOfMore
    <3>4. QED
      BY <1>4, <3>1, <3>3
  <2>2. CASE OpOf(t) = "deleteGoal"
    <3>1. order' = Kept(order, R)
      BY <1>1, <2>2 DEF RowOrder
    <3>2. g \in R
      BY <2>2 DEF GoalCalls
    <3>3. R \cap S = S \cap R
      OBVIOUS
    <3> HIDE DEF S, R
    <3>4. Kept(Kept(order, R), S) = Kept(order, R \cap S)
      BY <1>0, KeptTwice
    <3>5. Kept(Kept(order, S), R) = Kept(order, S \cap R)
      BY <1>0, KeptTwice
    <3>6. Kept(Kept(order, S), R) # <<>> /\ Last(Kept(Kept(order, S), R)) = g
      <4>1. Last(Kept(order, S)) \in R
        BY <1>4, <3>2
      <4>2. QED
        BY <1>4, <1>6, <4>1, KeptLast
    <3>7. Kept(order', S) = Kept(Kept(order, S), R)
      BY <3>1, <3>3, <3>4, <3>5
    <3>8. QED
      BY <3>6, <3>7
  <2>3. CASE OpOf(t) \notin {"createGoal", "deleteGoal"}
    <3>1. order' = order
      BY <1>1, <2>3 DEF RowOrder
    <3>2. QED
      BY <1>4, <3>1
  <2>4. QED
    BY <2>1, <2>2, <2>3
<1>8. QED
  BY <1>5, <1>7, Zenon DEF OwnLast

\* A goal that has just been created is the last of its account.
LEMMA CreatedIsLast ==
  ASSUME ThreadsSound, TablesSound, NEW t \in Threads, Written(t), OpOf(t) = "createGoal",
         NEW a, a = request[t].acc, NEW g, g = request[t].goal
  PROVE  OwnLast(a, g)'
<1> DEFINE S == {x \in Goals : goals'[x].owner = a}
<1>1. g \in Goals /\ order \in Seq(Goals)
  <2>1. g \in Goals
    BY AtStage, RequestFields, Zenon
  <2>2. QED
    BY <2>1 DEF TablesSound, OrderSound
<1>2. order' = Append(order, g) /\ goals'[g].owner = a
  BY DEF Written, RowOrder, GoalWritten
<1>3. g \in S
  BY <1>1, <1>2
<1>4. OwnGoals(a)' = Kept(order', S)
  BY DEF OwnGoals
<1> HIDE DEF S
<1>5. Append(order, g) # <<>> /\ Last(Append(order, g)) = g /\ Append(order, g) \in Seq(Goals)
  <2>1. Append(order, g) \in Seq(Goals)
    BY <1>1
  <2>2. QED
    BY <1>1, <2>1, LastOfMore
<1>6. Kept(Append(order, g), S) # <<>> /\ Last(Kept(Append(order, g), S)) = g
  BY <1>3, <1>5, KeptLast
<1>7. QED
  BY <1>2, <1>4, <1>6, Zenon DEF OwnLast

\* What keeps a thread's answer when its step gives none.
LEMMA StillWaits ==
  ASSUME AnswersSound, NEW t \in Threads, pc'[t] \notin {"newest", "goal"},
         UNCHANGED <<request, crowded, outages>>, outages \in Nat, reply'[t] = reply[t]
  PROVE  (Finds(t) /\ Outcome(t) /\ Shown(t))'
<1>1. Outcome(t) /\ Shown(t)
  BY Zenon DEF AnswersSound
<1>2. Outcome(t)' /\ Shown(t)'
  <2>1. request'[t] = request[t] /\ crowded \subseteq crowded' /\ outages' \in Nat /\ outages <= outages'
    OBVIOUS
  <2>2. QED
    BY <1>1, <2>1, WaitTells
<1>3. Finds(t)'
  BY DEF Finds
<1>4. QED
  BY <1>2, <1>3

\* Before the service is called nothing has been written: a refusal is an error.
LEMMA EarlyTells ==
  ASSUME ThreadsSound, AnswersSound, outages \in Nat, NEW t \in Threads,
         Check(t) \/ CleanUp(t) \/ CountOperations(t) \/ Record(t)
  PROVE  (Finds(t) /\ Outcome(t) /\ Shown(t))'
<1>0. /\ pc[t] \in Before /\ OpOf(t) # "none" /\ ~NoLocal.wrote
      /\ UNCHANGED <<request, crowded, outages>>
  <2>1. pc[t] \in Before
    BY DEF Check, CleanUp, CountOperations, Record, Serving, Before
  <2>2. Staged(t)
    BY AtStage, Zenon
  <2>3. UNCHANGED <<request, crowded, outages>>
    BY DEF Check, CleanUp, CountOperations, Record, history, boundVars
  <2>4. QED
    BY <2>1, <2>2, <2>3 DEF Staged, NoLocal
<1>1. \/ \E code : Answer(t, NoLocal, code, 0) /\ code # 200
      \/ \E stage \in {"clean up", "count", "record", "serve"} : Goto(t, stage) /\ reply' = reply
  <2>1. CASE Check(t)
    <3>1. CASE Refusal(request[t]) # 0
      <4>1. Refusal(request[t]) # 200
        BY RefusalIsError
      <4>2. Answer(t, NoLocal, Refusal(request[t]), 0)
        BY <2>1, <3>1, Zenon DEF Check
      <4>3. QED
        BY <4>1, <4>2, Zenon
    <3>2. CASE Refusal(request[t]) = 0
      <4>1. Goto(t, Checked(RouteOf(t))) /\ reply' = reply
        BY <2>1, <3>2, Zenon DEF Check, Stay
      <4>2. Checked(RouteOf(t)) \in {"clean up", "serve"}
        BY <1>0 DEF Checked, OpOf
      <4>3. QED
        BY <4>1, <4>2
    <3>3. QED
      BY <3>1, <3>2
  <2>2. CASE CleanUp(t) \/ Record(t)
    BY <2>2, Zenon DEF CleanUp, Record, Stay
  <2>3. CASE CountOperations(t)
    <3> DEFINE refused == 429
    <3>1. Answer(t, NoLocal, refused, 0) \/ (Goto(t, "record") /\ reply' = reply)
      BY <2>3, Zenon DEF CountOperations, Stay
    <3>2. refused # 200
      OBVIOUS
    <3> HIDE DEF refused
    <3>3. QED
      BY <3>1, <3>2, Zenon
  <2>4. QED
    BY <2>1, <2>2, <2>3
<1>2. CASE \E code : Answer(t, NoLocal, code, 0) /\ code # 200
  BY <1>0, <1>2, ErrorTells, Zenon
<1>3. CASE \E stage \in {"clean up", "count", "record", "serve"} : Goto(t, stage) /\ reply' = reply
  <2>1. PICK stage \in {"clean up", "count", "record", "serve"} : Goto(t, stage) /\ reply' = reply
    BY <1>3
  <2>2. pc \in [Threads -> Stages] /\ pc' = [pc EXCEPT ![t] = stage]
    BY <2>1, Zenon DEF ThreadsSound, Goto
  <2>3. pc'[t] = stage
    BY <2>2
  <2>4. pc'[t] \notin {"newest", "goal"}
    BY <2>3
  <2>5. QED
    BY <1>0, <2>1, <2>4, StillWaits
<1>4. QED
  BY <1>1, <1>2, <1>3

\* A request that writes nothing has nothing to tell.
LEMMA ReadersTell ==
  ASSUME ThreadsSound, NEW t \in Threads, Advance(t), pc[t] \in Reads
  PROVE  (Finds(t) /\ Outcome(t) /\ Shown(t))'
<1>1. OpOf(t) = "none"
  <2>1. Staged(t)
    BY AtStage, Zenon
  <2>2. QED
    BY <2>1 DEF Staged
<1>2. request' = request /\ Staged(t)'
  BY OneAdvances, StagedNext, Zenon
<1>3. OpOf(t)' = "none"
  BY <1>1, <1>2 DEF OpOf, RouteOf
<1>4. pc'[t] \notin {"newest", "goal"}
  BY <1>2, <1>3 DEF Staged
<1>5. QED
  BY <1>3, <1>4 DEF Finds, Outcome, Shown

\* An answer after the commit: a success, or an error of an account that is crowded or of
\* a failing Redis; a created goal is not answered before it is looked up.
Late(t, l, code, shown) ==
    /\ l.wrote
    /\ code # 200 => \/ request[t].acc \in crowded
                     \/ outages > 0 /\ RouteOf(t).after = "invalidate"
    /\ OpOf(t) = "createGoal" /\ code = 200 /\ request[t].acc \notin crowded =>
           shown = request[t].goal

LEMMA LateTells ==
  ASSUME ThreadsSound, NEW t \in Threads, NEW l, NEW code, NEW shown, Answer(t, l, code, shown),
         Late(t, l, code, shown), UNCHANGED <<request, crowded, outages>>
  PROVE  (Finds(t) /\ Outcome(t) /\ Shown(t))'
<1>1. /\ pc'[t] = "idle"
      /\ reply'[t] = [code |-> code, wrote |-> l.wrote, shown |-> shown,
                      got |-> l.got, start |-> l.start, report |-> l.report]
  BY AnswerGoes
<1>2. reply'[t].code = code /\ reply'[t].wrote = l.wrote /\ reply'[t].shown = shown
  BY <1>1
<1>3. OpOf(t)' = OpOf(t) /\ RouteOf(t)' = RouteOf(t)
  BY DEF OpOf, RouteOf
<1>4. QED
  BY <1>1, <1>2, <1>3 DEF Finds, Outcome, Shown, Late

\* A served request answers, or goes where it finds what it has written.
LEMMA ServerTells ==
  ASSUME ThreadsSound, RowsSound, OrderSound, IdsFree, AnswersSound, outages \in Nat,
         NEW t \in Threads, Serve(t)
  PROVE  (Finds(t) /\ Outcome(t) /\ Shown(t))'
<1>0. /\ pc[t] = "serve" /\ UNCHANGED <<request, crowded, outages>>
      /\ OpOf(t) # "none" /\ ~local[t].wrote /\ DOMAIN local[t] = DOMAIN NoLocal
      /\ Suits(request[t].route, RouteOf(t)) /\ request[t].route \in DOMAIN Routes
  <2>1. Serving(t, "serve") /\ UNCHANGED <<request, crowded, outages>>
    BY DEF Serve, boundVars
  <2>2. Staged(t) /\ Suits(request[t].route, RouteOf(t)) /\ request[t].route \in DOMAIN Routes
    BY AtStage, Zenon
  <2>3. QED
    BY <2>1, <2>2 DEF Staged, Before, Serving
<1>1. \/ \E why : Answer(t, local[t], CodeOf(RouteOf(t), why), 0)
      \/ /\ Written(t)
         /\ \/ /\ RouteOf(t).after = "answer"
               /\ Answer(t, [local[t] EXCEPT !.wrote = TRUE], 200, 0)
            \/ /\ RouteOf(t).after # "answer" /\ Goto(t, RouteOf(t).after)
               /\ reply' = reply
  BY ServeWrites, Zenon
<1>2. CASE \E why : Answer(t, local[t], CodeOf(RouteOf(t), why), 0)
  <2>1. PICK why : Answer(t, local[t], CodeOf(RouteOf(t), why), 0)
    BY <1>2
  <2>2. CodeOf(RouteOf(t), why) \in {400, 404, 500}
    BY <1>0, CodesAreErrors DEF RouteOf
  <2>3. CodeOf(RouteOf(t), why) # 200
    BY <2>2
  <2>4. QED
    BY <1>0, <2>1, <2>3, ErrorTells, Zenon
<1>3. CASE RouteOf(t).after = "answer" /\ Answer(t, [local[t] EXCEPT !.wrote = TRUE], 200, 0)
  <2> DEFINE l == [local[t] EXCEPT !.wrote = TRUE]
  <2>1. l.wrote
    <3>1. "wrote" \in DOMAIN local[t]
      BY <1>0 DEF NoLocal
    <3>2. QED
      BY <3>1
  <2>2. OpOf(t) # "createGoal"
    BY <1>0, <1>3 DEF Suits, OpOf
  <2> HIDE DEF l
  <2>3. Late(t, l, 200, 0)
    BY <2>1, <2>2 DEF Late
  <2>4. Answer(t, l, 200, 0)
    BY <1>3 DEF l
  <2>5. QED
    BY <1>0, <2>3, <2>4, LateTells, Zenon
<1>4. CASE /\ Written(t) /\ RouteOf(t).after # "answer" /\ Goto(t, RouteOf(t).after)
           /\ reply' = reply
  <2>1. RouteOf(t).after \in {"newest", "goal", "invalidate"}
    BY <1>0, <1>4 DEF Suits, OpOf
  <2>2. pc'[t] = RouteOf(t).after
    <3>1. pc \in [Threads -> Stages]
      BY Zenon DEF ThreadsSound
    <3>2. QED
      BY <1>4, <3>1 DEF Goto
  <2>3. Outcome(t)' /\ Shown(t)'
    <3>1. Outcome(t) /\ Shown(t)
      BY Zenon DEF AnswersSound
    <3>2. /\ request'[t] = request[t] /\ crowded \subseteq crowded' /\ outages' \in Nat
          /\ outages <= outages' /\ reply'[t] = reply[t]
      BY <1>0, <1>4
    <3>3. QED
      BY <3>1, <3>2, WaitTells
  <2>4. ASSUME pc'[t] = "newest" PROVE OwnLast(request[t].acc, request[t].goal)'
    <3>1. OpOf(t) = "createGoal"
      BY <1>0, <2>2, <2>4 DEF Suits, OpOf
    <3>2. TablesSound
      BY DEF TablesSound
    <3>3. \A a, g : a = request[t].acc /\ g = request[t].goal => OwnLast(a, g)'
      BY <1>4, <3>1, <3>2, CreatedIsLast, Zenon
    <3>4. request'[t].acc = request[t].acc /\ request'[t].goal = request[t].goal
      BY <1>0
    <3>5. QED
      BY <3>3, <3>4, Zenon DEF OwnLast, OwnGoals
  <2>5. ASSUME pc'[t] = "goal" PROVE goals'[request'[t].goal].exists
    <3>1. OpOf(t) = "contribute"
      BY <1>0, <2>2, <2>5 DEF Suits, OpOf
    <3>2. GoalWritten(t, goals[request[t].goal], goals'[request[t].goal])
      BY <1>4 DEF Written
    <3>3. goals'[request[t].goal].exists
      BY <3>1, <3>2 DEF GoalWritten
    <3>4. QED
      BY <1>0, <3>3
  <2>6. Finds(t)'
    BY <1>0, <2>4, <2>5 DEF Finds
  <2>7. QED
    BY <2>3, <2>6
<1>5. QED
  BY <1>1, <1>2, <1>3, <1>4

\* What is read after the commit is answered as it is found.
LEMMA FindersTell ==
  ASSUME ThreadsSound, CacheSound, AnswersSound, NEW t \in Threads,
         ShowNewest(t) \/ ShowGoal(t) \/ Invalidate(t)
  PROVE  (Finds(t) /\ Outcome(t) /\ Shown(t))'
<1>0. /\ UNCHANGED <<request, crowded, outages>> /\ Staged(t) /\ Finds(t)
      /\ Suits(request[t].route, RouteOf(t)) /\ request[t].goal \in Goals
  <2>1. UNCHANGED <<request, crowded, outages>>
    BY DEF ShowNewest, ShowGoal, Invalidate, history, boundVars
  <2>2. Staged(t) /\ Suits(request[t].route, RouteOf(t)) /\ request[t].goal \in Goals
    BY AtStage, RequestFields, Zenon
  <2>3. Finds(t)
    BY Zenon DEF AnswersSound
  <2>4. QED
    BY <2>1, <2>2, <2>3
<1>1. CASE ShowNewest(t)
  <2>1. pc[t] = "newest" /\ local[t].wrote
    BY <1>0, <1>1 DEF ShowNewest, Serving, Staged
  <2>2. PICK mine : /\ mine = OwnGoals(request[t].acc)
                    /\ \/ mine = <<>> /\ Answer(t, local[t], 500, 0)
                       \/ mine # <<>> /\ Answer(t, local[t], 200, ShownGoal(mine))
    BY <1>1, Zenon DEF ShowNewest
  <2>3. request[t].acc \notin crowded => mine # <<>> /\ Last(mine) = request[t].goal
    BY <1>0, <2>1, <2>2 DEF Finds, OwnLast
  <2>4. CASE mine = <<>> /\ Answer(t, local[t], 500, 0)
    <3>1. Late(t, local[t], 500, 0)
      BY <2>1, <2>3, <2>4 DEF Late
    <3>2. QED
      BY <1>0, <2>4, <3>1, LateTells, Zenon
  <2>5. CASE mine # <<>> /\ Answer(t, local[t], 200, ShownGoal(mine))
    <3>1. Late(t, local[t], 200, ShownGoal(mine))
      BY <2>1, <2>3 DEF Late, ShownGoal
    <3>2. QED
      BY <1>0, <2>5, <3>1, LateTells, Zenon
  <2>6. QED
    BY <2>2, <2>4, <2>5
<1>2. CASE ShowGoal(t)
  <2>1. pc[t] = "goal" /\ local[t].wrote /\ OpOf(t) # "createGoal"
    BY <1>0, <1>2 DEF ShowGoal, Serving, Staged
  <2>2. \/ goals[request[t].goal].exists /\ Answer(t, local[t], 200, request[t].goal)
        \/ ~goals[request[t].goal].exists /\ Answer(t, local[t], 404, 0)
    BY <1>2, Zenon DEF ShowGoal
  <2>3. CASE goals[request[t].goal].exists /\ Answer(t, local[t], 200, request[t].goal)
    <3>1. Late(t, local[t], 200, request[t].goal)
      BY <2>1 DEF Late
    <3>2. QED
      BY <1>0, <2>3, <3>1, LateTells, Zenon
  <2>4. CASE ~goals[request[t].goal].exists /\ Answer(t, local[t], 404, 0)
    <3>1. Late(t, local[t], 404, 0)
      BY <1>0, <2>1, <2>4 DEF Late, Finds
    <3>2. QED
      BY <1>0, <2>4, <3>1, LateTells, Zenon
  <2>5. QED
    BY <2>2, <2>3, <2>4
<1>3. CASE Invalidate(t)
  <2>1. PICK code \in {500, 200} : Answer(t, local[t], code, 0) /\ (code = 500 <=> Raises)
    BY <1>3, Invalidates
  <2>2. pc[t] = "invalidate" /\ local[t].wrote /\ RouteOf(t).after = "invalidate"
    BY <1>0, <1>3 DEF Invalidate, Serving, Staged
  <2>3. OpOf(t) # "createGoal"
    BY <1>0, <2>2 DEF Suits, OpOf
  <2>4. Raises => outages > 0
    BY DEF Raises, CacheSound
  <2>5. Late(t, local[t], code, 0)
    BY <2>1, <2>2, <2>3, <2>4 DEF Late
  <2>6. Answer(t, local[t], code, 0)
    BY <2>1
  <2>7. QED
    BY <1>0, <2>5, <2>6, LateTells
<1>4. QED
  BY <1>1, <1>2, <1>3

\* The answer of a thread that advances.
LEMMA AdvancerTells ==
  ASSUME ThreadsSound, TablesSound, CacheSound, AnswersSound, NEW t \in Threads, Advance(t)
  PROVE  (Finds(t) /\ Outcome(t) /\ Shown(t))'
<1>0. RowsSound /\ OrderSound /\ IdsFree /\ outages \in Nat
  BY DEF TablesSound, CacheSound
<1>1. CASE Check(t) \/ CleanUp(t) \/ CountOperations(t) \/ Record(t)
  BY <1>0, <1>1, EarlyTells
<1>2. CASE Serve(t)
  BY <1>0, <1>2, ServerTells
<1>3. CASE ShowNewest(t) \/ ShowGoal(t) \/ Invalidate(t)
  BY <1>3, FindersTell
<1>4. CASE Lookup(t) \/ Query(t) \/ Fill(t) \/ Ping(t) \/ NextPage(t) \/ RunQuery(t)
  <2>1. pc[t] \in Reads
    BY <1>4 DEF Lookup, Query, Fill, Ping, NextPage, RunQuery, Serving, Reads
  <2>2. QED
    BY <2>1, ReadersTell
<1>5. QED
  BY <1>1, <1>2, <1>3, <1>4 DEF Advance

\* What another thread is to find, after a request was served: it is about another account,
\* and if both are about goals, about another goal.
LEMMA OthersFind ==
  ASSUME ThreadsSound, MeetingsSeen, TablesSound, AnswersSound, NEW t \in Threads, Serve(t),
         Written(t), NEW u \in Threads, u # t
  PROVE  Finds(u)'
<1>0. /\ request' = request /\ pc'[u] = pc[u] /\ crowded' = crowded /\ Pending(t)
      /\ pc[t] = "serve" /\ Finds(u) /\ Staged(u)
      /\ request[u].acc \in Accounts /\ request[u].goal \in Goals
  <2>1. Advance(t)
    BY DEF Advance
  <2>2. request' = request /\ OthersStay(t) /\ crowded' = crowded /\ Pending(t)
    BY <2>1, OneAdvances, Zenon
  <2>3. pc[t] = "serve" /\ Finds(u) /\ Staged(u)
    BY AtStage DEF Serve, Serving, AnswersSound
  <2>4. request[u].acc \in Accounts /\ request[u].goal \in Goals
    BY AtStage, RequestFields, Zenon
  <2>5. QED
    BY <2>2, <2>3, <2>4 DEF OthersStay
<1>1. SUFFICES ASSUME request[u].acc \notin crowded, pc[u] \in {"newest", "goal"} PROVE Finds(u)'
  BY <1>0 DEF Finds
<1>2. /\ request[t].acc # request[u].acc
      /\ OpOf(u) \in GoalCalls /\ OpOf(t) \in GoalCalls => request[t].goal # request[u].goal
  <2>1. Pending(u)
    BY <1>1 DEF Pending
  <2>2. QED
    BY <1>0, <1>1, <2>1, Alone
<1>3. OpOf(u) \in GoalCalls
  BY <1>0, <1>1 DEF Staged, GoalCalls
<1>4. CASE pc[u] = "newest"
  <2>1. OwnLast(request[u].acc, request[u].goal)
    BY <1>0, <1>1, <1>4 DEF Finds
  <2>2. \A b \in Accounts, g \in Goals :
            /\ b # request[t].acc /\ OwnLast(b, g)
            /\ OpOf(t) \in GoalCalls => request[t].goal # g
            => OwnLast(b, g)'
    BY <1>0, OwnLastStays
  <2>3. \A b \in Accounts, g \in Goals :
            b = request[u].acc /\ g = request[u].goal => OwnLast(b, g)'
    BY <1>2, <1>3, <2>1, <2>2
  <2>4. request'[u].acc = request[u].acc /\ request'[u].goal = request[u].goal
    BY <1>0
  <2>5. OwnLast(request[u].acc, request[u].goal)'
    BY <1>0, <2>3, <2>4, Zenon DEF OwnLast, OwnGoals
  <2>6. QED
    BY <1>0, <1>4, <2>5 DEF Finds
<1>5. CASE pc[u] = "goal"
  <2>1. goals[request[u].goal].exists
    BY <1>0, <1>1, <1>5 DEF Finds
  <2>2. goals'[request[u].goal].exists
    <3>1. CASE request[u].goal # request[t].goal
      BY <1>0, <2>1, <3>1 DEF Written
    <3>2. CASE request[u].goal = request[t].goal
      <4>1. OpOf(t) \notin GoalCalls
        BY <1>2, <1>3, <3>2
      <4>2. GoalWritten(t, goals[request[t].goal], goals'[request[t].goal])
        BY DEF Written
      <4>3. goals'[request[t].goal].exists = goals[request[t].goal].exists
        BY <4>1, <4>2 DEF GoalWritten, GoalCalls
      <4>4. QED
        BY <2>1, <3>2, <4>3
    <3>3. QED
      BY <3>1, <3>2
  <2>3. QED
    BY <1>0, <1>5, <2>2 DEF Finds
<1>6. QED
  BY <1>1, <1>4, <1>5

LEMMA AnswersSoundNext ==
  ASSUME ThreadsSound, MeetingsSeen, TablesSound, ListsSound, ListsSound', AnswersSound, [Next]_vars
  PROVE  AnswersSound'
<1>0. CacheSound /\ outages \in Nat /\ outages' \in Nat /\ RowsSound /\ IdsFree
  BY DEF ListsSound, CacheSound, TablesSound
<1>a. ASSUME NEW u \in Threads, pc'[u] = pc[u], reply'[u] = reply[u], request'[u] = request[u],
             crowded \subseteq crowded', outages <= outages', UNCHANGED <<goals, order>>
      PROVE  (Finds(u) /\ Outcome(u) /\ Shown(u))'
  <2>1. Finds(u) /\ Outcome(u) /\ Shown(u)
    BY Zenon DEF AnswersSound
  <2>2. Outcome(u)' /\ Shown(u)'
    BY <1>0, <1>a, <2>1, WaitTells
  <2>3. Finds(u)'
    BY <1>a, <2>1, FindsStay
  <2>4. QED
    BY <2>2, <2>3
<1>1. ASSUME NEW t \in Threads, NEW r \in Requests, Arrive(t, r) PROVE AnswersSound'
  <2>1. /\ request' = [request EXCEPT ![t] = r] /\ OthersStay(t) /\ Welcomed(t)
    BY <1>1, Arrives, Zenon
  <2>2. UNCHANGED <<goals, order, outages>> /\ crowded \subseteq crowded'
    BY <1>1 DEF Arrive, tables
  <2>3. ASSUME NEW u \in Threads, u # t PROVE (Finds(u) /\ Outcome(u) /\ Shown(u))'
    <3>1. request'[u] = request[u]
      BY <2>1, <2>3 DEF ThreadsSound
    <3>2. pc'[u] = pc[u] /\ reply'[u] = reply[u]
      BY <2>1, <2>3 DEF OthersStay
    <3>3. outages <= outages'
      BY <1>0, <2>2
    <3>4. QED
      BY <1>a, <2>2, <3>1, <3>2, <3>3
  <2>4. (Finds(t) /\ Outcome(t) /\ Shown(t))'
    <3>1. pc'[t] \notin {"newest", "goal"}
      BY <2>1 DEF Welcomed
    <3>2. reply'[t].code \in {0, 401, 403} /\ (reply'[t].code # 0 => ~reply'[t].wrote)
      BY <2>1, Zenon DEF Welcomed
    <3>3. reply'[t].code # 200
      BY <3>2
    <3>4. QED
      BY <3>1, <3>2, <3>3 DEF Finds, Outcome, Shown
  <2>5. QED
    BY <2>3, <2>4, Zenon DEF AnswersSound
<1>2. ASSUME NEW t \in Threads, Advance(t) PROVE AnswersSound'
  <2>1. request' = request /\ OthersStay(t) /\ crowded' = crowded
    BY <1>2, OneAdvances, Zenon
  <2>2. outages' = outages
    <3>1. UNCHANGED boundVars
      BY <1>2, Zenon DEF Advance, Check, CleanUp, CountOperations, Record, Serve, ShowNewest,
          ShowGoal, Invalidate, Lookup, Query, Fill, Ping, NextPage, RunQuery
    <3>2. QED
      BY <3>1 DEF boundVars
  <2>3. UNCHANGED <<goals, order>> \/ (Serve(t) /\ Written(t))
    <3>1. CASE Serve(t)
      <4>1. UNCHANGED tables \/ Written(t)
        BY <1>0, <3>1, ServeWrites, Zenon
      <4>2. QED
        BY <3>1, <4>1 DEF tables
    <3>2. CASE Invalidate(t)
      BY <3>2, Invalidates
    <3>3. CASE ~Serve(t) /\ ~Invalidate(t)
      <4>1. OnlyReads(t)
        BY <1>2, <3>3, OnlyServeWrites, Zenon
      <4>2. QED
        BY <4>1 DEF OnlyReads
    <3>4. QED
      BY <3>1, <3>2, <3>3
  <2>4. ASSUME NEW u \in Threads, u # t PROVE (Finds(u) /\ Outcome(u) /\ Shown(u))'
    <3>1. /\ pc'[u] = pc[u] /\ reply'[u] = reply[u] /\ request'[u] = request[u]
          /\ crowded \subseteq crowded' /\ outages <= outages'
      BY <1>0, <2>1, <2>2, <2>4 DEF OthersStay
    <3>2. CASE UNCHANGED <<goals, order>>
      BY <1>a, <3>1, <3>2
    <3>3. CASE Serve(t) /\ Written(t)
      <4>1. Finds(u)'
        BY <2>4, <3>3, OthersFind
      <4>2. Outcome(u) /\ Shown(u)
        BY Zenon DEF AnswersSound
      <4>3. Outcome(u)' /\ Shown(u)'
        BY <1>0, <3>1, <4>2, WaitTells
      <4>4. QED
        BY <4>1, <4>3
    <3>4. QED
      BY <2>3, <3>2, <3>3
  <2>5. (Finds(t) /\ Outcome(t) /\ Shown(t))'
    BY <1>0, <1>2, AdvancerTells, Zenon
  <2>6. QED
    BY <2>4, <2>5, Zenon DEF AnswersSound
<1>3. ASSUME UNCHANGED <<pc, request, reply, goals, order, crowded>>, outages <= outages'
      PROVE  AnswersSound'
  <2>1. ASSUME NEW u \in Threads PROVE (Finds(u) /\ Outcome(u) /\ Shown(u))'
    BY <1>a, <1>3
  <2>2. QED
    BY <2>1, Zenon DEF AnswersSound
<1>4. QED
  <2>1. Tick \/ Outage \/ Closing \/ UNCHANGED vars =>
            UNCHANGED <<pc, request, reply, goals, order, crowded>> /\ outages <= outages'
    BY <1>0 DEF Tick, Outage, Closing, vars, threadVars, tables, boundVars, history
  <2>2. QED
    BY <1>1, <1>2, <1>3, <2>1, Zenon DEF Next

LEMMA AnswersStay == Spec => []AnswersSound
<1>1. ThreadsSound /\ MeetingsSeen /\ TablesSound /\ ListsSound /\ ListsSound' /\ AnswersSound
          /\ [Next]_vars => AnswersSound'
  BY AnswersSoundNext
<1>2. QED
  BY <1>1, AnswersSoundInit, ThreadsStay, MeetingsStay, TablesStay, ListsStay, PTL DEF Spec

\* routes and v2: a request that met no other on its accounts is answered with a success
\* exactly when its service has committed; only a Redis that failed turns a committed change
\* of the administrator into an error.
THEOREM AnswersAreTrue == Spec => []AnswersTellOutcome
<1>1. AnswersSound => AnswersTellOutcome
  BY AnswersSoundMeans
<1>2. QED
  BY <1>1, AnswersStay, PTL

\* create_savings_goal: looked up as the last of the account's goals, a created goal is the
\* one its creator is shown, whatever requests of other accounts store or delete meanwhile.
THEOREM CreatorsSeeTheirGoal == Spec => []CreatedIsShown
<1>1. AnswersSound => CreatedIsShown
  BY AnswersSoundMeans
<1>2. QED
  BY <1>1, AnswersStay, PTL
===============================================================================
