--------------------------- MODULE GdbStub_proofs ---------------------------
(***************************************************************************)
(* Proofs about the debugger's two threads: a stalled CPU is always known  *)
(* to be, no breakpoint descriptor is lost, and every step is one of the   *)
(* session that a debugger is promised.                                    *)
(***************************************************************************)
EXTENDS GdbStub, FiniteSetTheorems, SequenceTheorems, TLAPS

(* Every statement a of w has a statement b behind it. *)
Follows(w, a, b) ==
  \A n \in 1 .. Len(w) : w[n] = <<a>> => \E m \in 1 .. Len(w) : m > n /\ w[m] = <<b>>

(* What a thread has to do is in a good order: a stall is reported after   *)
(* it, and only the listener resumes, and lifts the stall after it.        *)
Ordered(t, w) ==
  /\ w \in Seq(Statements)
  /\ Follows(w, "stall", "indicate")
  /\ IF t = "cpu" THEN \A n \in 1 .. Len(w) : w[n] # <<"start_run">>
                  ELSE Follows(w, "start_run", "unstall")

(* Every descriptor is on one list, and there once. *)
PoolInv ==
  /\ \A e \in Entries : \E l \in DOMAIN lists : \E n \in 1 .. Len(lists[l]) : lists[l][n] = e
  /\ \A l, m \in DOMAIN lists : \A k \in 1 .. Len(lists[l]) : \A n \in 1 .. Len(lists[m]) :
       lists[l][k] = lists[m][n] => l = m /\ k = n

GdbInv == /\ GdbTypeOK /\ PoolInv
          /\ \A t \in Threads : Ordered(t, work[t])
          /\ StallIsKnown

-----------------------------------------------------------------------------
(* Statements, and what keeps them in a good order.                        *)

(* A statement is told by its first word. *)
LEMMA Kinds ==
  ASSUME NEW st \in Statements
  PROVE  /\ \A k \in {"stall", "zero", "unhook", "indicate", "start_run", "unstall"} :
              st[1] = k => st = <<k>>
         /\ st[1] = "walk" => st[2] \in Lists /\ st[3] \in Addrs
         /\ st[1] \in {"visit", "next"} => st[2] \in Entries /\ st[3] \in Addrs
         /\ st[1] = "install_step" => st[2] \in Addrs
BY DEF Statements

(* Order is kept when one program goes before another. *)
LEMMA OrderedConcat ==
  ASSUME NEW t \in Threads, NEW v, NEW w, Ordered(t, v), Ordered(t, w)
  PROVE  Ordered(t, v \o w)
<1> USE DEF Ordered
<1>1. /\ v \o w \in Seq(Statements) /\ Len(v \o w) = Len(v) + Len(w)
      /\ \A n \in 1 .. Len(v) + Len(w) :
           (v \o w)[n] = IF n <= Len(v) THEN v[n] ELSE w[n - Len(v)]
  BY ConcatProperties
<1>2. Len(v) \in Nat /\ Len(w) \in Nat
  BY LenProperties
<1>3. ASSUME NEW a, NEW b, Follows(v, a, b), Follows(w, a, b)
      PROVE  Follows(v \o w, a, b)
  <2> SUFFICES ASSUME NEW n \in 1 .. Len(v) + Len(w), (v \o w)[n] = <<a>>
               PROVE  \E m \in 1 .. Len(v) + Len(w) : m > n /\ (v \o w)[m] = <<b>>
    BY <1>1 DEF Follows
  <2>1. CASE n <= Len(v)
    <3>1. n \in 1 .. Len(v) /\ v[n] = <<a>>
      BY <1>1, <1>2, <2>1
    <3>2. PICK m \in 1 .. Len(v) : m > n /\ v[m] = <<b>>
      BY <1>3, <3>1 DEF Follows
    <3>3. m \in 1 .. Len(v) + Len(w) /\ (v \o w)[m] = <<b>>
      BY <1>1, <1>2, <3>2
    <3>4. QED
      BY <3>2, <3>3
  <2>2. CASE n > Len(v)
    <3>1. n - Len(v) \in 1 .. Len(w) /\ w[n - Len(v)] = <<a>>
      BY <1>1, <1>2, <2>2
    <3>2. PICK m \in 1 .. Len(w) : m > n - Len(v) /\ w[m] = <<b>>
      BY <1>3, <3>1 DEF Follows
    <3>3. /\ m + Len(v) \in 1 .. Len(v) + Len(w) /\ m + Len(v) > n
          /\ (v \o w)[m + Len(v)] = <<b>>
      BY <1>1, <1>2, <3>2
    <3>4. QED
      BY <3>3
  <2>3. QED
    BY <1>2, <2>1, <2>2
<1>4. ASSUME t = "cpu", NEW n \in 1 .. Len(v) + Len(w)
      PROVE  (v \o w)[n] # <<"start_run">>
  BY <1>1, <1>2, <1>4, SMTT(30)
<1>5. QED
  BY <1>1, <1>3, <1>4

(* Order is kept when the first statement has run; and what it leaves to   *)
(* be done is still there.                                                 *)
LEMMA OrderedTail ==
  ASSUME NEW t \in Threads, NEW w, Ordered(t, w), w # <<>>
  PROVE  /\ Head(w) \in Statements /\ Ordered(t, Tail(w))
         /\ Head(w) = <<"stall">> => <<"indicate">> \in Range(Tail(w))
         /\ Head(w) = <<"start_run">> => t # "cpu" /\ <<"unstall">> \in Range(Tail(w))
         /\ \A st \in Range(w) : st # Head(w) => st \in Range(Tail(w))
<1> USE DEF Ordered
<1>1. /\ Head(w) \in Statements /\ Tail(w) \in Seq(Statements) /\ Len(Tail(w)) = Len(w) - 1
      /\ \A n \in 1 .. Len(Tail(w)) : Tail(w)[n] = w[n + 1]
      /\ Head(w) = w[1]
  BY HeadTailProperties
<1>2. Len(w) \in Nat \ {0}
  BY EmptySeq
<1>3. DOMAIN w = 1 .. Len(w) /\ DOMAIN Tail(w) = 1 .. Len(Tail(w))
  BY <1>1, LenProperties
<1>4. ASSUME NEW a, NEW b, Follows(w, a, b)
      PROVE  Follows(Tail(w), a, b) /\ (Head(w) = <<a>> => <<b>> \in Range(Tail(w)))
  <2>1. ASSUME NEW n \in 1 .. Len(w), w[n] = <<a>>
        PROVE  \E m \in 1 .. Len(Tail(w)) : m + 1 > n /\ Tail(w)[m] = <<b>>
    <3>1. PICK m \in 1 .. Len(w) : m > n /\ w[m] = <<b>>
      BY <1>4, <2>1 DEF Follows
    <3>2. /\ m - 1 \in 1 .. Len(Tail(w)) /\ (m - 1) + 1 > n
          /\ Tail(w)[m - 1] = w[(m - 1) + 1]
      BY <1>1, <1>2, <3>1
    <3>3. QED
      BY <3>1, <3>2
  <2>2. Follows(Tail(w), a, b)
    <3> SUFFICES ASSUME NEW n \in 1 .. Len(Tail(w)), Tail(w)[n] = <<a>>
                 PROVE  \E m \in 1 .. Len(Tail(w)) : m > n /\ Tail(w)[m] = <<b>>
      BY DEF Follows
    <3>1. n + 1 \in 1 .. Len(w) /\ w[n + 1] = <<a>>
      BY <1>1, <1>2
    <3>2. PICK m \in 1 .. Len(Tail(w)) : m + 1 > n + 1 /\ Tail(w)[m] = <<b>>
      BY <2>1, <3>1
    <3>3. QED
      BY <3>2
  <2>3. ASSUME Head(w) = <<a>> PROVE <<b>> \in Range(Tail(w))
    <3>0. 1 \in 1 .. Len(w) /\ w[1] = <<a>>
      BY <1>1, <1>2, <2>3
    <3>1. PICK m \in 1 .. Len(Tail(w)) : Tail(w)[m] = <<b>>
      BY <2>1, <3>0
    <3>2. QED
      BY <1>3, <3>1 DEF Range
  <2>4. QED
    BY <2>2, <2>3
<1>5. ASSUME NEW st \in Range(w), st # Head(w)
      PROVE  st \in Range(Tail(w))
  <2>1. PICK n \in 1 .. Len(w) : st = w[n]
    BY <1>3 DEF Range
  <2>2. n # 1
    BY <1>1, <1>5, <2>1
  <2>3. /\ n - 1 \in 1 .. Len(Tail(w)) /\ (n - 1) + 1 = n
        /\ Tail(w)[n - 1] = w[(n - 1) + 1]
    BY <1>1, <1>2, <2>1, <2>2
  <2>4. QED
    BY <1>3, <2>1, <2>3 DEF Range
<1>6. t = "cpu" => (\A n \in 1 .. Len(Tail(w)) : Tail(w)[n] # <<"start_run">>)
  <2> SUFFICES ASSUME t = "cpu", NEW n \in 1 .. Len(Tail(w))
               PROVE  Tail(w)[n] # <<"start_run">>
    OBVIOUS
  <2>1. n + 1 \in 1 .. Len(w)
    BY <1>1, <1>2
  <2>2. QED
    BY <1>1, <2>1
<1>7. t = "cpu" => Head(w) # <<"start_run">>
  BY <1>1, <1>2
<1>8. QED
  BY <1>1, <1>4, <1>5, <1>6, <1>7
-----------------------------------------------------------------------------
(* The programs that handlers leave behind.                                *)

(* A program of one statement that needs no other behind it. *)
LEMMA OrderedOne ==
  ASSUME NEW t \in Threads, NEW st \in Statements, st[1] \notin {"stall", "start_run"}
  PROVE  Ordered(t, <<st>>)
BY DEF Ordered, Follows

(* There may be nothing to do. *)
LEMMA OrderedNone ==
  ASSUME NEW t \in Threads
  PROVE  Ordered(t, <<>>)
BY DEF Ordered, Follows

(* A program that ends with a report and resumes nothing. *)
LEMMA OrderedReport ==
  ASSUME NEW t \in Threads, NEW v \in Seq(Statements), NEW w \in Seq(Statements),
         w # <<>>, w[Len(w)] = <<"indicate">>,
         \A n \in 1 .. Len(v) : v[n] # <<"start_run">>,
         \A n \in 1 .. Len(w) : w[n] # <<"start_run">>
  PROVE  Ordered(t, v \o w)
<1>1. /\ v \o w \in Seq(Statements) /\ Len(v \o w) = Len(v) + Len(w)
      /\ \A n \in 1 .. Len(v) + Len(w) :
           (v \o w)[n] = IF n <= Len(v) THEN v[n] ELSE w[n - Len(v)]
  BY ConcatProperties
<1>2. Len(v) \in Nat /\ Len(w) \in Nat \ {0}
  BY EmptySeq, LenProperties
<1>3. (v \o w)[Len(v) + Len(w)] = <<"indicate">> /\ Len(v) + Len(w) \in 1 .. Len(v) + Len(w)
  BY <1>1, <1>2
<1>4. \A n \in 1 .. Len(v) + Len(w) : (v \o w)[n] # <<"start_run">>
  BY <1>1, <1>2
<1>5. Follows(v \o w, "stall", "indicate")
  <2> SUFFICES ASSUME NEW n \in 1 .. Len(v) + Len(w), (v \o w)[n] = <<"stall">>
               PROVE  \E m \in 1 .. Len(v) + Len(w) : m > n /\ (v \o w)[m] = <<"indicate">>
    BY <1>1 DEF Follows
  <2>1. n # Len(v) + Len(w)
    BY <1>3
  <2>2. Len(v) + Len(w) > n
    BY <1>2, <2>1
  <2>3. QED
    BY <1>3, <2>2
<1>6. Follows(v \o w, "start_run", "unstall")
  BY <1>1, <1>4 DEF Follows
<1>7. QED
  BY <1>1, <1>4, <1>5, <1>6 DEF Ordered

(* stall_cpu, with the report behind it (check_breaks_gdb, abort_execution). *)
LEMMA OrderedStops ==
  ASSUME NEW t \in Threads
  PROVE  Ordered(t, Stopping) /\ Ordered(t, abort_execution(t))
<1>1. \A k \in {"stall", "zero", "unhook", "indicate"} : <<k>> \in Statements
  BY DEF Statements
<1>2. ASSUME NEW r \in Threads
      PROVE  /\ stall_cpu(r) \in Seq(Statements)
             /\ \A n \in 1 .. Len(stall_cpu(r)) : stall_cpu(r)[n] # <<"start_run">>
  BY <1>1 DEF stall_cpu
<1>3. Ordered(t, Stopping)
  <2> DEFINE w == <<<<"indicate">>>>
  <2>1. /\ w \in Seq(Statements) /\ w # <<>> /\ w[Len(w)] = <<"indicate">>
        /\ \A n \in 1 .. Len(w) : w[n] # <<"start_run">>
    BY <1>1
  <2>2. Stopping = stall_cpu("cpu") \o w
    BY DEF Stopping
  <2> HIDE DEF w
  <2>3. "cpu" \in Threads
    BY DEF Threads
  <2>4. QED
    BY <1>2, <2>1, <2>2, <2>3, OrderedReport
<1>4. Ordered(t, abort_execution(t))
  <2> DEFINE w == <<<<"unhook">>, <<"indicate">>>>
  <2>1. /\ w \in Seq(Statements) /\ w # <<>> /\ w[Len(w)] = <<"indicate">>
        /\ \A n \in 1 .. Len(w) : w[n] # <<"start_run">>
    BY <1>1
  <2>2. abort_execution(t) = stall_cpu(t) \o w
    BY DEF abort_execution
  <2> HIDE DEF w
  <2>3. QED
    BY <1>2, <2>1, <2>2, OrderedReport
<1>5. QED
  BY <1>3, <1>4

(* What 'c' and 's' leave the listener to do (processPacket_gdb). *)
LEMMA OrderedResumes ==
  ASSUME NEW a \in Addrs
  PROVE  /\ Ordered("listener", <<<<"start_run">>, <<"unstall">>>>)
         /\ Ordered("listener", <<<<"install_step", a>>, <<"start_run">>, <<"unstall">>>>)
<1>1. /\ <<"install_step", a>> \in Statements
      /\ \A k \in {"start_run", "unstall"} : <<k>> \in Statements
  BY DEF Statements
<1>2. Ordered("listener", <<<<"start_run">>, <<"unstall">>>>)
  BY <1>1 DEF Ordered, Follows
<1>3. Ordered("listener", <<<<"install_step", a>>, <<"start_run">>, <<"unstall">>>>)
  <2> DEFINE w == <<<<"install_step", a>>, <<"start_run">>, <<"unstall">>>>
  <2>1. /\ w \in Seq(Statements) /\ Len(w) = 3 /\ w[1] = <<"install_step", a>>
        /\ w[2] = <<"start_run">> /\ w[3] = <<"unstall">>
    BY <1>1
  <2> HIDE DEF w
  <2>2. Ordered("listener", w)
    BY <2>1 DEF Ordered, Follows
  <2>3. QED
    BY <2>2 DEF w
<1>4. QED
  BY <1>2, <1>3

(* The checks that an access or a fetch begins (gdb_prefetch32, gdb_read8, *)
(* gdb_write8).                                                            *)
LEMMA OrderedChecks ==
  ASSUME NEW a \in Addrs
  PROVE  /\ Ordered("cpu", gdb_prefetch(a))
         /\ Ordered("cpu", gdb_read(a)) /\ Ordered("cpu", gdb_write(a))
<1>1. ASSUME NEW l \in Lists PROVE Ordered("cpu", CheckBreaks(l, a))
  <2>1. <<"walk", l, a>> \in Statements
    BY DEF Statements
  <2>2. QED
    BY <2>1, OrderedOne DEF CheckBreaks, Threads
<1>2. QED
  BY <1>1, OrderedConcat DEF Lists, Threads, gdb_prefetch, gdb_read, gdb_write

(* What the walk along a list goes on with. *)
LEMMA OrderedVisit ==
  ASSUME NEW t \in Threads, NEW rest \in Seq(Entries), NEW a \in Addrs
  PROVE  Ordered(t, Visit(rest, a))
<1>1. CASE rest = <<>>
  BY <1>1, OrderedNone DEF Visit
<1>2. CASE rest # <<>>
  <2>1. rest[1] \in Entries
    BY <1>2, HeadTailProperties
  <2>2. <<"visit", rest[1], a>> \in Statements
    BY <2>1 DEF Statements
  <2>3. QED
    BY <1>2, <2>2, OrderedOne DEF Visit
<1>3. QED
  BY <1>1, <1>2

(* Behind a descriptor there are descriptors, whichever list it is on. *)
LEMMA NextOfType ==
  ASSUME GdbTypeOK, PoolInv, NEW e \in Entries
  PROVE  NextOf(e) \in Seq(Entries)
<1> DEFINE l == CHOOSE x \in DOMAIN lists : e \in Range(lists[x])
           n == CHOOSE j \in DOMAIN lists[l] : lists[l][j] = e
<1>1. PICK m \in DOMAIN lists : \E k \in 1 .. Len(lists[m]) : lists[m][k] = e
  BY DEF PoolInv
<1>2. \A x \in DOMAIN lists : lists[x] \in Seq(Entries)
  BY DEF GdbTypeOK
<1>3. \A x \in DOMAIN lists : DOMAIN lists[x] = 1 .. Len(lists[x]) /\ Len(lists[x]) \in Nat
  BY <1>2, LenProperties
<1>4. e \in Range(lists[m])
  BY <1>1, <1>3 DEF Range
<1>5. l \in DOMAIN lists /\ e \in Range(lists[l])
  BY <1>4
<1> HIDE DEF l
<1>6. n \in 1 .. Len(lists[l])
  BY <1>3, <1>5 DEF Range
<1> HIDE DEF n
<1>7. SubSeq(lists[l], n + 1, Len(lists[l])) \in Seq(Entries)
  <2>1. lists[l] \in Seq(Entries) /\ Len(lists[l]) \in Nat
    BY <1>2, <1>3, <1>5
  <2>2. \A k \in n + 1 .. Len(lists[l]) : lists[l][k] \in Entries
    BY <1>6, <2>1, ElementOfSeq
  <2>3. QED
    BY <1>6, <2>1, <2>2, SubSeqProperties
<1>8. QED
  BY <1>7 DEF NextOf, l, n

-----------------------------------------------------------------------------
(* The pool of breakpoint descriptors.                                     *)

(* The sequence s without its entry n. *)
LEMMA RemoveAtEntries ==
  ASSUME NEW S, NEW seq \in Seq(S), NEW n \in 1 .. Len(seq)
  PROVE  /\ RemoveAt(seq, n) \in Seq(S) /\ Len(RemoveAt(seq, n)) = Len(seq) - 1
         /\ \A k \in 1 .. Len(seq) - 1 :
              RemoveAt(seq, n)[k] = IF k < n THEN seq[k] ELSE seq[k + 1]
<1> DEFINE u == SubSeq(seq, 1, n - 1)
           v == SubSeq(seq, n + 1, Len(seq))
<1>1. Len(seq) \in Nat /\ n \in Nat /\ n >= 1 /\ n <= Len(seq)
  BY LenProperties
<1>2. \A k \in 1 .. Len(seq) : seq[k] \in S
  BY ElementOfSeq
<1>3. /\ u \in Seq(S) /\ Len(u) = n - 1
      /\ \A k \in 1 .. n - 1 : u[k] = seq[k]
  <2>1. 1 \in Int /\ n - 1 \in Int /\ \A k \in 1 .. n - 1 : seq[k] \in S
    BY <1>1, <1>2
  <2>2. /\ u \in Seq(S) /\ Len(u) = IF 1 <= n - 1 THEN (n - 1) - 1 + 1 ELSE 0
        /\ \A k \in 1 .. (n - 1) - 1 + 1 : u[k] = seq[1 + k - 1]
    BY <2>1, SubSeqProperties
  <2>3. QED
    BY <1>1, <2>2
<1>4. /\ v \in Seq(S) /\ Len(v) = Len(seq) - n
      /\ \A k \in 1 .. Len(seq) - n : v[k] = seq[n + k]
  <2>1. n + 1 \in Int /\ Len(seq) \in Int /\ \A k \in n + 1 .. Len(seq) : seq[k] \in S
    BY <1>1, <1>2
  <2>2. /\ v \in Seq(S)
        /\ Len(v) = IF n + 1 <= Len(seq) THEN Len(seq) - (n + 1) + 1 ELSE 0
        /\ \A k \in 1 .. Len(seq) - (n + 1) + 1 : v[k] = seq[(n + 1) + k - 1]
    BY <2>1, SubSeqProperties
  <2>3. QED
    BY <1>1, <2>2
<1> HIDE DEF u, v
<1>5. /\ u \o v \in Seq(S) /\ Len(u \o v) = Len(u) + Len(v)
      /\ \A k \in 1 .. Len(u) + Len(v) : (u \o v)[k] = IF k <= Len(u) THEN u[k] ELSE v[k - Len(u)]
  BY <1>3, <1>4, ConcatProperties
<1>6. \A k \in 1 .. Len(seq) - 1 : (u \o v)[k] = IF k < n THEN seq[k] ELSE seq[k + 1]
  <2> SUFFICES ASSUME NEW k \in 1 .. Len(seq) - 1
               PROVE  (u \o v)[k] = IF k < n THEN seq[k] ELSE seq[k + 1]
    OBVIOUS
  <2>1. CASE k < n
    BY <1>1, <1>3, <1>4, <1>5, <2>1
  <2>2. CASE k >= n
    <3>1. k - (n - 1) \in 1 .. Len(seq) - n /\ n + (k - (n - 1)) = k + 1
      BY <1>1, <2>2
    <3>2. (u \o v)[k] = v[k - (n - 1)]
      BY <1>1, <1>3, <1>4, <1>5, <2>2
    <3>3. v[k - (n - 1)] = seq[n + (k - (n - 1))]
      BY <1>4, <3>1
    <3>4. v[k - (n - 1)] = seq[k + 1]
      BY <3>1, <3>3, Zenon
    <3>5. ~ (k < n)
      BY <1>1, <2>2
    <3>6. QED
      BY <3>2, <3>4, <3>5, Zenon
  <2>3. k < n \/ k >= n
    BY <1>1
  <2>4. QED
    BY <2>1, <2>2, <2>3
<1>7. RemoveAt(seq, n) = u \o v
  BY DEF RemoveAt, u, v
<1>8. Len(u) + Len(v) = Len(seq) - 1
  BY <1>1, <1>3, <1>4
<1>9. QED
  BY <1>5, <1>6, <1>7, <1>8

(* No descriptor is in two places. *)
LEMMA OnePlace ==
  \A x, y \in DOMAIN lists : \A k \in 1 .. Len(lists[x]) : \A n \in 1 .. Len(lists[y]) :
    PoolInv /\ lists[x][k] = lists[y][n] => x = y /\ k = n
BY DEF PoolInv

(* A descriptor that goes from one list to the head of another leaves the  *)
(* pool in order ('Z' and 'z').                                            *)
LEMMA PoolMoved ==
  ASSUME GdbTypeOK, PoolInv,
         NEW l \in DOMAIN lists, NEW m \in DOMAIN lists, l # m,
         NEW i \in 1 .. Len(lists[l]), NEW short \in Seq(Entries), NEW long \in Seq(Entries),
         Len(short) = Len(lists[l]) - 1,
         \A k \in 1 .. Len(lists[l]) - 1 :
           short[k] = IF k < i THEN lists[l][k] ELSE lists[l][k + 1],
         Len(long) = Len(lists[m]) + 1, long[1] = lists[l][i],
         \A k \in 1 .. Len(lists[m]) : long[k + 1] = lists[m][k],
         lists' = [lists EXCEPT ![l] = short, ![m] = long]
  PROVE  PoolInv' /\ lists' \in [Lists \cup {"free"} -> Seq(Entries)]
<1>1. /\ lists \in [Lists \cup {"free"} -> Seq(Entries)]
      /\ \A x \in DOMAIN lists : Len(lists[x]) \in Nat
  BY LenProperties DEF GdbTypeOK
<1>2. /\ lists' \in [Lists \cup {"free"} -> Seq(Entries)] /\ DOMAIN lists' = DOMAIN lists
      /\ lists'[l] = short /\ lists'[m] = long
      /\ \A x \in DOMAIN lists : x # l /\ x # m => lists'[x] = lists[x]
  BY <1>1
<1> DEFINE List(x, k) == IF x = m /\ k = 1 THEN l ELSE x
           Place(x, k) == IF x = l THEN IF k < i THEN k ELSE k + 1
                          ELSE IF x = m THEN IF k = 1 THEN i ELSE k - 1 ELSE k
<1>3. ASSUME NEW x \in DOMAIN lists, NEW k \in 1 .. Len(lists'[x])
      PROVE  /\ List(x, k) \in DOMAIN lists
             /\ Place(x, k) \in 1 .. Len(lists[List(x, k)])
             /\ lists'[x][k] = lists[List(x, k)][Place(x, k)]
  <2>1. CASE x = l
    <3>1. k \in 1 .. Len(lists[l]) - 1 /\ lists'[x][k] = short[k] /\ Len(lists[l]) \in Nat
      BY <1>1, <1>2, <1>3, <2>1
    <3>2. QED
      BY <2>1, <3>1
  <2>2. CASE x = m /\ k = 1
    BY <1>2, <2>2
  <2>3. CASE x = m /\ k # 1
    <3>1. k \in 1 .. Len(lists[m]) + 1 /\ Len(lists[m]) \in Nat /\ lists'[x][k] = long[k]
      BY <1>1, <1>2, <1>3, <2>3
    <3>2. k - 1 \in 1 .. Len(lists[m]) /\ (k - 1) + 1 = k
      BY <2>3, <3>1
    <3>3. long[k] = lists[m][k - 1]
      BY <3>2
    <3>4. QED
      BY <2>3, <3>1, <3>2, <3>3
  <2>4. CASE x # l /\ x # m
    BY <1>2, <1>3, <2>4
  <2>5. QED
    BY <2>1, <2>2, <2>3, <2>4
<1>4. ASSUME NEW x \in DOMAIN lists, NEW k \in 1 .. Len(lists'[x]),
             NEW y \in DOMAIN lists, NEW n \in 1 .. Len(lists'[y]),
             lists'[x][k] = lists'[y][n]
      PROVE  x = y /\ k = n
  <2>1. List(x, k) = List(y, n) /\ Place(x, k) = Place(y, n)
    <3> HIDE DEF List, Place
    <3>1. lists[List(x, k)][Place(x, k)] = lists[List(y, n)][Place(y, n)]
      BY <1>3, <1>4, SMTT(30)
    <3>2. /\ PoolInv
          /\ List(x, k) \in DOMAIN lists /\ Place(x, k) \in 1 .. Len(lists[List(x, k)])
          /\ List(y, n) \in DOMAIN lists /\ Place(y, n) \in 1 .. Len(lists[List(y, n)])
      BY <1>3
    <3>3. QED
      BY ONLY <3>1, <3>2, OnePlace
  <2>2. k \in Nat /\ n \in Nat /\ k > 0 /\ n > 0 /\ i \in Nat
    <3>1. \A z \in DOMAIN lists : Len(lists'[z]) \in Nat
      BY <1>2, LenProperties
    <3>2. QED
      BY <1>1, <3>1
  <2>3. QED
    BY <2>1, <2>2
<1>5. ASSUME NEW e \in Entries
      PROVE  \E x \in DOMAIN lists : \E k \in 1 .. Len(lists'[x]) : lists'[x][k] = e
  <2>1. PICK x \in DOMAIN lists : \E k \in 1 .. Len(lists[x]) : lists[x][k] = e
    BY DEF PoolInv
  <2>2. PICK k \in 1 .. Len(lists[x]) : lists[x][k] = e
    BY <2>1
  <2>3. CASE x = l /\ k = i
    <3>1. 1 \in 1 .. Len(long)
      BY <1>1
    <3>2. QED
      BY <1>2, <2>2, <2>3, <3>1
  <2>4. CASE x = l /\ k < i
    <3>1. k \in 1 .. Len(lists[l]) - 1
      BY <1>1, <2>2, <2>4
    <3>2. short[k] = e
      BY <2>2, <2>4, <3>1
    <3>3. QED
      BY <1>2, <3>1, <3>2
  <2>5. CASE x = l /\ k > i
    <3>1. k - 1 \in 1 .. Len(lists[l]) - 1 /\ ~(k - 1 < i) /\ (k - 1) + 1 = k
      BY <1>1, <2>2, <2>5
    <3>2. short[k - 1] = e
      BY <2>2, <2>5, <3>1
    <3>3. QED
      BY <1>2, <3>1, <3>2
  <2>6. CASE x = m
    <3>1. k + 1 \in 1 .. Len(long)
      BY <1>1, <2>2, <2>6
    <3>2. long[k + 1] = e
      BY <2>2, <2>6
    <3>3. QED
      BY <1>2, <3>1, <3>2
  <2>7. CASE x # l /\ x # m
    BY <1>2, <2>2, <2>7
  <2>8. k < i \/ k = i \/ k > i
    BY <1>1, <2>1
  <2>9. QED
    BY ONLY <2>3, <2>4, <2>5, <2>6, <2>7, <2>8
<1>6. \A e \in Entries :
        \E x \in DOMAIN lists' : \E k \in 1 .. Len(lists'[x]) : lists'[x][k] = e
  BY <1>2, <1>5
<1>7. \A x, y \in DOMAIN lists' : \A k \in 1 .. Len(lists'[x]) : \A n \in 1 .. Len(lists'[y]) :
        lists'[x][k] = lists'[y][n] => x = y /\ k = n
  BY ONLY <1>2, <1>4
<1>8. QED
  BY <1>2, <1>6, <1>7 DEF PoolInv

-----------------------------------------------------------------------------
(* The initial state, and what steps have in common.                       *)

(* createStub_gdb: every descriptor is free, and the CPU's stall is known. *)
LEMMA GdbInvInit == Init => GdbInv
<1> SUFFICES ASSUME Init PROVE GdbInv
  OBVIOUS
<1> DEFINE N == Cardinality(Entries)
<1>1. N \in Nat /\ ExistsBijection(1 .. N, Entries)
  BY GdbAssumption, FS_CardinalityType
<1>2. PICK f \in Bijection(1 .. N, Entries) : TRUE
  BY <1>1 DEF ExistsBijection
<1>3. f \in [1 .. N -> Entries] /\ IsInjective(f)
  BY <1>2 DEF Bijection, Injection
<1>4. SetToSeq(Entries) \in [1 .. N -> Entries] /\ IsInjective(SetToSeq(Entries))
  BY <1>3 DEF SetToSeq
<1> DEFINE seq == SetToSeq(Entries)
<1>5. seq \in Injection(1 .. N, Entries)
  BY <1>4 DEF Injection
<1>6. IsFiniteSet(1 .. N) /\ Cardinality(1 .. N) = N
  BY <1>1, FS_Interval
<1>7. seq \in Surjection(1 .. N, Entries)
  BY <1>5, <1>6, GdbAssumption, FS_Injection
<1> HIDE DEF N, seq
<1>8. seq \in Seq(Entries) /\ Len(seq) = N
  BY <1>1, <1>5 DEF Injection
<1>9. \A e \in Entries : \E n \in 1 .. Len(seq) : seq[n] = e
  BY <1>7, <1>8 DEF Surjection
<1>10. \A k, n \in 1 .. Len(seq) : seq[k] = seq[n] => k = n
  BY <1>5, <1>8 DEF Injection, IsInjective
<1>11. lists = [l \in Lists \cup {"free"} |-> IF l = "free" THEN seq ELSE <<>>]
  BY DEF Init, seq
<1>12. PoolInv
  <2>1. /\ lists["free"] = seq /\ DOMAIN lists = Lists \cup {"free"}
        /\ \A l \in DOMAIN lists : l # "free" => lists[l] = <<>> /\ 1 .. Len(lists[l]) = {}
    BY <1>11
  <2>2. QED
    BY <1>9, <1>10, <2>1 DEF PoolInv
<1>13. GdbTypeOK
  <2>1. lists \in [Lists \cup {"free"} -> Seq(Entries)]
    BY <1>8, <1>11
  <2>2. (CHOOSE a \in Addrs : TRUE) \in Addrs
    BY GdbAssumption
  <2>3. 0 \in 0 .. MaxAccesses
    BY GdbAssumption
  <2>4. work \in [Threads -> Seq(Statements)]
    BY DEF Init
  <2>5. baddr \in [Entries -> Addrs]
    BY <2>2 DEF Init
  <2>6. cpu \in [pc : {"sweep", "gate1", "run", "fetch", "fetched", "hook", "exec", "gate2"},
                 addr : Addrs, left : 0 .. MaxAccesses, active : BOOLEAN]
    BY <2>3 DEF Init
  <2>7. QED
    BY <2>1, <2>4, <2>5, <2>6 DEF Init, GdbTypeOK
<1>14. \A t \in Threads : Ordered(t, work[t])
  BY OrderedNone DEF Init
<1>15. QED
  BY <1>12, <1>13, <1>14 DEF Init, GdbInv, StallIsKnown

(* A thread is left with a program in a good order. *)
LEMMA WorkKept ==
  ASSUME GdbInv, NEW t \in Threads, NEW w, Ordered(t, w), Goes(t, w)
  PROVE  /\ work' \in [Threads -> Seq(Statements)] /\ work'[t] = w
         /\ \A r \in Threads : Ordered(r, work'[r]) /\ (r # t => work'[r] = work[r])
<1>1. work \in [Threads -> Seq(Statements)] /\ \A r \in Threads : Ordered(r, work[r])
  BY DEF GdbInv, GdbTypeOK
<1>2. work' = [work EXCEPT ![t] = w] /\ w \in Seq(Statements)
  BY DEF Goes, Ordered
<1>3. work'[t] = w /\ \A r \in Threads : r # t => work'[r] = work[r]
  BY <1>1, <1>2
<1>4. QED
  BY <1>1, <1>2, <1>3

(* A stall stays known as long as a thread still has its report, or its    *)
(* end, to run.                                                            *)
LEMMA StillKnown ==
  ASSUME GdbInv, NEW t \in Threads, NEW w, Goes(t, w),
         \A st \in {<<"indicate">>, <<"unstall">>} :
           st \in Range(work[t]) => st \in Range(w),
         UNCHANGED <<arm_stall, ctl_stub_state, pipe>>
  PROVE  StallIsKnown'
<1>1. work \in [Threads -> Seq(Statements)] /\ work' = [work EXCEPT ![t] = w]
  BY DEF GdbInv, GdbTypeOK, Goes
<1>2. \A r \in Threads : \A st \in {<<"indicate">>, <<"unstall">>} :
        st \in Range(work[r]) => st \in Range(work'[r])
  <2> SUFFICES ASSUME NEW r \in Threads, NEW st \in {<<"indicate">>, <<"unstall">>},
                      st \in Range(work[r])
               PROVE  st \in Range(work'[r])
    OBVIOUS
  <2>1. CASE r = t
    BY <1>1, <2>1
  <2>2. CASE r # t
    BY <1>1, <2>2
  <2>3. QED
    BY <2>1, <2>2
<1>3. QED
  BY <1>2 DEF GdbInv, StallIsKnown, Threads

-----------------------------------------------------------------------------
(* Every step keeps the invariant.                                         *)

(* One statement of a thread: a stall leaves its report to be run, the     *)
(* report lets the listener know, a resume leaves the end of the stall.    *)
LEMMA StatementKeepsInv ==
  ASSUME GdbInv, NEW t \in Threads, Statement(t)
  PROVE  GdbInv'
<1> DEFINE w == work[t]
           st == Head(w)
           rest == Tail(w)
<1>1. /\ work \in [Threads -> Seq(Statements)] /\ w \in Seq(Statements) /\ w # <<>>
      /\ Ordered(t, w) /\ UNCHANGED Unshared
      /\ GdbTypeOK /\ PoolInv /\ StallIsKnown
  BY DEF GdbInv, GdbTypeOK, Statement
<1>2. /\ st \in Statements /\ Ordered(t, rest)
      /\ st = <<"stall">> => <<"indicate">> \in Range(rest)
      /\ st = <<"start_run">> => t # "cpu" /\ <<"unstall">> \in Range(rest)
      /\ \A x \in Range(w) : x # st => x \in Range(rest)
  BY <1>1, OrderedTail
<1>3. /\ \A k \in {"stall", "zero", "unhook", "indicate", "start_run", "unstall"} :
           st[1] = k => st = <<k>>
      /\ st[1] = "walk" => st[2] \in Lists /\ st[3] \in Addrs
      /\ st[1] \in {"visit", "next"} => st[2] \in Entries /\ st[3] \in Addrs
      /\ st[1] = "install_step" => st[2] \in Addrs
  BY <1>2, Kinds
<1>4. rest \in Seq(Statements)
  BY <1>2 DEF Ordered
<1> HIDE DEF w, st, rest
<1>5. ASSUME NEW u, Ordered(t, u), Goes(t, u),
             arm_stall' \in BOOLEAN, NumInstrs' \in BOOLEAN, pipe' \in Nat,
             post_ex_fn' \in {NoHook, Break} \cup {StepTo(a) : a \in Addrs},
             ctl_stub_state' \in {"STOPPED", "START_RUN"}, StallIsKnown'
      PROVE  GdbInv'
  <2>1. work' \in [Threads -> Seq(Statements)] /\ \A r \in Threads : Ordered(r, work'[r])
    BY <1>5, WorkKept
  <2>2. GdbTypeOK'
    BY <1>1, <1>5, <2>1 DEF GdbTypeOK, Unshared
  <2>3. PoolInv'
    BY <1>1 DEF PoolInv, Unshared
  <2>4. QED
    BY <1>5, <2>1, <2>2, <2>3 DEF GdbInv
<1>6. ASSUME NEW u, Ordered(t, u), Goes(t, u), \A x \in Range(rest) : x \in Range(u),
             UNCHANGED <<arm_stall, ctl_stub_state, pipe>>, NumInstrs' \in BOOLEAN,
             post_ex_fn' \in {NoHook, Break} \cup {StepTo(a) : a \in Addrs},
             st # <<"indicate">>, st # <<"unstall">>
      PROVE  GdbInv'
  <2>1. \A x \in {<<"indicate">>, <<"unstall">>} : x \in Range(w) => x \in Range(u)
    BY <1>2, <1>6
  <2>2. StallIsKnown'
    BY <1>6, <2>1, StillKnown DEF w
  <2>3. QED
    BY <1>1, <1>5, <1>6, <2>2 DEF GdbTypeOK
<1>7. ASSUME NEW v, Ordered(t, v)
      PROVE  Ordered(t, v \o rest) /\ \A x \in Range(rest) : x \in Range(v \o rest)
  <2>1. Ordered(t, v \o rest)
    BY <1>2, <1>7, OrderedConcat
  <2>2. Range(v \o rest) = Range(v) \cup Range(rest)
    BY <1>4, <1>7, RangeConcatenation DEF Ordered
  <2>3. QED
    BY <2>1, <2>2
<1>8. CASE st[1] = "stall" /\ Stall(t, rest)
  <2>1. <<"indicate">> \in Range(rest) /\ Goes(t, rest)
    BY <1>2, <1>3, <1>8 DEF Stall
  <2>2. work'[t] = rest
    BY <1>2, <2>1, WorkKept
  <2>3. StallIsKnown'
    BY <2>1, <2>2 DEF StallIsKnown, Threads
  <2>4. QED
    BY <1>1, <1>2, <1>5, <1>8, <2>1, <2>3 DEF Stall, GdbTypeOK
<1>9. CASE st[1] = "zero" /\ Zero(t, rest)
  <2>1. NumInstrs' \in BOOLEAN
    BY <1>9 DEF Zero
  <2>2. /\ Goes(t, rest) /\ UNCHANGED <<arm_stall, post_ex_fn, pipe, ctl_stub_state>>
        /\ st # <<"indicate">> /\ st # <<"unstall">>
    BY <1>3, <1>9 DEF Zero
  <2>3. post_ex_fn' \in {NoHook, Break} \cup {StepTo(a) : a \in Addrs}
    BY <1>1, <2>2 DEF GdbTypeOK
  <2>4. QED
    BY <1>2, <1>6, <2>1, <2>2, <2>3
<1>10. CASE st[1] = "unhook" /\ Unhook(t, rest)
  BY <1>1, <1>2, <1>3, <1>6, <1>10 DEF Unhook, GdbTypeOK
<1>11. CASE st[1] = "indicate" /\ indicateCPUStop(t, rest)
  <2>1. pipe' \in Nat /\ pipe' > 0
    BY <1>1, <1>11 DEF indicateCPUStop, GdbTypeOK
  <2>2. StallIsKnown'
    BY <2>1 DEF StallIsKnown
  <2>3. QED
    BY <1>1, <1>2, <1>5, <1>11, <2>1, <2>2 DEF indicateCPUStop, GdbTypeOK
<1>12. CASE st[1] = "walk" /\ Walk(t, st, rest)
  <2>1. lists[st[2]] \in Seq(Entries)
    BY <1>1, <1>3, <1>12 DEF GdbTypeOK
  <2>2. Ordered(t, Visit(lists[st[2]], st[3]))
    BY <1>3, <1>12, <2>1, OrderedVisit
  <2>3. QED
    BY <1>1, <1>3, <1>6, <1>7, <1>12, <2>2 DEF Walk, Shared, GdbTypeOK
<1>13. ASSUME st[1] \in {"visit", "next"}
       PROVE  Ordered(t, Visit(NextOf(st[2]), st[3]))
  BY <1>1, <1>3, <1>13, NextOfType, OrderedVisit
<1>14. CASE st[1] = "visit" /\ VisitEntry(t, st, rest)
  <2>1. CASE baddr[st[2]] = st[3]
    <3>1. Ordered(t, Stopping)
      BY OrderedStops
    <3>2. <<"next", st[2], st[3]>> \in Statements
      BY <1>3, <1>14 DEF Statements
    <3>3. Ordered(t, <<<<"next", st[2], st[3]>>>>)
      BY <3>2, OrderedOne
    <3>4. Ordered(t, Stopping \o <<<<"next", st[2], st[3]>>>>)
      BY <3>1, <3>3, OrderedConcat
    <3>5. Goes(t, (Stopping \o <<<<"next", st[2], st[3]>>>>) \o rest)
      BY <1>14, <2>1 DEF VisitEntry
    <3>6. QED
      BY <1>1, <1>6, <1>7, <1>14, <3>4, <3>5 DEF VisitEntry, Shared, GdbTypeOK
  <2>2. CASE baddr[st[2]] # st[3]
    BY <1>1, <1>3, <1>6, <1>7, <1>13, <1>14, <2>2 DEF VisitEntry, Shared, GdbTypeOK
  <2>3. QED
    BY <2>1, <2>2
<1>15. CASE st[1] = "next" /\ NextEntry(t, st, rest)
  BY <1>1, <1>3, <1>6, <1>7, <1>13, <1>15 DEF NextEntry, Shared, GdbTypeOK
<1>16. CASE st[1] = "start_run" /\ StartRun(t, rest)
  <2>1. t = "listener" /\ <<"unstall">> \in Range(rest) /\ Goes(t, rest)
    BY <1>2, <1>3, <1>16 DEF StartRun, Threads
  <2>2. work'[t] = rest
    BY <1>2, <2>1, WorkKept
  <2>3. StallIsKnown'
    BY <2>1, <2>2 DEF StallIsKnown
  <2>4. QED
    BY <1>1, <1>2, <1>5, <1>16, <2>1, <2>3 DEF StartRun, GdbTypeOK
<1>17. CASE st[1] = "install_step" /\ InstallStep(t, st[2], rest)
  BY <1>1, <1>2, <1>3, <1>6, <1>17 DEF InstallStep, GdbTypeOK
<1>18. CASE st[1] = "unstall" /\ Unstall(t, rest)
  <2>1. StallIsKnown'
    BY <1>18 DEF Unstall, StallIsKnown
  <2>2. QED
    BY <1>1, <1>2, <1>5, <1>18, <2>1 DEF Unstall, GdbTypeOK
<1>19. QED
  BY <1>8, <1>9, <1>10, <1>11, <1>12, <1>14, <1>15, <1>16, <1>17, <1>18
  DEF Statement, w, st, rest

(* A step that leaves the stall, the stub's state, the pipe and the lists  *)
(* alone, and gives at most one idle thread something to do.               *)
LEMMA QuietKeepsInv ==
  ASSUME GdbInv, UNCHANGED <<arm_stall, ctl_stub_state, pipe, lists>>,
         \/ UNCHANGED work
         \/ \E t \in Threads : \E u : work[t] = <<>> /\ Ordered(t, u) /\ Goes(t, u),
         NumInstrs' \in BOOLEAN, sock_fd' \in BOOLEAN, ctrlC' \in BOOLEAN,
         post_ex_fn' \in {NoHook, Break} \cup {StepTo(a) : a \in Addrs},
         baddr' \in [Entries -> Addrs], dbg' \in {"off", "stopped", "running"},
         cpu' \in [pc : {"sweep", "gate1", "run", "fetch", "fetched", "hook", "exec", "gate2"},
                   addr : Addrs, left : 0 .. MaxAccesses, active : BOOLEAN]
  PROVE  GdbInv'
<1>1. GdbTypeOK /\ PoolInv /\ StallIsKnown /\ \A r \in Threads : Ordered(r, work[r])
  BY DEF GdbInv
<1>2. PoolInv'
  BY <1>1 DEF PoolInv
<1>3. /\ work' \in [Threads -> Seq(Statements)] /\ \A r \in Threads : Ordered(r, work'[r])
      /\ StallIsKnown'
  <2>1. CASE UNCHANGED work
    BY <1>1, <2>1 DEF GdbTypeOK, StallIsKnown
  <2>2. ASSUME NEW t \in Threads, NEW u, work[t] = <<>>, Ordered(t, u), Goes(t, u)
        PROVE  /\ work' \in [Threads -> Seq(Statements)]
               /\ \A r \in Threads : Ordered(r, work'[r]) /\ StallIsKnown'
    <3>1. Range(work[t]) = {}
      BY <2>2 DEF Range
    <3>2. QED
      BY <2>2, <3>1, WorkKept, StillKnown
  <2>3. QED
    BY <2>1, <2>2
<1>4. GdbTypeOK'
  BY <1>1, <1>3 DEF GdbTypeOK
<1>5. QED
  BY <1>2, <1>3, <1>4 DEF GdbInv

(* The CPU's thread: the sweep, the gate, the prefetch, the hook and the   *)
(* instruction; and a guest thread that wakes up.                          *)
LEMMA CpuKeepsInv ==
  ASSUME GdbInv, CpuThread \/ Wake
  PROVE  GdbInv'
<1> DEFINE Cpu == [pc : {"sweep", "gate1", "run", "fetch", "fetched", "hook", "exec", "gate2"},
                   addr : Addrs, left : 0 .. MaxAccesses, active : BOOLEAN]
<1>1. GdbTypeOK /\ cpu \in Cpu /\ "cpu" \in Threads /\ MaxAccesses \in Nat
  BY GdbAssumption DEF GdbInv, GdbTypeOK, Threads
<1>2. ASSUME UNCHANGED CpuOnly, NumInstrs' \in BOOLEAN, cpu' \in Cpu,
             UNCHANGED work
             \/ \E u : work["cpu"] = <<>> /\ Ordered("cpu", u) /\ Goes("cpu", u)
      PROVE  GdbInv'
  <2>1. /\ sock_fd' \in BOOLEAN /\ ctrlC' \in BOOLEAN /\ dbg' \in {"off", "stopped", "running"}
        /\ post_ex_fn' \in {NoHook, Break} \cup {StepTo(a) : a \in Addrs}
        /\ baddr' \in [Entries -> Addrs]
    BY <1>1, <1>2 DEF GdbTypeOK, CpuOnly
  <2>2. QED
    BY <1>1, <1>2, <2>1, QuietKeepsInv DEF CpuOnly
<1>3. CASE Statement("cpu")
  BY <1>1, <1>3, StatementKeepsInv
<1>4. CASE wait_while_stall
  <2>1. cpu' \in Cpu
    BY <1>1, <1>4 DEF wait_while_stall
  <2>2. QED
    BY <1>1, <1>2, <1>4, <2>1 DEF wait_while_stall, GdbTypeOK
<1>5. CASE arm11_Run
  <2>1. cpu' \in Cpu
    BY <1>1, <1>5 DEF arm11_Run
  <2>2. NumInstrs' \in BOOLEAN
    BY <1>5 DEF arm11_Run
  <2>3. QED
    BY <1>2, <1>5, <2>1, <2>2 DEF arm11_Run
<1>6. CASE Prefetch
  <2>1. cpu' \in Cpu
    BY <1>1, <1>6 DEF Prefetch
  <2>2. Ordered("cpu", gdb_prefetch(cpu.addr))
    BY <1>1, OrderedChecks
  <2>3. QED
    BY <1>1, <1>2, <1>6, <2>1, <2>2 DEF Prefetch, CpuIsAt, GdbTypeOK
<1>7. CASE Fetched
  <2>1. cpu' \in Cpu
    BY <1>1, <1>7 DEF Fetched
  <2>2. QED
    BY <1>1, <1>2, <1>7, <2>1 DEF Fetched, GdbTypeOK
<1>8. CASE CallHook
  <2>1. cpu' \in Cpu
    <3>1. cpu' = [cpu EXCEPT !.pc = "exec", !.left = MaxAccesses]
      BY <1>8 DEF CallHook
    <3>2. MaxAccesses \in 0 .. MaxAccesses
      BY <1>1
    <3>3. QED
      BY <1>1, <3>1, <3>2
  <2>2. Ordered("cpu", break_execution) /\ Ordered("cpu", step_instruction_watch(cpu.addr))
    BY <1>1, OrderedStops, OrderedNone DEF break_execution, step_instruction_watch
  <2>3. post_ex_fn.fn \in {"none", "break", "step"}
    BY <1>1 DEF GdbTypeOK, NoHook, Break, StepTo
  <2>4. \E u : Ordered("cpu", u) /\ Goes("cpu", u)
    BY <1>1, <1>8, <2>2, <2>3, OrderedNone DEF CallHook
  <2>5. QED
    BY <1>1, <1>2, <1>8, <2>1, <2>4 DEF CallHook, CpuIsAt, GdbTypeOK
<1>9. CASE Access
  <2>1. cpu' \in Cpu
    BY <1>1, <1>9 DEF Access
  <2>2. Ordered("cpu", break_bus_error("cpu") \o break_bus_error("cpu"))
    BY <1>1, OrderedStops, OrderedConcat DEF break_bus_error
  <2>3. \E u : Ordered("cpu", u) /\ Goes("cpu", u)
    BY <1>9, <2>2, OrderedChecks DEF Access
  <2>4. QED
    BY <1>1, <1>2, <1>9, <2>1, <2>3 DEF Access, CpuIsAt, GdbTypeOK
<1>10. CASE Retire
  <2>1. cpu' \in Cpu
    BY <1>1, <1>10 DEF Retire
  <2>2. NumInstrs' \in BOOLEAN
    <3>1. PICK more \in {NumInstrs, FALSE} : NumInstrs' = more
      BY <1>10, Zenon DEF Retire
    <3>2. NumInstrs \in BOOLEAN /\ FALSE \in BOOLEAN
      BY <1>1 DEF GdbTypeOK
    <3>3. QED
      BY <3>1, <3>2
  <2>3. QED
    BY <1>2, <1>10, <2>1, <2>2 DEF Retire
<1>11. CASE threads_Execute
  <2>1. cpu' \in Cpu
    BY <1>1, <1>11 DEF threads_Execute
  <2>2. QED
    BY <1>1, <1>2, <1>11, <2>1 DEF threads_Execute, GdbTypeOK
<1>12. CASE Wake
  <2>1. cpu' \in Cpu
    BY <1>1, <1>12 DEF Wake
  <2>2. QED
    BY <1>1, <1>2, <1>12, <2>1 DEF Wake, GdbTypeOK
<1>13. QED
  BY <1>3, <1>4, <1>5, <1>6, <1>7, <1>8, <1>9, <1>10, <1>11, <1>12 DEF CpuThread

(* The listener's thread, the packets it is sent, and the debugger. *)
LEMMA ListenerKeepsInv ==
  ASSUME GdbInv, ListenerThread \/ Packets \/ PressCtrlC \/ Disconnect
  PROVE  GdbInv'
<1> DEFINE Hooks == {NoHook, Break} \cup {StepTo(a) : a \in Addrs}
<1>1. GdbTypeOK /\ PoolInv /\ "listener" \in Threads
  BY DEF GdbInv, Threads
<1>2. ASSUME UNCHANGED <<arm_stall, NumInstrs, ctl_stub_state, pipe, lists, baddr, cpu>>,
             post_ex_fn' \in Hooks, sock_fd' \in BOOLEAN, ctrlC' \in BOOLEAN,
             dbg' \in {"off", "stopped", "running"},
             UNCHANGED work
             \/ \E u : work["listener"] = <<>> /\ Ordered("listener", u) /\ Goes("listener", u)
      PROVE  GdbInv'
  <2>1. /\ baddr' \in [Entries -> Addrs] /\ NumInstrs' \in BOOLEAN
        /\ cpu' \in [pc : {"sweep", "gate1", "run", "fetch", "fetched", "hook", "exec", "gate2"},
                     addr : Addrs, left : 0 .. MaxAccesses, active : BOOLEAN]
    BY <1>1, <1>2 DEF GdbTypeOK
  <2>2. QED
    BY <1>1, <1>2, <2>1, QuietKeepsInv
<1>3. CASE Statement("listener")
  BY <1>1, <1>3, StatementKeepsInv
<1>4. CASE TakeControlByte
  <2>1. ctl_stub_state' = "STOPPED" /\ pipe' \in Nat
    BY <1>1, <1>4 DEF TakeControlByte, GdbTypeOK
  <2>2. dbg' \in {"off", "stopped", "running"} /\ ctrlC' \in BOOLEAN
    BY <1>1, <1>4 DEF TakeControlByte, GdbTypeOK
  <2>3. GdbTypeOK'
    BY <1>1, <1>4, <2>1, <2>2 DEF TakeControlByte, ListenerOnly, GdbTypeOK
  <2>4. PoolInv' /\ StallIsKnown' /\ \A r \in Threads : Ordered(r, work'[r])
    BY <1>1, <1>4, <2>1 DEF TakeControlByte, PoolInv, StallIsKnown, GdbInv
  <2>5. QED
    BY <2>3, <2>4 DEF GdbInv
<1>5. CASE Accept
  BY <1>1, <1>2, <1>5 DEF Accept, ListenerOnly, GdbTypeOK
<1>6. CASE ReadSocketError
  BY <1>1, <1>2, <1>6 DEF ReadSocketError, ListenerOnly, GdbTypeOK
<1>7. CASE ReadBreak
  BY <1>1, <1>2, <1>7 DEF ReadBreak, ListenerOnly, GdbTypeOK
<1>8. ASSUME NEW u, ProcessPacket(u), Packet, Ordered("listener", u),
             dbg' \in {"off", "stopped", "running"}, UNCHANGED cpu
      PROVE  GdbInv'
  BY <1>1, <1>2, <1>8 DEF ProcessPacket, Packet, SelectsSocket, Listens, GdbTypeOK
<1>9. CASE Continue
  <2>1. Addrs # {}
    BY GdbAssumption
  <2>2. QED
    BY <1>8, <1>9, <2>1, OrderedResumes DEF Continue
<1>10. CASE SingleStep
  <2>1. PICK a \in Addrs :
          ProcessPacket(<<<<"install_step", a>>, <<"start_run">>, <<"unstall">>>>)
    BY <1>10 DEF SingleStep, SelectedPc
  <2>2. QED
    BY <1>8, <1>10, <2>1, OrderedResumes DEF SingleStep
<1>11. CASE BadAccess
  <2>1. Ordered("listener", break_bus_error("listener"))
    BY <1>1, OrderedStops DEF break_bus_error
  <2>2. dbg' \in {"off", "stopped", "running"}
    BY <1>1, <1>11 DEF BadAccess, GdbTypeOK
  <2>3. QED
    BY <1>8, <1>11, <2>1, <2>2 DEF BadAccess
<1>12. CASE Detach
  BY <1>1, <1>8, <1>12, OrderedNone DEF Detach
<1>13. ASSUME UNCHANGED <<post_ex_fn, ctl_stub_state, pipe, sock_fd, work, dbg, ctrlC>>,
              UNCHANGED ListenerOnly, PoolInv', baddr' \in [Entries -> Addrs],
              lists' \in [Lists \cup {"free"} -> Seq(Entries)]
       PROVE  GdbInv'
  <2>1. GdbTypeOK'
    BY <1>1, <1>13 DEF ListenerOnly, GdbTypeOK
  <2>2. StallIsKnown' /\ \A r \in Threads : Ordered(r, work'[r])
    BY <1>13 DEF ListenerOnly, StallIsKnown, GdbInv
  <2>3. QED
    BY <1>13, <2>1, <2>2 DEF GdbInv
<1>14. /\ DOMAIN lists = Lists \cup {"free"} /\ "free" \notin Lists
       /\ \A l \in DOMAIN lists : /\ lists[l] \in Seq(Entries) /\ Len(lists[l]) \in Nat
                                  /\ DOMAIN lists[l] = 1 .. Len(lists[l])
  BY <1>1, LenProperties DEF GdbTypeOK, Lists
<1>15. ASSUME NEW v \in Seq(Entries), NEW e \in Entries
       PROVE  /\ <<e>> \o v \in Seq(Entries) /\ Len(<<e>> \o v) = Len(v) + 1
              /\ (<<e>> \o v)[1] = e
              /\ \A k \in 1 .. Len(v) : (<<e>> \o v)[k + 1] = v[k]
  <2>1. /\ <<e>> \in Seq(Entries) /\ Len(<<e>>) = 1 /\ <<e>>[1] = e /\ Len(v) \in Nat
    BY LenProperties
  <2>2. /\ <<e>> \o v \in Seq(Entries) /\ Len(<<e>> \o v) = 1 + Len(v)
        /\ \A k \in 1 .. 1 + Len(v) : (<<e>> \o v)[k] = IF k <= 1 THEN <<e>>[k] ELSE v[k - 1]
    BY <2>1, ConcatProperties
  <2>3. QED
    BY <2>1, <2>2
<1>16. ASSUME NEW l \in Lists, NEW a \in Addrs, InsertBreakpoint(l, a)
       PROVE  GdbInv'
  <2> DEFINE free == lists["free"]
             e == Head(free)
             long == <<e>> \o lists[l]
  <2>1. free \in Seq(Entries) /\ free # <<>> /\ Len(free) \in Nat /\ l \in DOMAIN lists
    BY <1>14, <1>16 DEF InsertBreakpoint
  <2>2. /\ e \in Entries /\ e = free[1] /\ Tail(free) \in Seq(Entries)
        /\ Len(Tail(free)) = Len(free) - 1
        /\ \A k \in 1 .. Len(Tail(free)) : Tail(free)[k] = free[k + 1]
    BY <2>1, HeadTailProperties
  <2>3. 1 \in 1 .. Len(free)
    BY <2>1, EmptySeq
  <2>4. /\ lists' = [lists EXCEPT !["free"] = Tail(free), ![l] = long]
        /\ baddr' = [baddr EXCEPT ![e] = a]
    BY <1>16 DEF InsertBreakpoint
  <2>5. /\ long \in Seq(Entries) /\ Len(long) = Len(lists[l]) + 1 /\ long[1] = free[1]
        /\ \A k \in 1 .. Len(lists[l]) : long[k + 1] = lists[l][k]
    BY <1>14, <1>15, <2>1, <2>2
  <2>6. \A k \in 1 .. Len(free) - 1 : Tail(free)[k] = IF k < 1 THEN free[k] ELSE free[k + 1]
    BY <2>2
  <2> HIDE DEF e, long
  <2>7. PoolInv' /\ lists' \in [Lists \cup {"free"} -> Seq(Entries)]
    BY <1>1, <1>14, <2>1, <2>2, <2>3, <2>4, <2>5, <2>6, PoolMoved
  <2>8. baddr' \in [Entries -> Addrs]
    BY <1>1, <2>4 DEF GdbTypeOK
  <2>9. QED
    BY <1>13, <1>16, <2>7, <2>8 DEF InsertBreakpoint
<1>17. ASSUME NEW l \in Lists, NEW a \in Addrs, RemoveBreakpoint(l, a)
       PROVE  GdbInv'
  <2>1. PICK i \in DOMAIN lists[l] :
          lists' = [lists EXCEPT ![l] = RemoveAt(@, i), !["free"] = <<lists[l][i]>> \o @]
    BY <1>17 DEF RemoveBreakpoint
  <2> DEFINE e == lists[l][i]
             short == RemoveAt(lists[l], i)
             long == <<e>> \o lists["free"]
  <2>2. lists[l] \in Seq(Entries) /\ i \in 1 .. Len(lists[l]) /\ l \in DOMAIN lists
    BY <1>14, <2>1
  <2>3. e \in Entries
    BY <2>2, ElementOfSeq
  <2>4. lists' = [lists EXCEPT ![l] = short, !["free"] = long]
    BY <2>1
  <2>5. /\ long \in Seq(Entries) /\ Len(long) = Len(lists["free"]) + 1 /\ long[1] = e
        /\ \A k \in 1 .. Len(lists["free"]) : long[k + 1] = lists["free"][k]
    BY <1>14, <1>15, <2>3
  <2>6. /\ short \in Seq(Entries) /\ Len(short) = Len(lists[l]) - 1
        /\ \A k \in 1 .. Len(lists[l]) - 1 :
             short[k] = IF k < i THEN lists[l][k] ELSE lists[l][k + 1]
    BY <2>2, RemoveAtEntries
  <2> HIDE DEF short, long
  <2>7. PoolInv' /\ lists' \in [Lists \cup {"free"} -> Seq(Entries)]
    BY <1>1, <1>14, <2>2, <2>4, <2>5, <2>6, PoolMoved
  <2>8. baddr' \in [Entries -> Addrs]
    BY <1>1, <1>17 DEF GdbTypeOK, RemoveBreakpoint
  <2>9. QED
    BY <1>13, <1>17, <2>7, <2>8 DEF RemoveBreakpoint
<1>18. CASE \E l \in BreakLists, a \in BreakAddrs : InsertBreakpoint(l, a) \/ RemoveBreakpoint(l, a)
  BY <1>16, <1>17, <1>18, GdbAssumption
<1>19. CASE PressCtrlC
  BY <1>1, <1>2, <1>19 DEF PressCtrlC, Debugger, GdbTypeOK
<1>20. CASE Disconnect
  BY <1>1, <1>2, <1>20 DEF Disconnect, Debugger, GdbTypeOK
<1>21. QED
  BY <1>3, <1>4, <1>5, <1>6, <1>7, <1>9, <1>10, <1>11, <1>12, <1>18, <1>19, <1>20
  DEF ListenerThread, Packets

(* Every step keeps the invariant. *)
LEMMA GdbInvStep == GdbInv /\ [Next]_vars => GdbInv'
<1> SUFFICES ASSUME GdbInv, [Next]_vars PROVE GdbInv'
  OBVIOUS
<1>1. CASE UNCHANGED vars
  BY <1>1 DEF vars, GdbInv, GdbTypeOK, PoolInv, StallIsKnown
<1>2. CASE Next
  BY <1>2, CpuKeepsInv, ListenerKeepsInv DEF Next
<1>3. QED
  BY <1>1, <1>2

-----------------------------------------------------------------------------
(* The theorems.                                                           *)

(* The invariant holds for every number of breakpoint descriptors, every   *)
(* set of addresses and however many accesses an instruction makes.        *)
THEOREM GdbInvariance == Spec => []GdbInv
BY GdbInvInit, GdbInvStep, PTL DEF Spec

(* What the two threads share keeps its types. *)
THEOREM GdbTypeCorrect == Spec => []GdbTypeOK
<1>1. GdbInv => GdbTypeOK
  BY DEF GdbInv
<1>2. QED
  BY <1>1, GdbInvariance, PTL

(* No breakpoint descriptor is lost or on two lists, whatever 'Z' and 'z'  *)
(* packets come (processPacket_gdb).                                       *)
THEOREM DescriptorsKept == Spec => []PoolInv
<1>1. GdbInv => PoolInv
  BY DEF GdbInv
<1>2. QED
  BY <1>1, GdbInvariance, PTL

(* The CPU's thread never sleeps in a stall that the stub does not know of *)
(* and will not hear of (stall_cpu, wait_while_stall, unstall_cpu).        *)
THEOREM StallsAreKnown == Spec => []StallIsKnown
<1>1. GdbInv => StallIsKnown
  BY DEF GdbInv
<1>2. QED
  BY <1>1, GdbInvariance, PTL

-----------------------------------------------------------------------------
(* The stub's steps are those of a session.                                *)

(* What leaves the stub's state and the pipe alone leaves the session.     *)
LEMMA SessionKept ==
  ASSUME UNCHANGED <<ctl_stub_state, pipe>>
  PROVE  UNCHANGED Session!svars
BY DEF Session!svars

(* A statement makes the session run, asks for a stop, or is none of its   *)
(* business.                                                               *)
LEMMA StatementInSession ==
  ASSUME GdbInv, NEW t \in Threads, Statement(t)
  PROVE  [Session!SNext]_(Session!svars)
<1> DEFINE st == Head(work[t])
           rest == Tail(work[t])
<1>1. pipe \in Nat /\ ctl_stub_state \in {"STOPPED", "START_RUN"}
  BY DEF GdbInv, GdbTypeOK
<1>2. CASE UNCHANGED <<ctl_stub_state, pipe>>
  BY <1>2, SessionKept
<1>3. CASE indicateCPUStop(t, rest)
  <2>1. pipe' > 0 /\ ctl_stub_state' = ctl_stub_state
    BY <1>1, <1>3 DEF indicateCPUStop
  <2>2. QED
    BY <2>1 DEF Session!SNext, Session!Request
<1>4. CASE StartRun(t, rest)
  <2>1. ctl_stub_state' = "START_RUN" /\ pipe' = pipe
    BY <1>4 DEF StartRun
  <2>2. CASE ctl_stub_state = "STOPPED"
    BY <2>1, <2>2 DEF Session!SNext, Session!Resume
  <2>3. CASE ctl_stub_state # "STOPPED"
    BY <1>1, <1>2, <2>1, <2>3
  <2>4. QED
    BY <2>2, <2>3
<1>5. QED
  BY <1>2, <1>3, <1>4
  DEF Statement, Stall, Zero, Unhook, Walk, VisitEntry, NextEntry, InstallStep, Unstall, Shared

(* Every step of the two threads and of the debugger is a step of a        *)
(* session, or none.                                                       *)
LEMMA SessionStep ==
  ASSUME GdbInv, [Next]_vars
  PROVE  [Session!SNext]_(Session!svars)
<1>1. pipe \in Nat /\ {"cpu", "listener"} \subseteq Threads
  BY DEF GdbInv, GdbTypeOK, Threads
<1>2. CASE UNCHANGED <<ctl_stub_state, pipe>>
  BY <1>2, SessionKept
<1>3. CASE Statement("cpu") \/ Statement("listener")
  BY <1>1, <1>3, StatementInSession
<1>4. CASE TakeControlByte
  <2>1. pipe > 0 /\ ctl_stub_state' = "STOPPED" /\ (pipe' > 0) \in BOOLEAN
    BY <1>4 DEF TakeControlByte
  <2>2. QED
    BY <2>1 DEF Session!SNext, Session!Report
<1>5. CASE UNCHANGED vars
  BY <1>2, <1>5 DEF vars
<1>6. CASE \/ threads_Execute \/ Wake \/ wait_while_stall \/ arm11_Run
           \/ Prefetch \/ Fetched \/ CallHook \/ Access \/ Retire
  BY <1>2, <1>6
  DEF threads_Execute, Wake, wait_while_stall, arm11_Run, Prefetch, Fetched, CallHook,
      Access, Retire, CpuOnly
<1>7. CASE ReadSocketError \/ ReadBreak \/ Packets
  BY <1>2, <1>7
  DEF ReadSocketError, ReadBreak, Packets, Accept, Continue, SingleStep, BadAccess, Detach,
      ProcessPacket, InsertBreakpoint, RemoveBreakpoint
<1>8. CASE PressCtrlC \/ Disconnect
  BY <1>2, <1>8 DEF PressCtrlC, Disconnect, Debugger
<1>9. QED
  BY <1>3, <1>4, <1>5, <1>6, <1>7, <1>8 DEF Next, CpuThread, ListenerThread

(* The stub starts a session and takes none but its steps: while it runs,  *)
(* the requests to stop are answered with one report.  That no request     *)
(* waits for ever is the part of ImplementsDebugSession left to TLC.       *)
THEOREM StepsOfSession == Spec => Session!SInit /\ [][Session!SNext]_(Session!svars)
<1>1. Init => Session!SInit
  BY DEF Init, Session!SInit
<1>2. GdbInv /\ [Next]_vars => [Session!SNext]_(Session!svars)
  BY SessionStep
<1>3. QED
  BY <1>1, <1>2, GdbInvariance, PTL DEF Spec

=============================================================================
