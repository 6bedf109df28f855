---------------------------- MODULE DevicesProofs ---------------------------
(***************************************************************************)
(* What holds of the devices of a Node for any threads, works, needs and   *)
(* capacities.  The programs of the executors are well bracketed: every    *)
(* allocation is followed by its release before any other operation on     *)
(* memory, and a parent delegates outside.  So each counter is the sum of  *)
(* what the threads hold, a sum of which every step changes one term.      *)
(***************************************************************************)
EXTENDS Devices, CollectionLemmas

OpNames == {"receive", "send", "read", "write", "cpu", "gpu", "allocate", "release",
            "delegate", "refuse"}
Steps == Seq(OpNames \X Nat)

OnMemory(step) == step[1] \in {"allocate", "release"}

\* j is the first operation on memory after i.
NextOnMemory(s, i, j) ==
  i < j /\ OnMemory(s[j]) /\ \A k \in DOMAIN s : i < k /\ k < j => ~OnMemory(s[k])

\* Every allocation is followed by its release, and memory is allocated again
\* only after it; a parent delegates outside the two.
Bracketed(s) ==
  /\ \A i \in DOMAIN s : s[i][1] = "allocate" =>
       \E j \in DOMAIN s : NextOnMemory(s, i, j) /\ s[j] = <<"release", s[i][2]>>
  /\ \A i, j \in DOMAIN s :
       s[i][1] \in {"release", "delegate"} /\ NextOnMemory(s, i, j) => s[j][1] = "allocate"

\* Nothing is held before, so nothing after.
Whole(s) == s \in Steps /\ Bracketed(s) /\ Closing(s) = {}

\* Only operations of other devices.
Plain(s) == s \in Steps /\ \A i \in DOMAIN s : ~OnMemory(s[i]) /\ s[i][1] # "delegate"

-----------------------------------------------------------------------------
(* Programs                                                                *)

\* A program that leaves the memory alone.
LEMMA PlainWhole == ASSUME NEW s, Plain(s) PROVE Whole(s)
BY DEF Plain, Whole, Bracketed, Closing, OnMemory

\* Where the members of a concatenation come from.
LEMMA Places ==
  ASSUME NEW S, NEW a \in Seq(S), NEW b \in Seq(S)
  PROVE  /\ a \o b \in Seq(S)
         /\ Len(a) \in Nat /\ Len(b) \in Nat
         /\ DOMAIN a = 1 .. Len(a) /\ DOMAIN b = 1 .. Len(b)
         /\ DOMAIN (a \o b) = 1 .. Len(a) + Len(b)
         /\ \A i \in 1 .. Len(a) : (a \o b)[i] = a[i]
         /\ \A i \in 1 .. Len(b) : (a \o b)[Len(a) + i] = b[i]
OBVIOUS

\* Programs of other devices one after the other.
LEMMA PlainThenPlain == ASSUME NEW a, NEW b, Plain(a), Plain(b) PROVE Plain(a \o b)
<1> DEFINE s == a \o b
<1>1. /\ s \in Steps /\ Len(a) \in Nat /\ Len(b) \in Nat
      /\ DOMAIN a = 1 .. Len(a) /\ DOMAIN b = 1 .. Len(b)
      /\ DOMAIN s = 1 .. Len(a) + Len(b)
      /\ \A i \in 1 .. Len(a) : s[i] = a[i]
      /\ \A i \in 1 .. Len(b) : s[Len(a) + i] = b[i]
  BY Places DEF Plain, Steps
<1> HIDE DEF s
<1>2. ASSUME NEW i \in DOMAIN s PROVE ~OnMemory(s[i]) /\ s[i][1] # "delegate"
  <2>1. CASE i \in 1 .. Len(a)
    BY <1>1, <2>1 DEF Plain
  <2>2. CASE i \notin 1 .. Len(a)
    <3>1. i - Len(a) \in 1 .. Len(b) /\ s[Len(a) + (i - Len(a))] = b[i - Len(a)]
      BY <1>1, <2>2
    <3> QED
      BY <1>1, <3>1 DEF Plain
  <2> QED
    BY <2>1, <2>2
<1>3. Plain(s)
  BY <1>1, <1>2 DEF Plain
<1> QED
  BY <1>3 DEF s

\* Whole programs one after the other are a whole program.
LEMMA WholeThenWhole == ASSUME NEW a, NEW b, Whole(a), Whole(b) PROVE Whole(a \o b)
<1> DEFINE s == a \o b
<1> DEFINE n == Len(a)
<1>1. /\ s \in Steps /\ n \in Nat /\ Len(b) \in Nat
      /\ DOMAIN a = 1 .. n /\ DOMAIN b = 1 .. Len(b)
      /\ DOMAIN s = 1 .. n + Len(b)
      /\ \A i \in 1 .. n : s[i] = a[i]
      /\ \A i \in 1 .. Len(b) : s[n + i] = b[i]
  BY Places DEF Whole, Steps
<1> HIDE DEF s, n
<1>2. ASSUME NEW i \in DOMAIN s, i \notin 1 .. n
      PROVE  i - n \in DOMAIN b /\ n + (i - n) = i /\ s[i] = b[i - n]
  <2>1. i - n \in 1 .. Len(b) /\ n + (i - n) = i
    BY <1>1, <1>2
  <2> QED
    BY <2>1, <1>1
<1>3. ASSUME NEW i \in DOMAIN s, s[i][1] = "allocate"
      PROVE  \E j \in DOMAIN s : NextOnMemory(s, i, j) /\ s[j] = <<"release", s[i][2]>>
  <2>1. CASE i \in 1 .. n
    <3>1. PICK j \in DOMAIN a : NextOnMemory(a, i, j) /\ a[j] = <<"release", a[i][2]>>
      BY <2>1, <1>1, <1>3 DEF Whole, Bracketed
    <3>2. j \in DOMAIN s /\ s[j] = a[j] /\ s[i] = a[i]
      BY <3>1, <2>1, <1>1
    <3>3. NextOnMemory(s, i, j)
      BY <3>1, <3>2, <2>1, <1>1 DEF NextOnMemory
    <3> QED
      BY <3>1, <3>2, <3>3
  <2>2. CASE i \notin 1 .. n
    <3>1. i - n \in DOMAIN b /\ s[i] = b[i - n]
      BY <2>2, <1>2
    <3>2. PICK j \in DOMAIN b : /\ NextOnMemory(b, i - n, j)
                                /\ b[j] = <<"release", b[i - n][2]>>
      BY <3>1, <1>3 DEF Whole, Bracketed
    <3>3. n + j \in DOMAIN s /\ s[n + j] = b[j]
      BY <3>2, <1>1
    <3>4. NextOnMemory(s, i, n + j)
      <4>1. i < n + j /\ OnMemory(s[n + j])
        BY <3>1, <3>2, <3>3, <1>1 DEF NextOnMemory
      <4>2. ASSUME NEW k \in DOMAIN s, i < k, k < n + j PROVE ~OnMemory(s[k])
        <5>1. k \notin 1 .. n
          BY <2>2, <4>2, <1>1
        <5>2. k - n \in DOMAIN b /\ s[k] = b[k - n]
          BY <5>1, <1>2
        <5>3. i - n < k - n /\ k - n < j
          BY <4>2, <1>1, <3>2
        <5> QED
          BY <5>2, <5>3, <3>2 DEF NextOnMemory
      <4> QED
        BY <4>1, <4>2 DEF NextOnMemory
    <3> QED
      BY <3>1, <3>2, <3>3, <3>4
  <2> QED
    BY <2>1, <2>2
<1>4. ASSUME NEW i \in DOMAIN s, NEW j \in DOMAIN s, s[i][1] \in {"release", "delegate"},
             NextOnMemory(s, i, j)
      PROVE  s[j][1] = "allocate"
  <2>0. i < j /\ OnMemory(s[j]) /\ \A k \in DOMAIN s : i < k /\ k < j => ~OnMemory(s[k])
    BY <1>4 DEF NextOnMemory
  <2>1. CASE j \in 1 .. n
    <3>1. i \in 1 .. n /\ s[i] = a[i] /\ s[j] = a[j]
      BY <2>0, <2>1, <1>1
    <3>2. NextOnMemory(a, i, j)
      BY <3>1, <2>0, <2>1, <1>1 DEF NextOnMemory
    <3> QED
      BY <3>1, <3>2, <2>1, <1>1, <1>4 DEF Whole, Bracketed
  <2>2. CASE j \notin 1 .. n /\ i \in 1 .. n
    <3>1. j - n \in DOMAIN b /\ s[j] = b[j - n]
      BY <2>2, <1>2
    <3>2. ASSUME NEW k \in 1 .. (j - n) - 1 PROVE ~OnMemory(b[k])
      <4>1. n + k \in DOMAIN s /\ i < n + k /\ n + k < j /\ s[n + k] = b[k]
        BY <3>1, <2>2, <1>1
      <4> QED
        BY <4>1, <2>0
    <3>3. j - n \notin Closing(b)
      BY DEF Whole
    <3>4. b[j - n][1] # "release"
      BY <3>1, <3>2, <3>3 DEF Closing, OnMemory
    <3> QED
      BY <3>1, <3>4, <2>0 DEF OnMemory
  <2>3. CASE j \notin 1 .. n /\ i \notin 1 .. n
    <3>1. /\ j - n \in DOMAIN b /\ s[j] = b[j - n]
          /\ i - n \in DOMAIN b /\ s[i] = b[i - n]
      BY <2>3, <1>2
    <3>2. ASSUME NEW k \in DOMAIN b, i - n < k, k < j - n PROVE ~OnMemory(b[k])
      <4>1. n + k \in DOMAIN s /\ i < n + k /\ n + k < j /\ s[n + k] = b[k]
        BY <3>2, <1>1
      <4> QED
        BY <4>1, <2>0
    <3>3. NextOnMemory(b, i - n, j - n)
      BY <3>1, <3>2, <2>0, <1>1 DEF NextOnMemory
    <3> QED
      BY <3>1, <3>3, <1>4 DEF Whole, Bracketed
  <2> QED
    BY <2>1, <2>2, <2>3
<1>5. ASSUME NEW i \in Closing(s) PROVE FALSE
  <2>0. /\ i \in DOMAIN s /\ s[i][1] = "release"
        /\ \A k \in 1 .. i - 1 : ~OnMemory(s[k])
    BY <1>5 DEF Closing, OnMemory
  <2>1. CASE i \in 1 .. n
    <3>1. i \in DOMAIN a /\ a[i][1] = "release" /\ \A k \in 1 .. i - 1 : ~OnMemory(a[k])
      BY <2>0, <2>1, <1>1
    <3>2. i \in Closing(a)
      BY <3>1 DEF Closing, OnMemory
    <3> QED
      BY <3>2 DEF Whole
  <2>2. CASE i \notin 1 .. n
    <3>1. i - n \in DOMAIN b /\ s[i] = b[i - n]
      BY <2>0, <2>2, <1>2
    <3>2. ASSUME NEW k \in 1 .. (i - n) - 1 PROVE ~OnMemory(b[k])
      <4>1. n + k \in 1 .. i - 1 /\ s[n + k] = b[k]
        BY <3>1, <2>0, <1>1
      <4> QED
        BY <4>1, <2>0
    <3>3. i - n \in Closing(b)
      BY <3>1, <3>2, <2>0 DEF Closing, OnMemory
    <3> QED
      BY <3>3 DEF Whole
  <2> QED
    BY <2>1, <2>2
<1>6. Whole(s)
  BY <1>1, <1>3, <1>4, <1>5 DEF Whole, Bracketed
<1> QED
  BY <1>6 DEF s

\* Nothing to be done is a plain program, and so is an operation of another device.
LEMMA OpPlain ==
  ASSUME NEW name \in OpNames \ {"allocate", "release", "delegate"}, NEW need \in Nat
  PROVE  Plain(Op(name, need))
<1>1. Plain(<<>>)
  BY DEF Plain, Steps
<1>2. <<<<name, need>>>> \in Steps
  BY DEF Steps
<1>3. ASSUME NEW i \in DOMAIN <<<<name, need>>>>
      PROVE  /\ ~OnMemory(<<<<name, need>>>>[i])
             /\ <<<<name, need>>>>[i][1] # "delegate"
  BY DEF OnMemory
<1>4. Plain(<<<<name, need>>>>)
  BY <1>2, <1>3 DEF Plain
<1> QED
  BY <1>1, <1>4 DEF Op

\* A plain program with its memory allocated before and released after is whole.
LEMMA AllocatingWhole ==
  ASSUME NEW needs, needs.memory \in Nat, NEW m, Plain(m)
  PROVE  Whole(Allocating(needs, m))
<1> DEFINE n == needs.memory
           s == (<<<<"allocate", n>>>> \o m) \o <<<<"release", n>>>>
<1>0. m \in Steps
  BY DEF Plain
<1>1. CASE ~(n > 0)
  <2>1. Allocating(needs, m) = (<<>> \o m) \o <<>>
    BY <1>1 DEF Allocating, Op
  <2>2. (<<>> \o m) \o <<>> = m
    BY <1>0 DEF Steps
  <2> QED
    BY <2>1, <2>2, PlainWhole
<1>2. CASE n > 0
  <2>1. Allocating(needs, m) = s
    BY <1>2 DEF Allocating, Op
  <2>2. /\ s \in Steps
        /\ Len(m) \in Nat /\ DOMAIN m = 1 .. Len(m)
        /\ DOMAIN s = 1 .. Len(m) + 2
        /\ s[1] = <<"allocate", n>>
        /\ \A i \in 1 .. Len(m) : s[i + 1] = m[i]
        /\ s[Len(m) + 2] = <<"release", n>>
    <3> DEFINE u == <<<<"allocate", n>>>>
               v == <<<<"release", n>>>>
               um == u \o m
    <3>0. u \in Steps /\ v \in Steps
      BY DEF Steps, OpNames
    <3>1. Len(u) = 1 /\ Len(v) = 1
          /\ u[1] = <<"allocate", n>> /\ v[1] = <<"release", n>>
      OBVIOUS
    <3> HIDE DEF u, v, n
    <3>2. /\ um \in Steps /\ Len(m) \in Nat /\ DOMAIN m = 1 .. Len(m)
          /\ DOMAIN um = 1 .. 1 + Len(m)
          /\ \A i \in 1 .. 1 : um[i] = u[i]
          /\ \A i \in 1 .. Len(m) : um[1 + i] = m[i]
      <4>1. /\ um \in Steps /\ Len(m) \in Nat /\ DOMAIN m = 1 .. Len(m)
            /\ DOMAIN um = 1 .. Len(u) + Len(m)
            /\ \A i \in 1 .. Len(u) : um[i] = u[i]
            /\ \A i \in 1 .. Len(m) : um[Len(u) + i] = m[i]
        BY <1>0, <3>0, Places DEF Steps
      <4> QED
        BY <4>1, <3>1
    <3>3. Len(um) = 1 + Len(m)
      BY <3>2 DEF Steps
    <3> HIDE DEF um, s
    <3>4. /\ um \o v \in Steps
          /\ DOMAIN (um \o v) = 1 .. 1 + Len(m) + 1
          /\ \A i \in 1 .. 1 + Len(m) : (um \o v)[i] = um[i]
          /\ \A i \in 1 .. 1 : (um \o v)[1 + Len(m) + i] = v[i]
      <4>1. /\ um \o v \in Steps
            /\ DOMAIN (um \o v) = 1 .. Len(um) + Len(v)
            /\ \A i \in 1 .. Len(um) : (um \o v)[i] = um[i]
            /\ \A i \in 1 .. Len(v) : (um \o v)[Len(um) + i] = v[i]
        BY <3>0, <3>2, Places DEF Steps
      <4> QED
        BY <4>1, <3>1, <3>3
    <3>5. s = um \o v
      BY DEF um, u, v, s
    <3>6. s[1] = um[1] /\ um[1] = u[1]
      BY <3>2, <3>4, <3>5
    <3>7. s[Len(m) + 2] = v[1]
      <4>1. (um \o v)[1 + Len(m) + 1] = v[1] /\ 1 + Len(m) + 1 = Len(m) + 2
        BY <3>2, <3>4
      <4> QED
        BY <4>1, <3>5
    <3>8. ASSUME NEW i \in 1 .. Len(m) PROVE s[i + 1] = m[i]
      <4>1. i + 1 \in 1 .. 1 + Len(m) /\ i + 1 = 1 + i
        BY <3>2
      <4>2. s[i + 1] = um[i + 1]
        BY <4>1, <3>4, <3>5
      <4> QED
        BY <4>1, <4>2, <3>2
    <3>9. DOMAIN s = 1 .. Len(m) + 2 /\ s \in Steps
      <4>1. 1 + Len(m) + 1 = Len(m) + 2
        BY <3>2
      <4> QED
        BY <4>1, <3>4, <3>5
    <3> QED
      BY <3>1, <3>2, <3>6, <3>7, <3>8, <3>9
  <2> HIDE DEF s, n
  <2>3. ASSUME NEW i \in DOMAIN s, i # 1, i # Len(m) + 2
        PROVE  ~OnMemory(s[i]) /\ s[i][1] # "delegate"
    <3>1. i - 1 \in 1 .. Len(m) /\ s[(i - 1) + 1] = m[i - 1] /\ (i - 1) + 1 = i
      BY <2>2, <2>3
    <3> QED
      BY <3>1, <2>2 DEF Plain
  <2>4. /\ s[1][1] = "allocate" /\ s[1][2] = n
        /\ s[Len(m) + 2] = <<"release", n>> /\ s[Len(m) + 2][1] = "release"
        /\ Len(m) + 2 > 1 /\ Len(m) + 2 \in DOMAIN s /\ Len(m) \in Nat /\ 1 \in DOMAIN s
    BY <2>2
  <2>5. NextOnMemory(s, 1, Len(m) + 2)
    BY <2>3, <2>4 DEF NextOnMemory, OnMemory
  <2>6. ASSUME NEW i \in DOMAIN s, NEW j \in DOMAIN s, s[i][1] \in {"release", "delegate"},
               NextOnMemory(s, i, j)
        PROVE  FALSE
    <3>1. i = Len(m) + 2
      BY <2>3, <2>4, <2>6 DEF OnMemory
    <3>2. i < j
      BY <2>6 DEF NextOnMemory
    <3> QED
      BY <3>1, <3>2, <2>2
  <2>7. Closing(s) = {}
    <3>1. ASSUME NEW i \in Closing(s) PROVE FALSE
      <4>1. /\ i \in DOMAIN s /\ s[i][1] = "release"
            /\ \A k \in 1 .. i - 1 : ~OnMemory(s[k])
        BY <3>1 DEF Closing, OnMemory
      <4>2. i # 1 /\ 1 \in 1 .. i - 1
        BY <4>1, <2>2, <2>4
      <4> QED
        BY <4>1, <4>2, <2>4 DEF OnMemory
    <3> QED
      BY <3>1
  <2>8. ASSUME NEW i \in DOMAIN s, s[i][1] = "allocate"
        PROVE  \E j \in DOMAIN s : NextOnMemory(s, i, j) /\ s[j] = <<"release", s[i][2]>>
    <3>1. i = 1
      BY <2>3, <2>4, <2>8 DEF OnMemory
    <3> QED
      BY <3>1, <2>4, <2>5
  <2>9. Whole(s)
    BY <2>2, <2>6, <2>7, <2>8 DEF Whole, Bracketed
  <2> QED
    BY <2>1, <2>9
<1> QED
  BY <1>1, <1>2

\* A phase of any executor is whole.
LEMMA PhaseWhole ==
  ASSUME NEW role \in Executors, NEW needs \in [DOMAIN NoNeeds -> Nat]
  PROVE  Whole(Phase(role, needs))
<1> DEFINE receive == Op("receive", needs.ingress)
           send == Op("send", needs.egress)
           read == Op("read", needs.read)
           write == Op("write", needs.write)
           cpu == Op("cpu", needs.clock)
           gpu == Op("gpu", needs.gpu)
<1>1. /\ needs.memory \in Nat /\ needs.clock \in Nat /\ needs.gpu \in Nat
      /\ needs.read \in Nat /\ needs.write \in Nat
      /\ needs.ingress \in Nat /\ needs.egress \in Nat
  BY DEF NoNeeds
<1>2. Plain(receive) /\ Plain(send) /\ Plain(read)
  BY <1>1, OpPlain DEF OpNames
<1>3. Plain(write) /\ Plain(cpu) /\ Plain(gpu)
  BY <1>1, OpPlain DEF OpNames
<1> HIDE DEF receive, send, read, write, cpu, gpu
<1>4. CASE role \in {"application_server", "database_server"}
  <2>1. Plain(read \o cpu) /\ Plain(read \o cpu \o write) /\ Plain(read \o cpu \o write \o send)
    BY <1>2, <1>3, PlainThenPlain
  <2>2. Whole(Allocating(needs, read \o cpu \o write \o send))
    BY <1>1, <2>1, AllocatingWhole
  <2>3. Whole(receive \o Allocating(needs, read \o cpu \o write \o send))
    BY <1>2, <2>2, PlainWhole, WholeThenWhole
  <2> QED
    BY <1>4, <2>3 DEF Phase, receive, send, read, write, cpu
<1>5. CASE role = "storage_server"
  <2>1. Plain(receive \o read) /\ Plain(receive \o read \o write)
        /\ Plain(receive \o read \o write \o send)
    BY <1>2, <1>3, PlainThenPlain
  <2> QED
    BY <1>5, <2>1, PlainWhole DEF Phase, receive, send, read, write
<1>6. CASE role = "network_switch"
  <2>1. Plain(receive \o send)
    BY <1>2, PlainThenPlain
  <2> QED
    BY <1>6, <2>1, PlainWhole DEF Phase, receive, send
<1>7. CASE role = "router"
  <2>1. Plain(receive \o cpu) /\ Plain(receive \o cpu \o send)
    BY <1>2, <1>3, PlainThenPlain
  <2> QED
    BY <1>7, <2>1, PlainWhole DEF Phase, receive, send, cpu
<1>8. CASE role = "gpu_worker"
  <2>1. Plain(read \o gpu) /\ Plain(read \o gpu \o cpu) /\ Plain(read \o gpu \o cpu \o write)
    BY <1>2, <1>3, PlainThenPlain
  <2>2. Whole(Allocating(needs, read \o gpu \o cpu \o write))
    BY <1>1, <2>1, AllocatingWhole
  <2> QED
    BY <1>8, <2>2 DEF Phase, read, write, cpu, gpu
<1>9. CASE role = "unassigned"
  <2>1. Plain(<<>>)
    BY DEF Plain, Steps
  <2> QED
    BY <1>9, <2>1, PlainWhole DEF Phase
<1> QED
  BY <1>4, <1>5, <1>6, <1>7, <1>8, <1>9 DEF Executors

\* One operation that is not on memory is a whole program, a delegation too.
LEMMA SingleWhole ==
  ASSUME NEW name \in OpNames \ {"allocate", "release"}
  PROVE  Whole(<<<<name, 0>>>>)
<1> DEFINE s == <<<<name, 0>>>>
<1>1. s \in Steps /\ DOMAIN s = {1} /\ s[1] = <<name, 0>>
  BY DEF Steps
<1> HIDE DEF s
<1>2. ~OnMemory(s[1])
  BY <1>1 DEF OnMemory
<1>3. Whole(s)
  BY <1>1, <1>2 DEF Whole, Bracketed, Closing, NextOnMemory, OnMemory
<1> QED
  BY <1>3 DEF s

\* What an execution does is whole.
LEMMA ProgramWhole == ASSUME NEW w \in Works PROVE Whole(Program(w))
<1>1. /\ Role[w] \in Executors
      /\ Phases[w] \in Seq([DOMAIN NoNeeds -> Nat]) /\ Len(Phases[w]) \in {1, 2}
  BY DevicesAssumption
<1>2. /\ Phases[w][1] \in [DOMAIN NoNeeds -> Nat]
      /\ Len(Phases[w]) = 2 => Phases[w][2] \in [DOMAIN NoNeeds -> Nat]
  BY <1>1
<1>3. Whole(Phase(Role[w], Phases[w][1]))
  BY <1>1, <1>2, PhaseWhole
<1>4. CASE Role[w] = "unassigned"
  BY <1>4, SingleWhole DEF Program, OpNames
<1>5. CASE Role[w] # "unassigned" /\ Len(Phases[w]) = 2
  <2>1. Whole(Phase(Role[w], Phases[w][2]))
    BY <1>1, <1>2, <1>5, PhaseWhole
  <2>2. Whole(<<<<"delegate", 0>>>>)
    BY SingleWhole DEF OpNames
  <2>3. Whole(Phase(Role[w], Phases[w][1]) \o <<<<"delegate", 0>>>>)
    BY <1>3, <2>2, WholeThenWhole
  <2>4. Whole(Phase(Role[w], Phases[w][1]) \o <<<<"delegate", 0>>>>
                \o Phase(Role[w], Phases[w][2]))
    BY <2>1, <2>3, WholeThenWhole
  <2> QED
    BY <2>4, <1>5 DEF Program
<1>6. CASE Role[w] # "unassigned" /\ Len(Phases[w]) # 2
  BY <1>3, <1>6 DEF Program
<1> QED
  BY <1>4, <1>5, <1>6

-----------------------------------------------------------------------------
(* What is left of a program                                               *)

\* The memory held when s is left to do.
MemoryOf(s) == IF Closing(s) = {} THEN 0 ELSE Closer(s)[2]

\* There is at most one closing release.
LEMMA OneCloser ==
  ASSUME NEW s \in Steps, NEW i \in Closing(s)
  PROVE  Closing(s) = {i} /\ Closer(s) = s[i] /\ MemoryOf(s) = s[i][2] /\ s[i] \in OpNames \X Nat
<1>0. DOMAIN s = 1 .. Len(s) /\ Len(s) \in Nat /\ \A j \in DOMAIN s : s[j] \in OpNames \X Nat
  BY DEF Steps
<1>1. ASSUME NEW j \in Closing(s) PROVE j = i
  <2>1. /\ i \in 1 .. Len(s) /\ j \in 1 .. Len(s)
        /\ OnMemory(s[i]) /\ OnMemory(s[j])
        /\ \A k \in 1 .. i - 1 : ~OnMemory(s[k])
        /\ \A k \in 1 .. j - 1 : ~OnMemory(s[k])
    BY <1>0 DEF Closing, OnMemory
  <2>2. ~(i < j) /\ ~(j < i)
    BY <2>1, <1>0
  <2> QED
    BY <2>1, <2>2
<1>2. Closing(s) = {i}
  BY <1>1
<1>3. Closer(s) = s[i]
  BY <1>2 DEF Closer
<1> QED
  BY <1>0, <1>2, <1>3 DEF MemoryOf, Closing

\* The memory held is a number.
LEMMA MemoryOfType == ASSUME NEW s \in Steps PROVE MemoryOf(s) \in Nat
<1>1. CASE Closing(s) = {}
  BY <1>1 DEF MemoryOf
<1>2. CASE Closing(s) # {}
  <2>1. PICK i : i \in Closing(s)
    BY <1>2
  <2>2. MemoryOf(s) = s[i][2] /\ s[i] \in OpNames \X Nat
    BY <2>1, OneCloser
  <2> QED
    BY <2>2
<1> QED
  BY <1>1, <1>2

\* The program after its first operation.
LEMMA AfterOne ==
  ASSUME NEW s \in Steps, s # <<>>, Bracketed(s)
  PROVE  /\ Tail(s) \in Steps /\ Bracketed(Tail(s))
         /\ s[1][1] \in OpNames /\ s[1][2] \in Nat
         /\ ~OnMemory(s[1]) => MemoryOf(Tail(s)) = MemoryOf(s)
         /\ s[1][1] = "allocate" => MemoryOf(s) = 0 /\ MemoryOf(Tail(s)) = s[1][2]
         /\ s[1][1] = "release" => MemoryOf(s) = s[1][2] /\ MemoryOf(Tail(s)) = 0
         /\ s[1][1] = "delegate" => MemoryOf(s) = 0
<1> DEFINE u == Tail(s)
           n == Len(s)
<1>1. /\ u \in Steps /\ n \in Nat /\ n >= 1
      /\ DOMAIN s = 1 .. n /\ DOMAIN u = 1 .. n - 1
      /\ \A i \in 1 .. n - 1 : u[i] = s[i + 1]
      /\ s[1] \in OpNames \X Nat
  BY DEF Steps
<1> HIDE DEF u, n
<1>2. ASSUME NEW i \in DOMAIN s, i # 1
      PROVE  i - 1 \in DOMAIN u /\ u[i - 1] = s[i] /\ (i - 1) + 1 = i
  <2>1. i - 1 \in 1 .. n - 1 /\ (i - 1) + 1 = i
    BY <1>1, <1>2
  <2> QED
    BY <2>1, <1>1
<1>3. ASSUME NEW i \in DOMAIN u PROVE i + 1 \in DOMAIN s /\ u[i] = s[i + 1]
  BY <1>1, <1>3
<1>4. ASSUME NEW i \in DOMAIN u, NEW j \in DOMAIN u
      PROVE  NextOnMemory(u, i, j) <=> NextOnMemory(s, i + 1, j + 1)
  <2>1. ASSUME NextOnMemory(u, i, j) PROVE NextOnMemory(s, i + 1, j + 1)
    <3>1. ASSUME NEW k \in DOMAIN s, i + 1 < k, k < j + 1 PROVE ~OnMemory(s[k])
      <4>1. k # 1 /\ i < k - 1 /\ k - 1 < j
        BY <3>1, <1>1
      <4> QED
        BY <4>1, <1>2, <2>1 DEF NextOnMemory
    <3> QED
      BY <3>1, <2>1, <1>1, <1>3 DEF NextOnMemory
  <2>2. ASSUME NextOnMemory(s, i + 1, j + 1) PROVE NextOnMemory(u, i, j)
    <3>1. ASSUME NEW k \in DOMAIN u, i < k, k < j PROVE ~OnMemory(u[k])
      <4>1. i + 1 < k + 1 /\ k + 1 < j + 1
        BY <3>1, <1>1
      <4> QED
        BY <4>1, <1>3, <2>2 DEF NextOnMemory
    <3>2. i < j
      BY <2>2, <1>1 DEF NextOnMemory
    <3> QED
      BY <3>1, <3>2, <2>2, <1>3 DEF NextOnMemory
  <2> QED
    BY <2>1, <2>2
<1>5. Bracketed(u)
  <2>1. ASSUME NEW i \in DOMAIN u, u[i][1] = "allocate"
        PROVE  \E j \in DOMAIN u : NextOnMemory(u, i, j) /\ u[j] = <<"release", u[i][2]>>
    <3>1. PICK j \in DOMAIN s : /\ NextOnMemory(s, i + 1, j)
                                /\ s[j] = <<"release", s[i + 1][2]>>
      BY <2>1, <1>3 DEF Bracketed
    <3>2. j # 1
      BY <3>1, <1>1 DEF NextOnMemory
    <3>3. j - 1 \in DOMAIN u /\ u[j - 1] = s[j] /\ (j - 1) + 1 = j
      BY <3>2, <1>2
    <3>4. NextOnMemory(u, i, j - 1)
      BY <3>1, <3>3, <1>4
    <3> QED
      BY <3>1, <3>3, <3>4, <1>3
  <2>2. ASSUME NEW i \in DOMAIN u, NEW j \in DOMAIN u, u[i][1] \in {"release", "delegate"},
               NextOnMemory(u, i, j)
        PROVE  u[j][1] = "allocate"
    BY <2>2, <1>3, <1>4 DEF Bracketed
  <2> QED
    BY <2>1, <2>2 DEF Bracketed
\* A release that closes the rest is, but for the first operation, the next on memory.
<1>6. ASSUME NEW i \in Closing(u)
      PROVE  NextOnMemory(s, 1, i + 1) /\ i + 1 \in DOMAIN s /\ s[i + 1][1] = "release"
             /\ s[i + 1] = u[i]
  <2>1. /\ i \in DOMAIN u /\ u[i][1] = "release"
        /\ \A k \in 1 .. i - 1 : ~OnMemory(u[k])
    BY <1>6 DEF Closing, OnMemory
  <2>2. i + 1 \in DOMAIN s /\ s[i + 1] = u[i] /\ 1 < i + 1
    BY <2>1, <1>1, <1>3
  <2>3. ASSUME NEW k \in DOMAIN s, 1 < k, k < i + 1 PROVE ~OnMemory(s[k])
    <3>1. k # 1 /\ k - 1 \in 1 .. i - 1
      BY <2>3, <1>1, <2>1
    <3> QED
      BY <3>1, <1>2, <2>1
  <2> QED
    BY <2>1, <2>2, <2>3 DEF NextOnMemory, OnMemory
<1>7. ASSUME NEW j \in DOMAIN s, NextOnMemory(s, 1, j), s[j][1] = "release"
      PROVE  j - 1 \in Closing(u) /\ u[j - 1] = s[j]
  <2>1. j # 1 /\ \A k \in DOMAIN s : 1 < k /\ k < j => ~OnMemory(s[k])
    BY <1>7, <1>1 DEF NextOnMemory
  <2>2. j - 1 \in DOMAIN u /\ u[j - 1] = s[j]
    BY <2>1, <1>2
  <2>3. ASSUME NEW k \in 1 .. (j - 1) - 1 PROVE ~OnMemory(u[k])
    <3>1. k \in DOMAIN u /\ 1 < k + 1 /\ k + 1 < j
      BY <2>2, <1>1
    <3> QED
      BY <3>1, <2>1, <1>3
  <2> QED
    BY <2>2, <2>3, <1>7 DEF Closing, OnMemory
<1>8. ASSUME ~OnMemory(s[1]) PROVE MemoryOf(u) = MemoryOf(s)
  <2>1. CASE Closing(u) # {}
    <3>1. PICK i : i \in Closing(u)
      BY <2>1
    <3>2. i \in DOMAIN u /\ s[i + 1] = u[i] /\ i + 1 \in DOMAIN s /\ s[i + 1][1] = "release"
          /\ NextOnMemory(s, 1, i + 1)
      BY <3>1, <1>6 DEF Closing
    <3>3. ASSUME NEW k \in 1 .. (i + 1) - 1 PROVE ~OnMemory(s[k])
      <4>1. k \in DOMAIN s /\ k < i + 1 /\ (k = 1 \/ 1 < k)
        BY <3>2, <1>1
      <4> QED
        BY <4>1, <3>2, <1>8 DEF NextOnMemory
    <3>4. i + 1 \in Closing(s)
      BY <3>2, <3>3 DEF Closing, OnMemory
    <3> QED
      BY <3>1, <3>2, <3>4, <1>1, OneCloser
  <2>2. CASE Closing(u) = {} /\ Closing(s) # {}
    <3>1. PICK j : j \in Closing(s)
      BY <2>2
    <3>2. /\ j \in DOMAIN s /\ s[j][1] = "release"
          /\ \A k \in 1 .. j - 1 : ~OnMemory(s[k])
      BY <3>1 DEF Closing, OnMemory
    <3>3. j # 1 /\ 1 < j
      BY <3>2, <1>1, <1>8 DEF OnMemory
    <3>4. ASSUME NEW k \in DOMAIN s, 1 < k, k < j PROVE ~OnMemory(s[k])
      <4>1. k \in 1 .. j - 1
        BY <3>4, <3>2, <1>1
      <4> QED
        BY <4>1, <3>2
    <3>5. NextOnMemory(s, 1, j)
      BY <3>2, <3>3, <3>4 DEF NextOnMemory, OnMemory
    <3> QED
      BY <3>2, <3>5, <1>7, <2>2
  <2>3. CASE Closing(u) = {} /\ Closing(s) = {}
    BY <2>3 DEF MemoryOf
  <2> QED
    BY <2>1, <2>2, <2>3
<1>9. ASSUME s[1][1] = "allocate" PROVE MemoryOf(s) = 0 /\ MemoryOf(u) = s[1][2]
  <2>1. PICK j \in DOMAIN s : NextOnMemory(s, 1, j) /\ s[j] = <<"release", s[1][2]>>
    <3>1. 1 \in DOMAIN s
      BY <1>1
    <3> QED
      BY <3>1, <1>9 DEF Bracketed
  <2>2. j - 1 \in Closing(u) /\ u[j - 1] = s[j]
    BY <2>1, <1>7
  <2>3. MemoryOf(u) = s[1][2]
    BY <2>1, <2>2, <1>1, OneCloser
  <2>4. ASSUME NEW i \in Closing(s) PROVE FALSE
    <3>1. i \in 1 .. n /\ s[i][1] = "release" /\ \A k \in 1 .. i - 1 : ~OnMemory(s[k])
      BY <1>1 DEF Closing, OnMemory
    <3>2. i # 1 /\ 1 \in 1 .. i - 1
      BY <3>1, <1>9, <1>1
    <3> QED
      BY <3>1, <3>2, <1>9 DEF OnMemory
  <2>5. MemoryOf(s) = 0
    BY <2>4 DEF MemoryOf
  <2> QED
    BY <2>3, <2>5
<1>10. ASSUME s[1][1] \in {"release", "delegate"} PROVE MemoryOf(u) = 0
  <2>1. ASSUME NEW i \in Closing(u) PROVE FALSE
    <3>1. NextOnMemory(s, 1, i + 1) /\ i + 1 \in DOMAIN s /\ s[i + 1][1] = "release"
      BY <1>6
    <3> QED
      BY <3>1, <1>1, <1>10 DEF Bracketed
  <2> QED
    BY <2>1 DEF MemoryOf
<1>11. ASSUME s[1][1] = "release" PROVE MemoryOf(s) = s[1][2]
  <2>1. 1 \in Closing(s)
    BY <1>1, <1>11 DEF Closing
  <2> QED
    BY <2>1, OneCloser
<1>12. s[1][1] = "delegate" => MemoryOf(s) = 0
  BY <1>8, <1>10 DEF OnMemory
<1> QED
  BY <1>1, <1>5, <1>8, <1>9, <1>10, <1>11, <1>12 DEF u

\* What an exception leaves to be done: the memory stays held until its release.
LEMMA AfterException ==
  ASSUME NEW s \in Steps, s # <<>>
  PROVE  /\ Finally(s) \in Steps /\ Bracketed(Finally(s))
         /\ MemoryOf(Finally(s)) = IF s[1][1] = "release" THEN 0 ELSE MemoryOf(s)
<1>1. <<>> \in Steps /\ Bracketed(<<>>) /\ MemoryOf(<<>>) = 0
  BY DEF Steps, Bracketed, MemoryOf, Closing
<1>2. CASE s[1][1] = "release" \/ Closing(s) = {}
  BY <1>1, <1>2 DEF Finally, MemoryOf
<1>3. CASE s[1][1] # "release" /\ Closing(s) # {}
  <2>1. PICK i : i \in Closing(s)
    BY <1>3
  <2>2. Closer(s) = s[i] /\ MemoryOf(s) = s[i][2] /\ s[i] \in OpNames \X Nat
        /\ s[i][1] = "release"
    BY <2>1, OneCloser DEF Closing
  <2> DEFINE f == <<s[i]>>
  <2>3. Finally(s) = f
    BY <1>3, <2>2 DEF Finally
  <2>4. f \in Steps /\ DOMAIN f = {1} /\ f[1] = s[i]
    BY <2>2 DEF Steps
  <2> HIDE DEF f
  <2>5. 1 \in Closing(f)
    BY <2>2, <2>4 DEF Closing
  <2>6. MemoryOf(f) = s[i][2]
    BY <2>4, <2>5, OneCloser
  <2>7. Bracketed(f)
    BY <2>2, <2>4 DEF Bracketed, NextOnMemory
  <2> QED
    BY <1>3, <2>2, <2>3, <2>4, <2>6, <2>7
<1> QED
  BY <1>2, <1>3

-----------------------------------------------------------------------------
(* Clock and cores                                                         *)

\* The capacities are numbers.
LEMMA Capacities ==
  /\ Memory \in Nat /\ Cores \in Nat /\ Frequency \in Nat /\ Frequency > 0
  /\ GpuMemory \in Nat /\ Storage \in Nat
  /\ QueueDepth \in [Kinds -> Nat]
  /\ QueueDepth["storage"] \in Nat /\ QueueDepth["nic"] \in Nat
<1>1. /\ Memory \in Nat \ {0} /\ Cores \in Nat \ {0} /\ Frequency \in Nat \ {0}
      /\ Storage \in Nat \ {0}
  BY DevicesAssumption
<1>2. QueueDepth \in [Kinds -> Nat]
  BY DevicesAssumption
<1>3. GpuMemory \in Nat
  BY DevicesAssumption
<1> QED
  BY <1>1, <1>2, <1>3 DEF Kinds

\* The clock that a work gets needs no more than the cores it starts.
LEMMA CoresCoverClock ==
  ASSUME NEW hz \in Nat
  PROVE  /\ ClockFor(hz) \in Nat /\ CoresFor(hz) \in Nat
         /\ ClockFor(hz) <= CoresFor(hz) * Frequency
         /\ CoresFor(hz) * Frequency \in Nat
<1>1. Cores \in Nat /\ Frequency \in Nat /\ Frequency > 0
  BY Capacities
<1>2. Cores * Frequency \in Nat
  BY <1>1
<1>3. ClockFor(hz) \in Nat
  BY <1>2 DEF ClockFor, LesserOf
<1> DEFINE c == ClockFor(hz)
           q == (c + Frequency - 1) \div Frequency
<1> HIDE DEF c
<1>4. c \in Nat
  BY <1>3 DEF c
<1>5. \A a \in Nat, d \in Nat \ {0} :
        /\ a \div d \in Nat
        /\ (a \div d) * d <= a /\ a < (a \div d) * d + d
  OBVIOUS
<1>6. c + Frequency - 1 \in Nat /\ Frequency \in Nat \ {0}
  BY <1>1, <1>4
<1>7. q \in Nat /\ c + Frequency - 1 < q * Frequency + Frequency
  BY <1>5, <1>6
<1> HIDE DEF q
<1>8. q * Frequency \in Nat
  BY <1>1, <1>7
<1>9. c <= q * Frequency
  BY <1>1, <1>4, <1>7, <1>8
<1>10. CoresFor(hz) = q /\ ClockFor(hz) = c
  BY DEF CoresFor, q, c
<1> QED
  BY <1>3, <1>7, <1>8, <1>9, <1>10

-----------------------------------------------------------------------------
(* The inductive invariant                                                 *)

Types ==
  /\ task \in [Threads -> Works \cup {NoWork}]
  /\ todo \in [Threads -> Steps]
  /\ at \in [Threads -> {"ask", "slot", "hold", "book", "undo"}]
  /\ failing \in [Threads -> BOOLEAN]
  /\ asleep \subseteq Threads
  /\ used \in Nat /\ cores \in Nat /\ clock \in Nat /\ gpuUsed \in Nat
  /\ stored \in Nat /\ written \in Nat
  /\ slots \in [Kinds -> Nat]
  /\ outcome \in [Works -> {"none", "failed", "completed"}]

Holders == {"cpu", "gpu", "read", "write", "receive", "send"}

\* Where a thread can be in its program.
Placed(t) ==
  /\ Bracketed(todo[t])
  /\ task[t] = NoWork => todo[t] = <<>>
  /\ at[t] = "hold" => todo[t] # <<>> /\ todo[t][1][1] \in Holders
  /\ at[t] \in {"slot", "book", "undo"} => todo[t] # <<>> /\ todo[t][1][1] = "write"
  /\ t \in asleep => In(t, {"allocate", "cpu", "gpu"}, {"ask"})

GpuHeld == Held({"gpu"}, {"hold"})
SpaceHeld == Held({"write"}, {"slot", "hold", "book", "undo"})
StorageSlots == SlotsHeld({"read", "write"})
NicSlots == SlotsHeld({"receive", "send"})

\* What the started cores could do beyond the clock they give.
ClockSpare == [t \in Threads |-> IF In(t, {"cpu"}, {"hold"})
                                   THEN CoresFor(Need(t)) * Frequency - ClockFor(Need(t)) ELSE 0]

\* A sink that raises while memory is counted leaves it counted for ever.
Balanced ==
  /\ used >= SumOf(MemoryHeld)
  /\ "memory" \notin Raising => used = SumOf(MemoryHeld)
  /\ cores = SumOf(CoresHeld)
  /\ clock = SumOf(ClockHeld)
  /\ cores * Frequency = clock + SumOf(ClockSpare)
  /\ gpuUsed = SumOf(GpuHeld)
  /\ stored = written + SumOf(SpaceHeld)
  /\ slots["storage"] + SumOf(StorageSlots) = QueueDepth["storage"]
  /\ slots["nic"] + SumOf(NicSlots) = QueueDepth["nic"]

IInv ==
  /\ Types
  /\ \A t \in Threads : Placed(t)
  /\ Balanced
  /\ WithinCapacity
  /\ "memory" \notin Raising => SleepersDoNotFit

-----------------------------------------------------------------------------
(* What a thread holds, before and after a step                            *)

\* Whoever asks holds no device.
LEMMA AskingHoldsNothing ==
  ASSUME NEW t \in Threads
  PROVE  /\ at[t] = "ask" =>
              /\ CoresHeld[t] = 0 /\ ClockHeld[t] = 0 /\ ClockSpare[t] = 0 /\ GpuHeld[t] = 0
              /\ SpaceHeld[t] = 0 /\ StorageSlots[t] = 0 /\ NicSlots[t] = 0
         /\ at'[t] = "ask" =>
              /\ CoresHeld'[t] = 0 /\ ClockHeld'[t] = 0 /\ ClockSpare'[t] = 0 /\ GpuHeld'[t] = 0
              /\ SpaceHeld'[t] = 0 /\ StorageSlots'[t] = 0 /\ NicSlots'[t] = 0
BY DEF CoresHeld, ClockHeld, ClockSpare, GpuHeld, SpaceHeld, StorageSlots, NicSlots, Held,
       SlotsHeld, In

\* What the sums are taken of are numbers.
Amounts ==
  /\ MemoryHeld \in [Threads -> Nat] /\ CoresHeld \in [Threads -> Nat]
  /\ ClockHeld \in [Threads -> Nat] /\ ClockSpare \in [Threads -> Nat]
  /\ GpuHeld \in [Threads -> Nat] /\ SpaceHeld \in [Threads -> Nat]
  /\ StorageSlots \in [Threads -> Nat] /\ NicSlots \in [Threads -> Nat]

\* They are.
LEMMA AmountTypes ==
  ASSUME todo \in [Threads -> Steps]
  PROVE  Amounts
<1>1. ASSUME NEW t \in Threads, todo[t] # <<>> PROVE Need(t) \in Nat
  <2>1. todo[t] \in Steps
    OBVIOUS
  <2>2. todo[t][1] \in OpNames \X Nat
    BY <1>1, <2>1 DEF Steps
  <2> QED
    BY <2>2 DEF Need
<1>2. ASSUME NEW t \in Threads PROVE MemoryOf(todo[t]) \in Nat
  BY MemoryOfType
<1>3. MemoryHeld \in [Threads -> Nat]
  BY <1>2 DEF MemoryHeld, MemoryOf
<1>4. ASSUME NEW t \in Threads, todo[t] # <<>>
      PROVE  /\ CoresFor(Need(t)) \in Nat /\ ClockFor(Need(t)) \in Nat
             /\ CoresFor(Need(t)) * Frequency - ClockFor(Need(t)) \in Nat
  <2> DEFINE n == Need(t)
  <2>1. n \in Nat
    BY <1>1, <1>4
  <2> HIDE DEF n
  <2>2. /\ ClockFor(n) \in Nat /\ CoresFor(n) \in Nat
        /\ ClockFor(n) <= CoresFor(n) * Frequency
        /\ CoresFor(n) * Frequency \in Nat
    BY <2>1, CoresCoverClock
  <2>3. CoresFor(n) * Frequency - ClockFor(n) \in Nat
    BY <2>2
  <2> QED
    BY <2>2, <2>3 DEF n
<1>5. CoresHeld \in [Threads -> Nat] /\ ClockHeld \in [Threads -> Nat]
      /\ ClockSpare \in [Threads -> Nat]
  BY <1>4 DEF CoresHeld, ClockHeld, ClockSpare, In
<1>6. GpuHeld \in [Threads -> Nat] /\ SpaceHeld \in [Threads -> Nat]
  BY <1>1 DEF GpuHeld, SpaceHeld, Held, In
<1>7. StorageSlots \in [Threads -> Nat] /\ NicSlots \in [Threads -> Nat]
  BY DEF StorageSlots, NicSlots, SlotsHeld
<1> QED
  BY <1>3, <1>5, <1>6, <1>7 DEF Amounts

\* They are after a step too.
LEMMA AmountTypesAfter == (todo \in [Threads -> Steps])' => Amounts'
<1>1. todo \in [Threads -> Steps] => Amounts
  BY AmountTypes
<1> QED
  BY <1>1, PTL

\* One sum after a step that changes one term of it.
MovesWith(before, after, t) ==
  /\ SumOf(before) \in Nat /\ SumOf(after) \in Nat
  /\ before[t] \in Nat /\ after[t] \in Nat /\ before[t] <= SumOf(before)
  /\ SumOf(after) = SumOf(before) - before[t] + after[t]

\* A step of one thread changes one term of every sum.
LEMMA OneTermMoves ==
  ASSUME todo \in [Threads -> Steps], todo' \in [Threads -> Steps], NEW t \in Threads,
         \A u \in Threads \ {t} : todo'[u] = todo[u] /\ at'[u] = at[u]
  PROVE  /\ MovesWith(MemoryHeld, MemoryHeld', t) /\ MovesWith(CoresHeld, CoresHeld', t)
         /\ MovesWith(ClockHeld, ClockHeld', t) /\ MovesWith(ClockSpare, ClockSpare', t)
         /\ MovesWith(GpuHeld, GpuHeld', t) /\ MovesWith(SpaceHeld, SpaceHeld', t)
         /\ MovesWith(StorageSlots, StorageSlots', t) /\ MovesWith(NicSlots, NicSlots', t)
<1>1. /\ MemoryHeld' \in [Threads -> Nat] /\ CoresHeld' \in [Threads -> Nat]
      /\ ClockHeld' \in [Threads -> Nat] /\ ClockSpare' \in [Threads -> Nat]
      /\ GpuHeld' \in [Threads -> Nat] /\ SpaceHeld' \in [Threads -> Nat]
      /\ StorageSlots' \in [Threads -> Nat] /\ NicSlots' \in [Threads -> Nat]
  BY AmountTypesAfter DEF Amounts
<1>2. IsFiniteSet(Threads)
  BY DevicesAssumption
<1>3. ASSUME NEW f \in [Threads -> Nat], NEW g \in [Threads -> Nat],
             \A u \in Threads \ {t} : g[u] = f[u]
      PROVE  MovesWith(f, g, t)
  BY <1>2, <1>3, SumChange DEF MovesWith
<1>4. \A u \in Threads \ {t} : MemoryHeld'[u] = MemoryHeld[u] /\ CoresHeld'[u] = CoresHeld[u]
  BY DEF MemoryHeld, CoresHeld, In, Need
<1>5. \A u \in Threads \ {t} : ClockHeld'[u] = ClockHeld[u] /\ ClockSpare'[u] = ClockSpare[u]
  BY DEF ClockHeld, ClockSpare, In, Need
<1>6. \A u \in Threads \ {t} : GpuHeld'[u] = GpuHeld[u] /\ SpaceHeld'[u] = SpaceHeld[u]
  BY DEF GpuHeld, SpaceHeld, Held, In, Need
<1>7. \A u \in Threads \ {t} :
        StorageSlots'[u] = StorageSlots[u] /\ NicSlots'[u] = NicSlots[u]
  BY DEF StorageSlots, NicSlots, SlotsHeld, In
<1> QED
  BY <1>1, <1>3, <1>4, <1>5, <1>6, <1>7, AmountTypes DEF Amounts

-----------------------------------------------------------------------------
(* How a thread moves on                                                   *)

\* Only t moves, to a place it can be in.
Moves(t, stage) ==
  /\ todo' \in [Threads -> Steps]
  /\ at' \in [Threads -> {"ask", "slot", "hold", "book", "undo"}]
  /\ failing' \in [Threads -> BOOLEAN]
  /\ at'[t] = stage
  /\ \A u \in Threads \ {t} : todo'[u] = todo[u] /\ at'[u] = at[u]
  /\ \A u \in Threads : Placed(u)'

\* An operation that ends, or fails, and the memory held before and after.
LEMMA Leaves ==
  ASSUME Types, \A u \in Threads : Placed(u), NEW t \in Threads, todo[t] # <<>>, t \notin asleep,
         asleep' \subseteq asleep, task' = task, Advance(t) \/ Raise(t)
  PROVE  /\ Moves(t, "ask")
         /\ Need(t) \in Nat
         /\ ~OnMemory(todo[t][1]) => MemoryHeld'[t] = MemoryHeld[t]
         /\ todo[t][1][1] = "release" => MemoryHeld[t] = Need(t) /\ MemoryHeld'[t] = 0
         /\ todo[t][1][1] = "allocate" =>
              /\ MemoryHeld[t] = 0
              /\ Advance(t) => MemoryHeld'[t] = Need(t)
              /\ Raise(t) => MemoryHeld'[t] = 0
<1> DEFINE s == todo[t]
<1>1. s \in Steps /\ s # <<>> /\ Bracketed(s)
  BY DEF Types, Placed
<1>2. MemoryHeld[t] = MemoryOf(s)
  BY DEF MemoryHeld, MemoryOf
<1>3. PICK r : /\ r = IF Advance(t) THEN Tail(s) ELSE Finally(s)
               /\ todo' = [todo EXCEPT ![t] = r]
  BY DEF Advance, Raise
<1> HIDE DEF s
<1>4. /\ r \in Steps /\ Bracketed(r)
      /\ ~OnMemory(s[1]) => MemoryOf(r) = MemoryOf(s)
      /\ s[1][1] = "release" => MemoryOf(s) = s[1][2] /\ MemoryOf(r) = 0
      /\ s[1][1] = "allocate" => /\ MemoryOf(s) = 0
                                 /\ Advance(t) => MemoryOf(r) = s[1][2]
                                 /\ ~Advance(t) => MemoryOf(r) = 0
      /\ s[1][2] \in Nat
  <2>1. CASE Advance(t)
    BY <1>1, <1>3, <2>1, AfterOne
  <2>2. CASE ~Advance(t)
    <3>1. r = Finally(s)
      BY <1>3, <2>2
    <3>2. s[1][1] = "release" => OnMemory(s[1])
      BY DEF OnMemory
    <3>3. r \in Steps /\ Bracketed(r)
          /\ MemoryOf(r) = IF s[1][1] = "release" THEN 0 ELSE MemoryOf(s)
      BY <1>1, <3>1, AfterException
    <3>4. /\ s[1][2] \in Nat
          /\ s[1][1] = "release" => MemoryOf(s) = s[1][2]
          /\ s[1][1] = "allocate" => MemoryOf(s) = 0
      BY <1>1, AfterOne
    <3> QED
      BY <2>2, <3>2, <3>3, <3>4
  <2> QED
    BY <2>1, <2>2
<1>5. todo'[t] = r /\ todo' \in [Threads -> Steps]
      /\ \A u \in Threads \ {t} : todo'[u] = todo[u]
  BY <1>3, <1>4 DEF Types
<1>6. /\ at' = [at EXCEPT ![t] = "ask"]
      /\ failing' \in [Threads -> BOOLEAN]
  BY DEF Advance, Raise, Types
<1>7. /\ at' \in [Threads -> {"ask", "slot", "hold", "book", "undo"}] /\ at'[t] = "ask"
      /\ \A u \in Threads \ {t} : at'[u] = at[u]
  BY <1>6 DEF Types
<1>8. task[t] # NoWork
  BY DEF Placed
<1>9. ASSUME NEW u \in Threads PROVE Placed(u)'
  <2>1. CASE u = t
    BY <2>1, <1>4, <1>5, <1>7, <1>8 DEF Placed
  <2>2. CASE u # t
    BY <2>2, <1>5, <1>7 DEF Placed, In
  <2> QED
    BY <2>1, <2>2
<1>10. MemoryHeld'[t] = MemoryOf(r)
  BY <1>5 DEF MemoryHeld, MemoryOf
<1>11. Raise(t) /\ s[1][1] = "allocate" => MemoryOf(r) = 0
  <2>1. ASSUME Raise(t), s[1][1] = "allocate" PROVE MemoryOf(r) = 0
    <3>1. todo' = [todo EXCEPT ![t] = Finally(s)]
      BY <2>1 DEF Raise, s
    <3>2. r = Finally(s)
      BY <3>1, <1>5 DEF Types
    <3> QED
      BY <1>1, <1>4, <2>1, <3>2, AfterException
  <2> QED
    BY <2>1
<1> QED
  BY <1>2, <1>4, <1>5, <1>6, <1>7, <1>9, <1>10, <1>11 DEF Moves, Need, s

\* A thread reaches the next stage of its operation.
LEMMA Stays ==
  ASSUME Types, \A u \in Threads : Placed(u), NEW t \in Threads, todo[t] # <<>>, t \notin asleep,
         asleep' = asleep, task' = task, NEW stage, Stage(t, stage),
         \/ stage = "hold" /\ todo[t][1][1] \in Holders
         \/ stage \in {"slot", "book", "undo"} /\ todo[t][1][1] = "write"
  PROVE  /\ Moves(t, stage)
         /\ todo' = todo
         /\ Need(t) \in Nat
         /\ MemoryHeld'[t] = MemoryHeld[t]
<1>1. /\ todo' = todo /\ failing' = failing /\ at' = [at EXCEPT ![t] = stage]
      /\ stage \in {"ask", "slot", "hold", "book", "undo"}
  BY DEF Stage
<1>2. /\ at' \in [Threads -> {"ask", "slot", "hold", "book", "undo"}] /\ at'[t] = stage
      /\ \A u \in Threads \ {t} : at'[u] = at[u]
  BY <1>1 DEF Types
<1>3. task[t] # NoWork
  BY DEF Placed
<1>4. ASSUME NEW u \in Threads PROVE Placed(u)'
  <2>1. CASE u = t
    BY <2>1, <1>1, <1>2, <1>3 DEF Placed, Types
  <2>2. CASE u # t
    BY <2>2, <1>1, <1>2 DEF Placed, In
  <2> QED
    BY <2>1, <2>2
<1>5. Need(t) \in Nat
  BY AfterOne DEF Need, Types, Placed
<1> QED
  BY <1>1, <1>2, <1>4, <1>5 DEF Moves, Types, MemoryHeld

\* Whoever still sleeps does not fit, if no counter fell that a sleeper waits for.
LEMMA SleepersKept ==
  ASSUME Types, \A u \in Threads : Placed(u), SleepersDoNotFit, NEW t \in Threads,
         \A u \in Threads \ {t} : todo'[u] = todo[u] /\ at'[u] = at[u],
         asleep' \subseteq asleep, t \notin asleep,
         used' \in Nat, cores' \in Nat, gpuUsed' \in Nat,
         used' >= used \/ \A u \in asleep' : todo[u][1][1] # "allocate",
         cores' >= cores \/ \A u \in asleep' : todo[u][1][1] # "cpu",
         gpuUsed' >= gpuUsed \/ \A u \in asleep' : todo[u][1][1] # "gpu"
  PROVE  SleepersDoNotFit'
<1> SUFFICES ASSUME NEW u \in asleep'
             PROVE  (\/ In(u, {"allocate"}, {"ask"}) /\ used + Need(u) > Memory
                     \/ In(u, {"cpu"}, {"ask"}) /\ cores + CoresFor(Need(u)) > Cores
                     \/ In(u, {"gpu"}, {"ask"}) /\ gpuUsed + Need(u) > GpuMemory)'
  BY DEF SleepersDoNotFit
<1>1. u \in asleep /\ u \in Threads \ {t}
  BY DEF Types
<1>2. todo'[u] = todo[u] /\ at'[u] = at[u]
  BY <1>1
<1>3. todo[u] # <<>> /\ todo[u] \in Steps /\ Bracketed(todo[u])
  BY <1>1 DEF Types, Placed, In
<1>4. Need(u) \in Nat /\ CoresFor(Need(u)) \in Nat
  BY <1>3, AfterOne, CoresCoverClock DEF Need
<1>5. Need(u)' = Need(u)
  BY <1>2 DEF Need
<1>6. CoresFor(Need(u))' = CoresFor(Need(u))
  BY <1>5 DEF CoresFor, ClockFor, LesserOf
<1>7. \A ops, stages : In(u, ops, stages)' = In(u, ops, stages)
  BY <1>2 DEF In
<1>8. CASE In(u, {"allocate"}, {"ask"}) /\ used + Need(u) > Memory
  <2>1. used' >= used
    BY <1>8 DEF In
  <2>2. used' + Need(u) > Memory
    BY <1>4, <1>8, <2>1, Capacities DEF Types
  <2> QED
    BY <1>5, <1>7, <1>8, <2>2
<1>9. CASE In(u, {"cpu"}, {"ask"}) /\ cores + CoresFor(Need(u)) > Cores
  <2>1. cores' >= cores
    BY <1>9 DEF In
  <2>2. cores' + CoresFor(Need(u)) > Cores
    BY <1>4, <1>9, <2>1, Capacities DEF Types
  <2> QED
    BY <1>6, <1>7, <1>9, <2>2
<1>10. CASE In(u, {"gpu"}, {"ask"}) /\ gpuUsed + Need(u) > GpuMemory
  <2>1. gpuUsed' >= gpuUsed
    BY <1>10 DEF In
  <2>2. gpuUsed' + Need(u) > GpuMemory
    BY <1>4, <1>10, <2>1, Capacities DEF Types
  <2> QED
    BY <1>5, <1>7, <1>10, <2>2
<1> QED
  BY <1>1, <1>8, <1>9, <1>10 DEF SleepersDoNotFit

\* A step that leaves the counters and what t holds leaves the sums.
LEMMA CountersKept ==
  ASSUME IInv, NEW t \in Threads, NEW stage, Moves(t, stage),
         UNCHANGED <<counters, task, outcome, asleep>>, t \notin asleep,
         MemoryHeld'[t] = MemoryHeld[t],
         at[t] = "ask", stage = "ask"
  PROVE  IInv'
<1>1. MovesWith(MemoryHeld, MemoryHeld', t) /\ MovesWith(CoresHeld, CoresHeld', t)
      /\ MovesWith(ClockHeld, ClockHeld', t) /\ MovesWith(ClockSpare, ClockSpare', t)
      /\ MovesWith(GpuHeld, GpuHeld', t) /\ MovesWith(SpaceHeld, SpaceHeld', t)
      /\ MovesWith(StorageSlots, StorageSlots', t) /\ MovesWith(NicSlots, NicSlots', t)
  BY OneTermMoves DEF IInv, Types, Moves
<1>2. SumOf(MemoryHeld') = SumOf(MemoryHeld) /\ SumOf(CoresHeld') = SumOf(CoresHeld)
      /\ SumOf(ClockHeld') = SumOf(ClockHeld) /\ SumOf(ClockSpare') = SumOf(ClockSpare)
      /\ SumOf(GpuHeld') = SumOf(GpuHeld) /\ SumOf(SpaceHeld') = SumOf(SpaceHeld)
      /\ SumOf(StorageSlots') = SumOf(StorageSlots) /\ SumOf(NicSlots') = SumOf(NicSlots)
  BY <1>1, AskingHoldsNothing DEF MovesWith, Moves
<1>3. Balanced'
  BY <1>2 DEF IInv, Balanced, counters
<1>4. WithinCapacity'
  BY DEF IInv, WithinCapacity, counters
<1>5. "memory" \notin Raising => SleepersDoNotFit'
  BY SleepersKept DEF IInv, Types, Moves, counters
<1>6. Types'
  BY DEF IInv, Types, Moves, counters
<1> QED
  BY <1>3, <1>4, <1>5, <1>6 DEF IInv, Moves

\* A thread falls asleep because what it needs is not free.
LEMMA Sleeps ==
  ASSUME IInv, NEW t \in Threads, Sleep(t),
         UNCHANGED <<counters, task, todo, at, failing, outcome>>,
         \/ In(t, {"allocate"}, {"ask"}) /\ used + Need(t) > Memory
         \/ In(t, {"cpu"}, {"ask"}) /\ cores + CoresFor(Need(t)) > Cores
         \/ In(t, {"gpu"}, {"ask"}) /\ gpuUsed + Need(t) > GpuMemory
  PROVE  IInv'
<1>1. /\ MemoryHeld' = MemoryHeld /\ CoresHeld' = CoresHeld /\ ClockHeld' = ClockHeld
      /\ ClockSpare' = ClockSpare /\ GpuHeld' = GpuHeld /\ SpaceHeld' = SpaceHeld
      /\ StorageSlots' = StorageSlots /\ NicSlots' = NicSlots
  BY DEF MemoryHeld, CoresHeld, ClockHeld, ClockSpare, GpuHeld, SpaceHeld, StorageSlots,
         NicSlots, Held, SlotsHeld, In, Need
<1>2. Balanced'
  BY <1>1 DEF IInv, Balanced, counters
<1>3. WithinCapacity'
  BY DEF IInv, WithinCapacity, counters
<1>4. Types'
  BY DEF IInv, Types, counters, Sleep
<1>5. \A u \in Threads : Placed(u)'
  BY DEF IInv, Placed, In, Sleep
<1>6. ASSUME "memory" \notin Raising PROVE SleepersDoNotFit'
  BY <1>6 DEF IInv, SleepersDoNotFit, Sleep, In, Need, counters
<1> QED
  BY <1>2, <1>3, <1>4, <1>5, <1>6 DEF IInv

-----------------------------------------------------------------------------
(* The steps                                                               *)

\* What holds of the thread that takes a step.
LEMMA Awake ==
  ASSUME IInv, NEW t \in Threads, NEW op, NEW stage, Doing(t, op, stage)
  PROVE  /\ Types /\ Balanced /\ WithinCapacity /\ \A u \in Threads : Placed(u)
         /\ todo[t] # <<>> /\ t \notin asleep /\ at[t] = stage /\ todo[t][1][1] = op
         /\ Need(t) \in Nat /\ CoresFor(Need(t)) \in Nat /\ ClockFor(Need(t)) \in Nat
         /\ CoresFor(Need(t)) * Frequency \in Nat
         /\ ClockFor(Need(t)) <= CoresFor(Need(t)) * Frequency
<1>1. todo[t] # <<>> /\ todo[t] \in Steps /\ Bracketed(todo[t])
  BY DEF IInv, Types, Placed, Doing
<1>2. Need(t) \in Nat
  BY <1>1, AfterOne DEF Need
<1> QED
  BY <1>1, <1>2, CoresCoverClock DEF IInv, Doing

\* An execution that is refused.
LEMMA RefuseStep == ASSUME IInv, NEW t \in Threads, Refuse(t) PROVE IInv'
<1>1. Doing(t, "refuse", "ask") /\ Raise(t) /\ UNCHANGED <<task, asleep, counters, outcome>>
  BY DEF Refuse
<1>2. Moves(t, "ask") /\ MemoryHeld'[t] = MemoryHeld[t]
  BY <1>1, Awake, Leaves DEF OnMemory
<1> QED
  BY <1>1, <1>2, Awake, CountersKept

\* The children of a parent end.
LEMMA DelegateStep == ASSUME IInv, NEW t \in Threads, Delegate(t) PROVE IInv'
<1>1. Doing(t, "delegate", "ask") /\ (Advance(t) \/ Raise(t))
      /\ UNCHANGED <<task, asleep, counters, outcome>>
  BY DEF Delegate
<1>2. Moves(t, "ask") /\ MemoryHeld'[t] = MemoryHeld[t]
  BY <1>1, Awake, Leaves DEF OnMemory
<1> QED
  BY <1>1, <1>2, Awake, CountersKept

\* What is left to show of a step that ends an operation or takes up a device.
LEMMA SumsMove ==
  ASSUME IInv, NEW t \in Threads, NEW stage, Moves(t, stage)
  PROVE  /\ MovesWith(MemoryHeld, MemoryHeld', t) /\ MovesWith(CoresHeld, CoresHeld', t)
         /\ MovesWith(ClockHeld, ClockHeld', t) /\ MovesWith(ClockSpare, ClockSpare', t)
         /\ MovesWith(GpuHeld, GpuHeld', t) /\ MovesWith(SpaceHeld, SpaceHeld', t)
         /\ MovesWith(StorageSlots, StorageSlots', t) /\ MovesWith(NicSlots, NicSlots', t)
BY OneTermMoves DEF IInv, Types, Moves

\* The sums of a step between two asks: only the memory may change.
LEMMA AskToAsk ==
  ASSUME IInv, NEW t \in Threads, Moves(t, "ask"), at[t] = "ask",
         UNCHANGED <<cores, clock, gpuUsed, stored, written, slots>>,
         used' >= SumOf(MemoryHeld'),
         "memory" \notin Raising => used' = SumOf(MemoryHeld')
  PROVE  Balanced'
<1>1. SumOf(CoresHeld') = SumOf(CoresHeld)
      /\ SumOf(ClockHeld') = SumOf(ClockHeld) /\ SumOf(ClockSpare') = SumOf(ClockSpare)
      /\ SumOf(GpuHeld') = SumOf(GpuHeld) /\ SumOf(SpaceHeld') = SumOf(SpaceHeld)
      /\ SumOf(StorageSlots') = SumOf(StorageSlots) /\ SumOf(NicSlots') = SumOf(NicSlots)
  BY SumsMove, AskingHoldsNothing DEF MovesWith, Moves
<1> QED
  BY <1>1 DEF IInv, Balanced

\* Memory is taken, waited for, or refused.
LEMMA AllocateStep == ASSUME IInv, NEW t \in Threads, Allocate(t) PROVE IInv'
<1>1. Doing(t, "allocate", "ask")
      /\ UNCHANGED <<task, cores, clock, gpuUsed, stored, written, slots, outcome>>
  BY DEF Allocate
<1>2. /\ Types /\ Balanced /\ WithinCapacity /\ \A u \in Threads : Placed(u)
      /\ todo[t] # <<>> /\ t \notin asleep /\ at[t] = "ask" /\ todo[t][1][1] = "allocate"
      /\ Need(t) \in Nat
  BY <1>1, Awake
<1>3. CASE Raise(t) /\ UNCHANGED <<asleep, used>>
  <2>1. Moves(t, "ask") /\ MemoryHeld[t] = 0 /\ MemoryHeld'[t] = 0
    BY <1>1, <1>2, <1>3, Leaves
  <2> QED
    BY <1>1, <1>2, <1>3, <2>1, CountersKept DEF counters
<1>4. CASE used + Need(t) > Memory /\ Sleep(t) /\ UNCHANGED <<todo, at, failing, used>>
  BY <1>1, <1>2, <1>4, Sleeps DEF counters, In
<1>5. CASE /\ used + Need(t) <= Memory /\ used' = used + Need(t) /\ Report(t, "memory")
           /\ UNCHANGED asleep
  <2>1. /\ Moves(t, "ask") /\ MemoryHeld[t] = 0
        /\ MemoryHeld'[t] = Need(t) \/ ("memory" \in Raising /\ MemoryHeld'[t] = 0)
    BY <1>1, <1>2, <1>5, Leaves DEF Report
  <2>2. MovesWith(MemoryHeld, MemoryHeld', t)
    BY <2>1, SumsMove
  <2>3. used \in Nat /\ used >= SumOf(MemoryHeld)
        /\ ("memory" \notin Raising => used = SumOf(MemoryHeld))
    BY <1>2 DEF Types, Balanced
  <2>4. used' >= SumOf(MemoryHeld') /\ ("memory" \notin Raising => used' = SumOf(MemoryHeld'))
    BY <1>2, <1>5, <2>1, <2>2, <2>3 DEF MovesWith
  <2>5. Balanced'
    BY <1>1, <1>2, <2>1, <2>4, AskToAsk
  <2>6. WithinCapacity'
    BY <1>1, <1>2, <1>5 DEF WithinCapacity
  <2>7. used' \in Nat /\ used' >= used
    BY <1>2, <1>5, <2>3
  <2>8. Types'
    BY <1>1, <1>2, <1>5, <2>1, <2>7 DEF Types, Moves
  <2>9. "memory" \notin Raising => SleepersDoNotFit'
    BY <1>1, <1>2, <1>5, <2>1, <2>7, <2>8, SleepersKept DEF IInv, Types, Moves
  <2> QED
    BY <2>1, <2>5, <2>6, <2>8, <2>9 DEF IInv, Moves
<1> QED
  BY <1>3, <1>4, <1>5 DEF Allocate

\* Memory is given back.
LEMMA ReleaseStep == ASSUME IInv, NEW t \in Threads, Release(t) PROVE IInv'
<1>1. /\ Doing(t, "release", "ask") /\ used' = used - Need(t)
      /\ \/ Advance(t) /\ NotifyAll("allocate")
         \/ "memory" \in Raising /\ Raise(t) /\ UNCHANGED asleep
      /\ UNCHANGED <<task, cores, clock, gpuUsed, stored, written, slots, outcome>>
  BY DEF Release
<1>2. /\ Types /\ Balanced /\ WithinCapacity /\ \A u \in Threads : Placed(u)
      /\ todo[t] # <<>> /\ t \notin asleep /\ at[t] = "ask" /\ todo[t][1][1] = "release"
      /\ Need(t) \in Nat
  BY <1>1, Awake
<1>3. asleep' \subseteq asleep
  BY <1>1 DEF NotifyAll
<1>4. Moves(t, "ask") /\ MemoryHeld[t] = Need(t) /\ MemoryHeld'[t] = 0
  BY <1>1, <1>2, <1>3, Leaves
<1>5. MovesWith(MemoryHeld, MemoryHeld', t)
  BY <1>4, SumsMove
<1>6. used \in Nat /\ used >= SumOf(MemoryHeld)
      /\ ("memory" \notin Raising => used = SumOf(MemoryHeld))
  BY <1>2 DEF Types, Balanced
<1>7. used' \in Nat /\ used' <= used /\ used' >= SumOf(MemoryHeld')
      /\ ("memory" \notin Raising => used' = SumOf(MemoryHeld'))
  BY <1>1, <1>2, <1>4, <1>5, <1>6 DEF MovesWith
<1>8. Balanced'
  BY <1>1, <1>2, <1>4, <1>7, AskToAsk
<1>9. WithinCapacity'
  BY <1>1, <1>2, <1>6, <1>7, Capacities DEF WithinCapacity
<1>10. Types'
  BY <1>1, <1>2, <1>3, <1>4, <1>7 DEF Types, Moves
<1>11. "memory" \notin Raising => SleepersDoNotFit'
  <2>1. ASSUME "memory" \notin Raising PROVE \A u \in asleep' : todo[u][1][1] # "allocate"
    BY <1>1, <2>1 DEF NotifyAll
  <2> QED
    BY <1>1, <1>2, <1>3, <1>4, <1>7, <2>1, SleepersKept DEF IInv, Types, Moves
<1> QED
  BY <1>4, <1>8, <1>9, <1>10, <1>11 DEF IInv, Moves

\* Cores and clock are taken or waited for.
LEMMA CpuAcquireStep == ASSUME IInv, NEW t \in Threads, CpuAcquire(t) PROVE IInv'
<1>1. Doing(t, "cpu", "ask")
      /\ UNCHANGED <<task, used, gpuUsed, stored, written, slots, outcome>>
  BY DEF CpuAcquire
<1>2. /\ Types /\ Balanced /\ WithinCapacity /\ \A u \in Threads : Placed(u)
      /\ todo[t] # <<>> /\ t \notin asleep /\ at[t] = "ask" /\ todo[t][1][1] = "cpu"
      /\ CoresFor(Need(t)) \in Nat /\ ClockFor(Need(t)) \in Nat
      /\ CoresFor(Need(t)) * Frequency \in Nat
      /\ ClockFor(Need(t)) <= CoresFor(Need(t)) * Frequency
  BY <1>1, Awake
<1>3. CASE cores + CoresFor(Need(t)) > Cores
  <2>1. Sleep(t) /\ UNCHANGED <<cores, clock, todo, at, failing>>
    BY <1>3 DEF CpuAcquire
  <2> QED
    BY <1>1, <1>2, <1>3, <2>1, Sleeps DEF counters, In
<1>4. CASE ~(cores + CoresFor(Need(t)) > Cores)
  <2>1. /\ cores' = cores + CoresFor(Need(t)) /\ clock' = clock + ClockFor(Need(t))
        /\ Stage(t, "hold") /\ UNCHANGED asleep
    BY <1>4 DEF CpuAcquire
  <2>2. Moves(t, "hold") /\ todo' = todo /\ MemoryHeld'[t] = MemoryHeld[t]
    BY <1>1, <1>2, <2>1, Stays DEF Holders
  <2>3. /\ CoresHeld'[t] = CoresFor(Need(t)) /\ ClockHeld'[t] = ClockFor(Need(t))
        /\ ClockSpare'[t] = CoresFor(Need(t)) * Frequency - ClockFor(Need(t))
        /\ GpuHeld'[t] = 0 /\ SpaceHeld'[t] = 0 /\ StorageSlots'[t] = 0 /\ NicSlots'[t] = 0
    BY <1>2, <2>2 DEF CoresHeld, ClockHeld, ClockSpare, GpuHeld, SpaceHeld, StorageSlots,
       NicSlots, Held, SlotsHeld, In, Need, Moves
  <2>4. /\ CoresHeld[t] = 0 /\ ClockHeld[t] = 0 /\ ClockSpare[t] = 0
        /\ GpuHeld[t] = 0 /\ SpaceHeld[t] = 0 /\ StorageSlots[t] = 0 /\ NicSlots[t] = 0
    BY <1>2, AskingHoldsNothing
  <2>5. /\ SumOf(MemoryHeld') = SumOf(MemoryHeld) /\ SumOf(GpuHeld') = SumOf(GpuHeld)
        /\ SumOf(SpaceHeld') = SumOf(SpaceHeld) /\ SumOf(StorageSlots') = SumOf(StorageSlots)
        /\ SumOf(NicSlots') = SumOf(NicSlots)
    BY <2>2, <2>3, <2>4, SumsMove DEF MovesWith
  <2>6. /\ SumOf(CoresHeld') = SumOf(CoresHeld) + CoresFor(Need(t))
        /\ SumOf(ClockHeld') = SumOf(ClockHeld) + ClockFor(Need(t))
        /\ SumOf(ClockSpare') =
             SumOf(ClockSpare) + (CoresFor(Need(t)) * Frequency - ClockFor(Need(t)))
        /\ SumOf(ClockSpare') \in Nat /\ SumOf(ClockSpare) \in Nat
    BY <2>2, <2>3, <2>4, SumsMove DEF MovesWith
  <2>7. cores \in Nat /\ clock \in Nat /\ cores * Frequency = clock + SumOf(ClockSpare)
        /\ cores = SumOf(CoresHeld) /\ clock = SumOf(ClockHeld)
    BY <1>2 DEF Types, Balanced
  <2>8. cores' * Frequency = cores * Frequency + CoresFor(Need(t)) * Frequency
    BY <1>2, <2>1, <2>7, Capacities
  <2>9. cores' * Frequency = clock' + SumOf(ClockSpare')
    <3> DEFINE before == cores * Frequency
               after == cores' * Frequency
               more == CoresFor(Need(t)) * Frequency
               taken == ClockFor(Need(t))
               spare == SumOf(ClockSpare)
               left == SumOf(ClockSpare')
    <3>1. left = spare + (more - taken) /\ spare \in Nat /\ left \in Nat
      BY <2>6
    <3>2. before = clock + spare /\ clock \in Nat
      BY <2>7
    <3>3. more \in Nat /\ taken \in Nat /\ clock' = clock + taken
      BY <1>2, <2>1
    <3>4. after = before + more
      BY <2>8
    <3> HIDE DEF before, after, more, taken, spare, left
    <3>5. after = clock' + left
      BY <3>1, <3>2, <3>3, <3>4
    <3> QED
      BY <3>5 DEF after, left
  <2>10. Balanced'
    BY <1>1, <1>2, <2>1, <2>5, <2>6, <2>7, <2>9 DEF Balanced
  <2>11. cores' \in Nat /\ clock' \in Nat /\ cores' >= cores /\ cores' <= Cores
         /\ clock' <= cores' * Frequency
    <3> DEFINE q == cores' * Frequency
               k == CoresFor(Need(t))
               c == ClockFor(Need(t))
    <3>1. /\ cores' = cores + k /\ clock' = clock + c /\ k \in Nat /\ c \in Nat
          /\ ~(cores + k > Cores)
      BY <1>2, <1>4, <2>1
    <3>2. q = clock' + SumOf(ClockSpare')
      BY <2>9
    <3> HIDE DEF q, k, c
    <3>3. /\ cores' \in Nat /\ clock' \in Nat /\ cores' >= cores /\ cores' <= Cores
          /\ clock' <= q
      BY <2>6, <2>7, <3>1, <3>2, Capacities
    <3> QED
      BY <3>3 DEF q
  <2>12. WithinCapacity'
    BY <1>1, <1>2, <2>11 DEF WithinCapacity
  <2>13. Types'
    BY <1>1, <1>2, <2>1, <2>2, <2>11 DEF Types, Moves
  <2>14. "memory" \notin Raising => SleepersDoNotFit'
    BY <1>1, <1>2, <2>1, <2>2, <2>11, SleepersKept DEF IInv, Types, Moves
  <2> QED
    BY <2>2, <2>10, <2>12, <2>13, <2>14 DEF IInv, Moves
<1> QED
  BY <1>3, <1>4

\* Cores and clock are given back.
LEMMA CpuEndStep == ASSUME IInv, NEW t \in Threads, CpuEnd(t) PROVE IInv'
<1>1. /\ Doing(t, "cpu", "hold")
      /\ cores' = cores - CoresFor(Need(t)) /\ clock' = clock - ClockFor(Need(t))
      /\ NotifyAll("cpu") /\ (Advance(t) \/ Raise(t))
      /\ UNCHANGED <<task, used, gpuUsed, stored, written, slots, outcome>>
  BY DEF CpuEnd, Report
<1>2. /\ Types /\ Balanced /\ WithinCapacity /\ \A u \in Threads : Placed(u)
      /\ todo[t] # <<>> /\ t \notin asleep /\ at[t] = "hold" /\ todo[t][1][1] = "cpu"
      /\ CoresFor(Need(t)) \in Nat /\ ClockFor(Need(t)) \in Nat
      /\ CoresFor(Need(t)) * Frequency \in Nat
      /\ ClockFor(Need(t)) <= CoresFor(Need(t)) * Frequency
  BY <1>1, Awake
<1>3. asleep' \subseteq asleep /\ \A u \in asleep' : todo[u][1][1] # "cpu"
  BY <1>1 DEF NotifyAll
<1>4. Moves(t, "ask") /\ MemoryHeld'[t] = MemoryHeld[t]
  BY <1>1, <1>2, <1>3, Leaves DEF OnMemory
<1>5. /\ CoresHeld[t] = CoresFor(Need(t)) /\ ClockHeld[t] = ClockFor(Need(t))
      /\ ClockSpare[t] = CoresFor(Need(t)) * Frequency - ClockFor(Need(t))
      /\ GpuHeld[t] = 0 /\ SpaceHeld[t] = 0 /\ StorageSlots[t] = 0 /\ NicSlots[t] = 0
  BY <1>2 DEF CoresHeld, ClockHeld, ClockSpare, GpuHeld, SpaceHeld, StorageSlots,
     NicSlots, Held, SlotsHeld, In, Need
<1>6. /\ CoresHeld'[t] = 0 /\ ClockHeld'[t] = 0 /\ ClockSpare'[t] = 0
      /\ GpuHeld'[t] = 0 /\ SpaceHeld'[t] = 0 /\ StorageSlots'[t] = 0 /\ NicSlots'[t] = 0
  BY <1>4, AskingHoldsNothing DEF Moves
<1>7. /\ SumOf(MemoryHeld') = SumOf(MemoryHeld) /\ SumOf(GpuHeld') = SumOf(GpuHeld)
      /\ SumOf(SpaceHeld') = SumOf(SpaceHeld) /\ SumOf(StorageSlots') = SumOf(StorageSlots)
      /\ SumOf(NicSlots') = SumOf(NicSlots)
  BY <1>4, <1>5, <1>6, SumsMove DEF MovesWith
<1>8. /\ SumOf(CoresHeld') = SumOf(CoresHeld) - CoresFor(Need(t))
      /\ SumOf(ClockHeld') = SumOf(ClockHeld) - ClockFor(Need(t))
      /\ SumOf(ClockSpare') =
           SumOf(ClockSpare) - (CoresFor(Need(t)) * Frequency - ClockFor(Need(t)))
      /\ SumOf(CoresHeld') \in Nat /\ SumOf(ClockHeld') \in Nat
      /\ SumOf(ClockSpare') \in Nat /\ SumOf(ClockSpare) \in Nat
  BY <1>4, <1>5, <1>6, SumsMove DEF MovesWith
<1>9. cores \in Nat /\ clock \in Nat /\ cores * Frequency = clock + SumOf(ClockSpare)
      /\ cores = SumOf(CoresHeld) /\ clock = SumOf(ClockHeld) /\ cores <= Cores
  BY <1>2 DEF Types, Balanced, WithinCapacity
<1>10. cores' * Frequency = cores * Frequency - CoresFor(Need(t)) * Frequency
  BY <1>1, <1>2, <1>9, Capacities
<1>11. cores' * Frequency = clock' + SumOf(ClockSpare')
  <2> DEFINE p == cores * Frequency
             q == cores' * Frequency
             k == CoresFor(Need(t)) * Frequency
             c == ClockFor(Need(t))
  <2>1. p \in Nat /\ k \in Nat /\ c \in Nat
    BY <1>2, <1>9, Capacities
  <2>2. /\ q = p - k /\ p = clock + SumOf(ClockSpare) /\ clock' = clock - c
        /\ SumOf(ClockSpare') = SumOf(ClockSpare) - (k - c)
    BY <1>1, <1>8, <1>9, <1>10
  <2> HIDE DEF p, q, k, c
  <2>3. q = clock' + SumOf(ClockSpare')
    BY <1>8, <1>9, <2>1, <2>2
  <2> QED
    BY <2>3 DEF q
<1>12. Balanced'
  BY <1>1, <1>2, <1>7, <1>8, <1>9, <1>11 DEF Balanced
<1>13. cores' \in Nat /\ clock' \in Nat /\ cores' <= Cores /\ clock' <= cores' * Frequency
  <2> DEFINE q == cores' * Frequency
             k == CoresFor(Need(t))
             c == ClockFor(Need(t))
  <2>1. /\ cores' = cores - k /\ clock' = clock - c
        /\ cores' \in Nat /\ clock' \in Nat /\ k \in Nat
    BY <1>1, <1>2, <1>8, <1>9
  <2>2. q = clock' + SumOf(ClockSpare')
    BY <1>11
  <2> HIDE DEF q, k, c
  <2>3. cores' <= Cores /\ clock' <= q
    BY <1>8, <1>9, <2>1, <2>2, Capacities
  <2> QED
    BY <2>1, <2>3 DEF q
<1>14. WithinCapacity'
  BY <1>1, <1>2, <1>13 DEF WithinCapacity
<1>15. Types'
  BY <1>1, <1>2, <1>3, <1>4, <1>13 DEF Types, Moves
<1>16. "memory" \notin Raising => SleepersDoNotFit'
  BY <1>1, <1>2, <1>3, <1>4, <1>13, SleepersKept DEF IInv, Types, Moves
<1> QED
  BY <1>4, <1>12, <1>14, <1>15, <1>16 DEF IInv, Moves

\* A step at the GPU, the storage or a link leaves memory and processor alone.
LEMMA MemoryAndCpuKept ==
  ASSUME IInv, NEW t \in Threads, NEW stage, Moves(t, stage),
         UNCHANGED <<used, cores, clock>>, MemoryHeld'[t] = MemoryHeld[t],
         at[t] = "ask" \/ todo[t][1][1] # "cpu",
         at'[t] = "ask" \/ (todo' = todo /\ todo[t][1][1] # "cpu")
  PROVE  /\ used' >= SumOf(MemoryHeld')
         /\ "memory" \notin Raising => used' = SumOf(MemoryHeld')
         /\ cores' = SumOf(CoresHeld') /\ clock' = SumOf(ClockHeld')
         /\ cores' * Frequency = clock' + SumOf(ClockSpare')
<1>1. CoresHeld[t] = 0 /\ ClockHeld[t] = 0 /\ ClockSpare[t] = 0
  BY DEF CoresHeld, ClockHeld, ClockSpare, In
<1>2. CoresHeld'[t] = 0 /\ ClockHeld'[t] = 0 /\ ClockSpare'[t] = 0
  BY DEF CoresHeld, ClockHeld, ClockSpare, In
<1>3. SumOf(MemoryHeld') = SumOf(MemoryHeld) /\ SumOf(CoresHeld') = SumOf(CoresHeld)
      /\ SumOf(ClockHeld') = SumOf(ClockHeld) /\ SumOf(ClockSpare') = SumOf(ClockSpare)
  BY <1>1, <1>2, SumsMove DEF MovesWith
<1> QED
  BY <1>3 DEF IInv, Balanced

\* GPU memory is taken, waited for, or refused.
LEMMA GpuAcquireStep == ASSUME IInv, NEW t \in Threads, GpuAcquire(t) PROVE IInv'
<1>1. Doing(t, "gpu", "ask")
      /\ UNCHANGED <<task, used, cores, clock, stored, written, slots, outcome>>
  BY DEF GpuAcquire
<1>2. /\ Types /\ Balanced /\ WithinCapacity /\ \A u \in Threads : Placed(u)
      /\ todo[t] # <<>> /\ t \notin asleep /\ at[t] = "ask" /\ todo[t][1][1] = "gpu"
      /\ Need(t) \in Nat
  BY <1>1, Awake
<1>3. CASE Raise(t) /\ UNCHANGED <<asleep, gpuUsed>>
  <2>1. Moves(t, "ask") /\ MemoryHeld'[t] = MemoryHeld[t]
    BY <1>1, <1>2, <1>3, Leaves DEF OnMemory
  <2> QED
    BY <1>1, <1>2, <1>3, <2>1, CountersKept DEF counters
<1>4. CASE gpuUsed + Need(t) > GpuMemory /\ Sleep(t) /\ UNCHANGED <<todo, at, failing, gpuUsed>>
  BY <1>1, <1>2, <1>4, Sleeps DEF counters, In
<1>5. CASE /\ gpuUsed + Need(t) <= GpuMemory /\ gpuUsed' = gpuUsed + Need(t)
           /\ Stage(t, "hold") /\ UNCHANGED asleep
  <2>1. Moves(t, "hold") /\ todo' = todo /\ MemoryHeld'[t] = MemoryHeld[t]
    BY <1>1, <1>2, <1>5, Stays DEF Holders
  <2>2. /\ GpuHeld[t] = 0 /\ SpaceHeld[t] = 0 /\ StorageSlots[t] = 0 /\ NicSlots[t] = 0
    BY <1>2, AskingHoldsNothing
  <2>3. GpuHeld'[t] = Need(t) /\ SpaceHeld'[t] = 0 /\ StorageSlots'[t] = 0 /\ NicSlots'[t] = 0
    BY <1>2, <2>1 DEF GpuHeld, SpaceHeld, StorageSlots, NicSlots, Held, SlotsHeld, In, Need, Moves
  <2>4. /\ SumOf(GpuHeld') = SumOf(GpuHeld) + Need(t)
        /\ SumOf(SpaceHeld') = SumOf(SpaceHeld) /\ SumOf(StorageSlots') = SumOf(StorageSlots)
        /\ SumOf(NicSlots') = SumOf(NicSlots)
    BY <2>1, <2>2, <2>3, SumsMove DEF MovesWith
  <2>5. Balanced'
    BY <1>1, <1>2, <1>5, <2>1, <2>4, MemoryAndCpuKept DEF Balanced, Moves
  <2>6. gpuUsed' \in Nat /\ gpuUsed' >= gpuUsed
    BY <1>2, <1>5 DEF Types
  <2>7. WithinCapacity'
    BY <1>1, <1>2, <1>5 DEF WithinCapacity
  <2>8. Types'
    BY <1>1, <1>2, <1>5, <2>1, <2>6 DEF Types, Moves
  <2>9. "memory" \notin Raising => SleepersDoNotFit'
    BY <1>1, <1>2, <1>5, <2>1, <2>6, SleepersKept DEF IInv, Types, Moves
  <2> QED
    BY <2>1, <2>5, <2>7, <2>8, <2>9 DEF IInv, Moves
<1> QED
  BY <1>3, <1>4, <1>5 DEF GpuAcquire

\* GPU memory is given back.
LEMMA GpuEndStep == ASSUME IInv, NEW t \in Threads, GpuEnd(t) PROVE IInv'
<1>1. /\ Doing(t, "gpu", "hold") /\ gpuUsed' = gpuUsed - Need(t)
      /\ NotifyAll("gpu") /\ (Advance(t) \/ Raise(t))
      /\ UNCHANGED <<task, used, cores, clock, stored, written, slots, outcome>>
  BY DEF GpuEnd, Report
<1>2. /\ Types /\ Balanced /\ WithinCapacity /\ \A u \in Threads : Placed(u)
      /\ todo[t] # <<>> /\ t \notin asleep /\ at[t] = "hold" /\ todo[t][1][1] = "gpu"
      /\ Need(t) \in Nat
  BY <1>1, Awake
<1>3. asleep' \subseteq asleep /\ \A u \in asleep' : todo[u][1][1] # "gpu"
  BY <1>1 DEF NotifyAll
<1>4. Moves(t, "ask") /\ MemoryHeld'[t] = MemoryHeld[t]
  BY <1>1, <1>2, <1>3, Leaves DEF OnMemory
<1>5. GpuHeld[t] = Need(t) /\ SpaceHeld[t] = 0 /\ StorageSlots[t] = 0 /\ NicSlots[t] = 0
  BY <1>2 DEF GpuHeld, SpaceHeld, StorageSlots, NicSlots, Held, SlotsHeld, In, Need
<1>6. GpuHeld'[t] = 0 /\ SpaceHeld'[t] = 0 /\ StorageSlots'[t] = 0 /\ NicSlots'[t] = 0
  BY <1>4, AskingHoldsNothing DEF Moves
<1>7. /\ SumOf(GpuHeld') = SumOf(GpuHeld) - Need(t) /\ SumOf(GpuHeld') \in Nat
      /\ SumOf(SpaceHeld') = SumOf(SpaceHeld) /\ SumOf(StorageSlots') = SumOf(StorageSlots)
      /\ SumOf(NicSlots') = SumOf(NicSlots)
  BY <1>4, <1>5, <1>6, SumsMove DEF MovesWith
<1>8. gpuUsed \in Nat /\ gpuUsed = SumOf(GpuHeld) /\ gpuUsed <= GpuMemory
  BY <1>2 DEF Types, Balanced, WithinCapacity
<1>9. Balanced'
  BY <1>1, <1>2, <1>4, <1>7, MemoryAndCpuKept DEF Balanced, Moves
<1>10. gpuUsed' \in Nat /\ gpuUsed' <= GpuMemory
  BY <1>1, <1>2, <1>7, <1>8, Capacities
<1>11. WithinCapacity'
  BY <1>1, <1>2, <1>10 DEF WithinCapacity
<1>12. Types'
  BY <1>1, <1>2, <1>3, <1>4, <1>10 DEF Types, Moves
<1>13. "memory" \notin Raising => SleepersDoNotFit'
  BY <1>1, <1>2, <1>3, <1>4, <1>10, SleepersKept DEF IInv, Types, Moves
<1> QED
  BY <1>4, <1>9, <1>11, <1>12, <1>13 DEF IInv, Moves

\* A step that leaves memory, processor, GPU and sleepers alone keeps the invariant
\* if it keeps space and slots balanced.
LEMMA StorageStep ==
  ASSUME IInv, NEW t \in Threads, NEW stage, Moves(t, stage), t \notin asleep,
         UNCHANGED <<task, asleep, used, cores, clock, gpuUsed, outcome>>,
         MemoryHeld'[t] = MemoryHeld[t],
         at[t] = "ask" \/ todo[t][1][1] \notin {"cpu", "gpu"},
         at'[t] = "ask" \/ (todo' = todo /\ todo[t][1][1] \notin {"cpu", "gpu"}),
         stored' \in Nat, written' \in Nat, slots' \in [Kinds -> Nat],
         stored' <= Storage,
         stored' = written' + SumOf(SpaceHeld'),
         slots'["storage"] + SumOf(StorageSlots') = QueueDepth["storage"],
         slots'["nic"] + SumOf(NicSlots') = QueueDepth["nic"]
  PROVE  IInv'
<1>1. GpuHeld[t] = 0 /\ GpuHeld'[t] = 0
  BY DEF GpuHeld, Held, In
<1>2. SumOf(GpuHeld') = SumOf(GpuHeld)
  BY <1>1, SumsMove DEF MovesWith
<1>3. Balanced'
  BY <1>2, MemoryAndCpuKept DEF IInv, Balanced
<1>4. SumOf(StorageSlots') \in Nat /\ SumOf(NicSlots') \in Nat
  BY SumsMove DEF MovesWith
<1>5. slots'["storage"] \in Nat /\ slots'["nic"] \in Nat
  BY DEF Kinds
<1>6. slots'["storage"] <= QueueDepth["storage"] /\ slots'["nic"] <= QueueDepth["nic"]
  BY <1>4, <1>5, Capacities
<1>7. WithinCapacity'
  BY <1>6 DEF IInv, WithinCapacity, Kinds
<1>8. Types'
  BY DEF IInv, Types, Moves
<1>9. "memory" \notin Raising => SleepersDoNotFit'
  BY SleepersKept DEF IInv, Types, Moves
<1> QED
  BY <1>3, <1>7, <1>8, <1>9 DEF IInv, Moves

\* Space for a write is reserved or refused.
LEMMA ReserveStep == ASSUME IInv, NEW t \in Threads, Reserve(t) PROVE IInv'
<1>1. Doing(t, "write", "ask")
      /\ UNCHANGED <<task, asleep, used, cores, clock, gpuUsed, written, slots, outcome>>
  BY DEF Reserve
<1>2. /\ Types /\ Balanced /\ WithinCapacity /\ \A u \in Threads : Placed(u)
      /\ todo[t] # <<>> /\ t \notin asleep /\ at[t] = "ask" /\ todo[t][1][1] = "write"
      /\ Need(t) \in Nat
  BY <1>1, Awake
<1>3.  /\ stored \in Nat /\ written \in Nat /\ slots \in [Kinds -> Nat] /\ stored <= Storage
      /\ stored = written + SumOf(SpaceHeld)
      /\ slots["storage"] + SumOf(StorageSlots) = QueueDepth["storage"]
      /\ slots["nic"] + SumOf(NicSlots) = QueueDepth["nic"]
  BY <1>2 DEF Types, Balanced, WithinCapacity
<1>4. CASE stored + Need(t) > Storage
  <2>1. Raise(t) /\ UNCHANGED stored
    BY <1>4 DEF Reserve
  <2>2. Moves(t, "ask") /\ MemoryHeld'[t] = MemoryHeld[t]
    BY <1>1, <1>2, <2>1, Leaves DEF OnMemory
  <2> QED
    BY <1>1, <1>2, <2>1, <2>2, CountersKept DEF counters
<1>5. CASE ~(stored + Need(t) > Storage)
  <2>1. stored' = stored + Need(t) /\ Stage(t, "slot")
    BY <1>5 DEF Reserve
  <2>2. Moves(t, "slot") /\ todo' = todo /\ MemoryHeld'[t] = MemoryHeld[t]
    BY <1>1, <1>2, <2>1, Stays
  <2>3. SpaceHeld[t] = 0 /\ StorageSlots[t] = 0 /\ NicSlots[t] = 0
    BY <1>2, AskingHoldsNothing
  <2>4. SpaceHeld'[t] = Need(t) /\ StorageSlots'[t] = 0 /\ NicSlots'[t] = 0
    BY <1>2, <2>2 DEF SpaceHeld, StorageSlots, NicSlots, Held, SlotsHeld, In, Need, Moves
  <2>5. /\ SumOf(SpaceHeld') = SumOf(SpaceHeld) + Need(t) /\ SumOf(SpaceHeld) \in Nat
        /\ SumOf(StorageSlots') = SumOf(StorageSlots) /\ SumOf(NicSlots') = SumOf(NicSlots)
    BY <2>2, <2>3, <2>4, SumsMove DEF MovesWith
  <2>6. stored' \in Nat /\ stored' <= Storage /\ stored' = written' + SumOf(SpaceHeld')
    BY <1>1, <1>2, <1>3, <1>5, <2>1, <2>5, Capacities
  <2> QED
    BY <1>1, <1>2, <1>3, <2>2, <2>5, <2>6, StorageStep
<1> QED
  BY <1>4, <1>5

\* A transfer takes a slot.
LEMMA TransferStartStep == ASSUME IInv, NEW t \in Threads, TransferStart(t) PROVE IInv'
<1> DEFINE op == todo[t][1][1]
<1>1. /\ \/ Doing(t, "write", "slot")
         \/ Doing(t, op, "ask") /\ op \in {"read", "receive", "send"}
      /\ slots[KindOf(op)] > 0
      /\ slots' = [slots EXCEPT ![KindOf(op)] = @ - 1]
      /\ Stage(t, "hold")
      /\ UNCHANGED <<task, asleep, used, cores, clock, gpuUsed, stored, written, outcome>>
  BY DEF TransferStart, Doing
<1>2. /\ Types /\ Balanced /\ WithinCapacity /\ \A u \in Threads : Placed(u)
      /\ todo[t] # <<>> /\ t \notin asleep
      /\ \/ at[t] = "slot" /\ op = "write"
         \/ at[t] = "ask" /\ op \in {"read", "receive", "send"}
      /\ Need(t) \in Nat
  BY <1>1, Awake DEF Doing
<1>3.  /\ stored \in Nat /\ written \in Nat /\ slots \in [Kinds -> Nat] /\ stored <= Storage
      /\ stored = written + SumOf(SpaceHeld)
      /\ slots["storage"] + SumOf(StorageSlots) = QueueDepth["storage"]
      /\ slots["nic"] + SumOf(NicSlots) = QueueDepth["nic"]
  BY <1>2 DEF Types, Balanced, WithinCapacity
<1>4. Moves(t, "hold") /\ todo' = todo /\ MemoryHeld'[t] = MemoryHeld[t]
  BY <1>1, <1>2, Stays DEF Holders
<1>5. /\ SpaceHeld'[t] = SpaceHeld[t] /\ StorageSlots[t] = 0 /\ NicSlots[t] = 0
      /\ StorageSlots'[t] = IF op \in {"read", "write"} THEN 1 ELSE 0
      /\ NicSlots'[t] = IF op \in {"read", "write"} THEN 0 ELSE 1
  BY <1>2, <1>4 DEF SpaceHeld, StorageSlots, NicSlots, Held, SlotsHeld, In, Need, Moves
<1>6. /\ SumOf(SpaceHeld') = SumOf(SpaceHeld)
      /\ SumOf(StorageSlots') = SumOf(StorageSlots) + IF op \in {"read", "write"} THEN 1 ELSE 0
      /\ SumOf(NicSlots') = SumOf(NicSlots) + IF op \in {"read", "write"} THEN 0 ELSE 1
      /\ SumOf(StorageSlots) \in Nat /\ SumOf(NicSlots) \in Nat
  BY <1>4, <1>5, SumsMove DEF MovesWith
<1>7. /\ slots' \in [Kinds -> Nat]
      /\ slots'["storage"] = slots["storage"] - IF op \in {"read", "write"} THEN 1 ELSE 0
      /\ slots'["nic"] = slots["nic"] - IF op \in {"read", "write"} THEN 0 ELSE 1
      /\ slots["storage"] \in Nat /\ slots["nic"] \in Nat
  BY <1>1, <1>3 DEF KindOf, Kinds
<1>8. /\ slots'["storage"] + SumOf(StorageSlots') = QueueDepth["storage"]
      /\ slots'["nic"] + SumOf(NicSlots') = QueueDepth["nic"]
  BY <1>3, <1>6, <1>7
<1>9. at'[t] = "hold"
  BY <1>4 DEF Moves
<1> QED
  BY <1>1, <1>2, <1>3, <1>4, <1>6, <1>7, <1>8, <1>9, StorageStep

\* A transfer gives its slot back.
LEMMA TransferEndStep == ASSUME IInv, NEW t \in Threads, TransferEnd(t) PROVE IInv'
<1> DEFINE op == todo[t][1][1]
<1>1. /\ Doing(t, op, "hold") /\ op \in {"read", "write", "receive", "send"}
      /\ slots' = [slots EXCEPT ![KindOf(op)] = @ + 1]
      /\ IF op # "write" THEN Advance(t) \/ Raise(t) ELSE Stage(t, "book") \/ Stage(t, "undo")
      /\ UNCHANGED <<task, asleep, used, cores, clock, gpuUsed, stored, written, outcome>>
  BY DEF TransferEnd, Doing, Report
<1>2. /\ Types /\ Balanced /\ WithinCapacity /\ \A u \in Threads : Placed(u)
      /\ todo[t] # <<>> /\ t \notin asleep /\ at[t] = "hold"
      /\ Need(t) \in Nat
  BY <1>1, Awake
<1>3.  /\ stored \in Nat /\ written \in Nat /\ slots \in [Kinds -> Nat] /\ stored <= Storage
      /\ stored = written + SumOf(SpaceHeld)
      /\ slots["storage"] + SumOf(StorageSlots) = QueueDepth["storage"]
      /\ slots["nic"] + SumOf(NicSlots) = QueueDepth["nic"]
  BY <1>2 DEF Types, Balanced, WithinCapacity
<1>4. PICK stage \in {"ask", "book", "undo"} :
        /\ Moves(t, stage) /\ MemoryHeld'[t] = MemoryHeld[t]
        /\ stage = "ask" <=> op # "write"
        /\ op = "write" => todo' = todo
  <2>1. CASE op # "write"
    BY <1>1, <1>2, <2>1, Leaves DEF OnMemory
  <2>2. CASE op = "write" /\ Stage(t, "book")
    BY <1>1, <1>2, <2>2, Stays
  <2>3. CASE op = "write" /\ Stage(t, "undo")
    BY <1>1, <1>2, <2>3, Stays
  <2> QED
    BY <1>1, <2>1, <2>2, <2>3
<1>5. /\ StorageSlots[t] = IF op \in {"read", "write"} THEN 1 ELSE 0
      /\ NicSlots[t] = IF op \in {"read", "write"} THEN 0 ELSE 1
      /\ op # "write" => SpaceHeld[t] = 0
  BY <1>1, <1>2 DEF SpaceHeld, StorageSlots, NicSlots, Held, SlotsHeld, In
<1>6. at'[t] = stage
  BY <1>4 DEF Moves
<1>7. StorageSlots'[t] = 0 /\ NicSlots'[t] = 0
  BY <1>6 DEF StorageSlots, NicSlots, SlotsHeld, In
<1>8. SpaceHeld'[t] = SpaceHeld[t]
  <2>1. CASE op = "write"
    BY <1>2, <1>4, <1>6, <2>1 DEF SpaceHeld, Held, In, Need
  <2>2. CASE op # "write"
    BY <1>4, <1>5, <1>6, <2>2, AskingHoldsNothing
  <2> QED
    BY <2>1, <2>2
<1>9. /\ SumOf(SpaceHeld') = SumOf(SpaceHeld)
      /\ SumOf(StorageSlots') = SumOf(StorageSlots) - IF op \in {"read", "write"} THEN 1 ELSE 0
      /\ SumOf(NicSlots') = SumOf(NicSlots) - IF op \in {"read", "write"} THEN 0 ELSE 1
      /\ SumOf(StorageSlots) \in Nat /\ SumOf(NicSlots) \in Nat
  BY <1>4, <1>5, <1>7, <1>8, SumsMove DEF MovesWith
<1>10. /\ slots' \in [Kinds -> Nat]
       /\ slots'["storage"] = slots["storage"] + IF op \in {"read", "write"} THEN 1 ELSE 0
       /\ slots'["nic"] = slots["nic"] + IF op \in {"read", "write"} THEN 0 ELSE 1
       /\ slots["storage"] \in Nat /\ slots["nic"] \in Nat
  BY <1>1, <1>3 DEF KindOf, Kinds
<1>11. /\ slots'["storage"] + SumOf(StorageSlots') = QueueDepth["storage"]
       /\ slots'["nic"] + SumOf(NicSlots') = QueueDepth["nic"]
  BY <1>3, <1>9, <1>10
<1> QED
  BY <1>1, <1>2, <1>3, <1>4, <1>6, <1>9, <1>10, <1>11, StorageStep

\* What was written is booked.
LEMMA BookStep == ASSUME IInv, NEW t \in Threads, Book(t) PROVE IInv'
<1>1. /\ Doing(t, "write", "book") /\ written' = written + Need(t) /\ Advance(t)
      /\ UNCHANGED <<task, asleep, used, cores, clock, gpuUsed, stored, slots, outcome>>
  BY DEF Book
<1>2. /\ Types /\ Balanced /\ WithinCapacity /\ \A u \in Threads : Placed(u)
      /\ todo[t] # <<>> /\ t \notin asleep /\ at[t] = "book" /\ todo[t][1][1] = "write"
      /\ Need(t) \in Nat
  BY <1>1, Awake
<1>3.  /\ stored \in Nat /\ written \in Nat /\ slots \in [Kinds -> Nat] /\ stored <= Storage
      /\ stored = written + SumOf(SpaceHeld)
      /\ slots["storage"] + SumOf(StorageSlots) = QueueDepth["storage"]
      /\ slots["nic"] + SumOf(NicSlots) = QueueDepth["nic"]
  BY <1>2 DEF Types, Balanced, WithinCapacity
<1>4. Moves(t, "ask") /\ MemoryHeld'[t] = MemoryHeld[t]
  BY <1>1, <1>2, Leaves DEF OnMemory
<1>5. SpaceHeld[t] = Need(t) /\ StorageSlots[t] = 0 /\ NicSlots[t] = 0
  BY <1>2 DEF SpaceHeld, StorageSlots, NicSlots, Held, SlotsHeld, In, Need
<1>6. SpaceHeld'[t] = 0 /\ StorageSlots'[t] = 0 /\ NicSlots'[t] = 0 /\ at'[t] = "ask"
  BY <1>4, AskingHoldsNothing DEF Moves
<1>7. /\ SumOf(SpaceHeld') = SumOf(SpaceHeld) - Need(t) /\ SumOf(SpaceHeld) \in Nat
      /\ SumOf(StorageSlots') = SumOf(StorageSlots) /\ SumOf(NicSlots') = SumOf(NicSlots)
  BY <1>4, <1>5, <1>6, SumsMove DEF MovesWith
<1>8. written' \in Nat /\ stored' = written' + SumOf(SpaceHeld')
  BY <1>1, <1>2, <1>3, <1>7
<1> QED
  BY <1>1, <1>2, <1>3, <1>4, <1>6, <1>7, <1>8, StorageStep

\* The space of a failed write is given back.
LEMMA UndoStep == ASSUME IInv, NEW t \in Threads, Undo(t) PROVE IInv'
<1>1. /\ Doing(t, "write", "undo") /\ stored' = stored - Need(t) /\ Raise(t)
      /\ UNCHANGED <<task, asleep, used, cores, clock, gpuUsed, written, slots, outcome>>
  BY DEF Undo
<1>2. /\ Types /\ Balanced /\ WithinCapacity /\ \A u \in Threads : Placed(u)
      /\ todo[t] # <<>> /\ t \notin asleep /\ at[t] = "undo" /\ todo[t][1][1] = "write"
      /\ Need(t) \in Nat
  BY <1>1, Awake
<1>3.  /\ stored \in Nat /\ written \in Nat /\ slots \in [Kinds -> Nat] /\ stored <= Storage
      /\ stored = written + SumOf(SpaceHeld)
      /\ slots["storage"] + SumOf(StorageSlots) = QueueDepth["storage"]
      /\ slots["nic"] + SumOf(NicSlots) = QueueDepth["nic"]
  BY <1>2 DEF Types, Balanced, WithinCapacity
<1>4. Moves(t, "ask") /\ MemoryHeld'[t] = MemoryHeld[t]
  BY <1>1, <1>2, Leaves DEF OnMemory
<1>5. SpaceHeld[t] = Need(t) /\ StorageSlots[t] = 0 /\ NicSlots[t] = 0
  BY <1>2 DEF SpaceHeld, StorageSlots, NicSlots, Held, SlotsHeld, In, Need
<1>6. SpaceHeld'[t] = 0 /\ StorageSlots'[t] = 0 /\ NicSlots'[t] = 0 /\ at'[t] = "ask"
  BY <1>4, AskingHoldsNothing DEF Moves
<1>7. /\ SumOf(SpaceHeld') = SumOf(SpaceHeld) - Need(t)
      /\ SumOf(SpaceHeld) \in Nat /\ SumOf(SpaceHeld') \in Nat
      /\ SumOf(StorageSlots') = SumOf(StorageSlots) /\ SumOf(NicSlots') = SumOf(NicSlots)
  BY <1>4, <1>5, <1>6, SumsMove DEF MovesWith
<1>8. stored' \in Nat /\ stored' <= Storage /\ stored' = written' + SumOf(SpaceHeld')
  <2>1. stored' = written' + SumOf(SpaceHeld') /\ stored' <= stored
    BY <1>1, <1>2, <1>3, <1>7
  <2> QED
    <3>1. written' = written
      BY <1>1
    <3>2. stored' \in Nat
      BY <1>3, <1>7, <2>1, <3>1
    <3> QED
      BY <1>3, <2>1, <3>2, Capacities
<1> QED
  BY <1>1, <1>2, <1>3, <1>4, <1>6, <1>7, <1>8, StorageStep

\* A thread takes a work up.
LEMMA BeginStep ==
  ASSUME IInv, NEW t \in Threads, NEW w \in Works, Begin(t, w)
  PROVE  IInv'
<1>1. /\ task[t] = NoWork
      /\ task' = [task EXCEPT ![t] = w]
      /\ todo' = [todo EXCEPT ![t] = Program(w)]
      /\ UNCHANGED <<at, failing, asleep, counters, outcome>>
  BY DEF Begin
<1>2. Program(w) \in Steps /\ Bracketed(Program(w)) /\ MemoryOf(Program(w)) = 0
  BY ProgramWhole DEF Whole, MemoryOf
<1>3. Types /\ Placed(t) /\ todo[t] = <<>>
  BY <1>1 DEF IInv, Placed
<1>4. at[t] = "ask" /\ t \notin asleep
  BY <1>3 DEF Placed, Types, In
<1>5. /\ todo'[t] = Program(w) /\ todo' \in [Threads -> Steps] /\ task'[t] = w
      /\ \A u \in Threads \ {t} : todo'[u] = todo[u] /\ at'[u] = at[u] /\ task'[u] = task[u]
      /\ task' \in [Threads -> Works \cup {NoWork}] /\ w # NoWork
  BY <1>1, <1>2, <1>3, DevicesAssumption DEF Types
<1>6. ASSUME NEW u \in Threads PROVE Placed(u)'
  <2>1. CASE u = t
    <3>1. /\ Bracketed(todo'[t]) /\ task'[t] # NoWork /\ at'[t] = "ask" /\ t \notin asleep'
      <4>1. asleep' = asleep /\ at' = at
        BY <1>1
      <4>2. task'[t] # NoWork /\ todo'[t] = Program(w)
        BY <1>5
      <4> QED
        BY <1>2, <1>4, <4>1, <4>2
    <3> QED
      BY <2>1, <3>1 DEF Placed
  <2>2. CASE u # t
    BY <2>2, <1>1, <1>5 DEF IInv, Placed, In
  <2> QED
    BY <2>1, <2>2
<1>7. MovesWith(MemoryHeld, MemoryHeld', t) /\ MovesWith(CoresHeld, CoresHeld', t)
      /\ MovesWith(ClockHeld, ClockHeld', t) /\ MovesWith(ClockSpare, ClockSpare', t)
      /\ MovesWith(GpuHeld, GpuHeld', t) /\ MovesWith(SpaceHeld, SpaceHeld', t)
      /\ MovesWith(StorageSlots, StorageSlots', t) /\ MovesWith(NicSlots, NicSlots', t)
  BY <1>3, <1>5, OneTermMoves DEF Types
<1>8. MemoryHeld[t] = 0 /\ MemoryHeld'[t] = 0
  <2>1. MemoryOf(todo[t]) = 0
    BY <1>3 DEF MemoryOf, Closing
  <2> QED
    BY <2>1, <1>2, <1>5 DEF MemoryHeld, MemoryOf
<1>9. at'[t] = "ask"
  BY <1>1, <1>4
<1>10. SumOf(MemoryHeld') = SumOf(MemoryHeld) /\ SumOf(CoresHeld') = SumOf(CoresHeld)
      /\ SumOf(ClockHeld') = SumOf(ClockHeld) /\ SumOf(ClockSpare') = SumOf(ClockSpare)
      /\ SumOf(GpuHeld') = SumOf(GpuHeld) /\ SumOf(SpaceHeld') = SumOf(SpaceHeld)
      /\ SumOf(StorageSlots') = SumOf(StorageSlots) /\ SumOf(NicSlots') = SumOf(NicSlots)
  BY <1>4, <1>7, <1>8, <1>9, AskingHoldsNothing DEF MovesWith
<1>11. Balanced'
  BY <1>1, <1>10 DEF IInv, Balanced, counters
<1>12. WithinCapacity'
  BY <1>1 DEF IInv, WithinCapacity, counters
<1>13. Types'
  BY <1>1, <1>3, <1>5 DEF Types, counters
<1>14. "memory" \notin Raising => SleepersDoNotFit'
  BY <1>1, <1>3, <1>4, <1>5, SleepersKept DEF IInv, Types, counters
<1> QED
  BY <1>6, <1>11, <1>12, <1>13, <1>14 DEF IInv

\* An execution ends.
LEMMA EndStep == ASSUME IInv, NEW t \in Threads, End(t) PROVE IInv'
<1>1. /\ task[t] # NoWork /\ todo[t] = <<>>
      /\ outcome' = [outcome EXCEPT ![task[t]] = IF failing[t] THEN "failed" ELSE "completed"]
      /\ task' = [task EXCEPT ![t] = NoWork]
      /\ failing' = [failing EXCEPT ![t] = FALSE]
      /\ UNCHANGED <<todo, at, asleep, counters>>
  BY DEF End
<1>2. Types'
  BY <1>1 DEF IInv, Types, counters
<1>3. ASSUME NEW u \in Threads PROVE Placed(u)'
  <2>1. CASE u = t
    BY <2>1, <1>1 DEF IInv, Placed, In
  <2>2. CASE u # t
    BY <2>2, <1>1 DEF IInv, Placed, In, Types
  <2> QED
    BY <2>1, <2>2
<1>4. /\ MemoryHeld' = MemoryHeld /\ CoresHeld' = CoresHeld /\ ClockHeld' = ClockHeld
      /\ ClockSpare' = ClockSpare /\ GpuHeld' = GpuHeld /\ SpaceHeld' = SpaceHeld
      /\ StorageSlots' = StorageSlots /\ NicSlots' = NicSlots
  BY <1>1 DEF MemoryHeld, CoresHeld, ClockHeld, ClockSpare, GpuHeld, SpaceHeld, StorageSlots,
         NicSlots, Held, SlotsHeld, In, Need
<1>5. Balanced'
  BY <1>1, <1>4 DEF IInv, Balanced, counters
<1>6. WithinCapacity'
  BY <1>1 DEF IInv, WithinCapacity, counters
<1>7. "memory" \notin Raising => SleepersDoNotFit'
  BY <1>1 DEF IInv, SleepersDoNotFit, In, Need, counters
<1> QED
  BY <1>2, <1>3, <1>5, <1>6, <1>7 DEF IInv

-----------------------------------------------------------------------------
(* The theorems                                                            *)

\* At the start nothing is held.
LEMMA InitIInv == Init => IInv
<1> SUFFICES ASSUME Init PROVE IInv
  OBVIOUS
<1>1. Types
  BY Capacities DEF Init, Types, Steps
<1>2. \A t \in Threads : Placed(t)
  BY DEF Init, Placed, Bracketed
<1>3. \A t \in Threads : Closing(todo[t]) = {}
  BY DEF Init, Closing
<1>4. /\ \A t \in Threads : MemoryHeld[t] = 0
      /\ \A t \in Threads : /\ CoresHeld[t] = 0 /\ ClockHeld[t] = 0 /\ ClockSpare[t] = 0
                            /\ GpuHeld[t] = 0 /\ SpaceHeld[t] = 0
                            /\ StorageSlots[t] = 0 /\ NicSlots[t] = 0
  <2>1. \A t \in Threads : MemoryHeld[t] = 0
    BY <1>3 DEF MemoryHeld
  <2> QED
    BY <2>1, AskingHoldsNothing DEF Init
<1>5. /\ DOMAIN MemoryHeld = Threads /\ DOMAIN CoresHeld = Threads
      /\ DOMAIN ClockHeld = Threads /\ DOMAIN ClockSpare = Threads
      /\ DOMAIN GpuHeld = Threads /\ DOMAIN SpaceHeld = Threads
      /\ DOMAIN StorageSlots = Threads /\ DOMAIN NicSlots = Threads
  BY DEF MemoryHeld, CoresHeld, ClockHeld, ClockSpare, GpuHeld, SpaceHeld, StorageSlots,
         NicSlots, Held, SlotsHeld
<1>6. /\ SumOf(MemoryHeld) = 0 /\ SumOf(CoresHeld) = 0 /\ SumOf(ClockHeld) = 0
      /\ SumOf(ClockSpare) = 0 /\ SumOf(GpuHeld) = 0 /\ SumOf(SpaceHeld) = 0
      /\ SumOf(StorageSlots) = 0 /\ SumOf(NicSlots) = 0
  BY <1>4, <1>5, SumOfZeros
<1>7. Balanced
  BY <1>6, Capacities DEF Init, Balanced
<1>8. WithinCapacity
  BY Capacities DEF Init, WithinCapacity
<1>9. SleepersDoNotFit
  BY DEF Init, SleepersDoNotFit
<1> QED
  BY <1>1, <1>2, <1>7, <1>8, <1>9 DEF IInv

\* A step that changes nothing.
LEMMA StutterStep == IInv /\ UNCHANGED vars => IInv'
<1> SUFFICES ASSUME IInv, UNCHANGED vars PROVE IInv'
  OBVIOUS
<1>1. /\ MemoryHeld' = MemoryHeld /\ CoresHeld' = CoresHeld /\ ClockHeld' = ClockHeld
      /\ ClockSpare' = ClockSpare /\ GpuHeld' = GpuHeld /\ SpaceHeld' = SpaceHeld
      /\ StorageSlots' = StorageSlots /\ NicSlots' = NicSlots
  BY DEF vars, MemoryHeld, CoresHeld, ClockHeld, ClockSpare, GpuHeld, SpaceHeld, StorageSlots,
         NicSlots, Held, SlotsHeld, In, Need
<1>2. Balanced'
  BY <1>1 DEF vars, IInv, Balanced
<1>3. WithinCapacity' /\ Types' /\ \A t \in Threads : Placed(t)'
  BY DEF vars, IInv, WithinCapacity, Types, Placed, In
<1>4. "memory" \notin Raising => SleepersDoNotFit'
  BY DEF vars, IInv, SleepersDoNotFit, In, Need
<1> QED
  BY <1>2, <1>3, <1>4 DEF IInv

\* Every step keeps the invariant.
LEMMA Inductive == IInv /\ [Next]_vars => IInv'
<1> SUFFICES ASSUME IInv, [Next]_vars PROVE IInv'
  OBVIOUS
<1>1. ASSUME NEW t \in Threads, NEW w \in Works, Begin(t, w) PROVE IInv'
  BY <1>1, BeginStep
<1>2. ASSUME NEW t \in Threads, Step(t) PROVE IInv'
  BY <1>2, RefuseStep, DelegateStep, AllocateStep, ReleaseStep, CpuAcquireStep, CpuEndStep,
     GpuAcquireStep, GpuEndStep, ReserveStep, TransferStartStep, TransferEndStep, BookStep,
     UndoStep, EndStep DEF Step
<1>3. CASE UNCHANGED vars
  BY <1>3, StutterStep
<1> QED
  BY <1>1, <1>2, <1>3 DEF Next, AllDone

\* The inductive invariant holds of every behaviour.
THEOREM Invariance == Spec => []IInv
BY InitIInv, Inductive, PTL DEF Spec

\* No device of a Node is ever used beyond what it has, whatever sinks raise
\* and however the threads interleave (the acquire and release of each device).
THEOREM CapacityKept == Spec => []WithinCapacity
<1>1. IInv => WithinCapacity
  BY DEF IInv
<1> QED
  BY <1>1, Invariance, PTL

\* The counters of the devices are what the threads hold, in the finally
\* clauses of the executors too, unless the sink of the memory raises.
THEOREM CountersAreHeld ==
  ASSUME "memory" \notin Raising
  PROVE  Spec => []ReservationsAreHeld
<1>1. IInv => ReservationsAreHeld
  BY DEF IInv, Balanced, ReservationsAreHeld, GpuHeld, SpaceHeld, StorageSlots, NicSlots
<1> QED
  BY <1>1, Invariance, PTL

\* A thread in Condition.wait has nothing to be woken for.
THEOREM NoLostWakeup ==
  ASSUME "memory" \notin Raising
  PROVE  Spec => []SleepersDoNotFit
<1>1. IInv => SleepersDoNotFit
  BY DEF IInv
<1> QED
  BY <1>1, Invariance, PTL

\* When every thread is between works or waits for children, the devices are
\* as free as at the start, but for what was written.
THEOREM AllGivenBack ==
  ASSUME "memory" \notin Raising
  PROVE  Spec => []TemporariesReleased
<1>1. IInv => TemporariesReleased
  <2> SUFFICES ASSUME IInv, \A t \in Threads : Bare(t)
               PROVE  /\ used = 0 /\ cores = 0 /\ clock = 0 /\ gpuUsed = 0
                      /\ slots = QueueDepth /\ stored = written
    BY DEF TemporariesReleased
  <2>1. ASSUME NEW t \in Threads PROVE at[t] = "ask" /\ MemoryOf(todo[t]) = 0
    <3>1. CASE task[t] = NoWork
      <4>1. todo[t] = <<>>
        BY <3>1 DEF IInv, Placed
      <4> QED
        BY <4>1 DEF IInv, Placed, Types, MemoryOf, Closing
    <3>2. CASE In(t, {"delegate"}, {"ask"})
      <4>1. todo[t] \in Steps /\ Bracketed(todo[t])
        BY DEF IInv, Types, Placed
      <4> QED
        BY <3>2, <4>1, AfterOne DEF In
    <3> QED
      BY <3>1, <3>2 DEF Bare
  <2>2. \A t \in Threads :
          /\ MemoryHeld[t] = 0 /\ CoresHeld[t] = 0 /\ ClockHeld[t] = 0 /\ GpuHeld[t] = 0
          /\ SpaceHeld[t] = 0 /\ StorageSlots[t] = 0 /\ NicSlots[t] = 0
    <3>1. \A t \in Threads : MemoryHeld[t] = 0
      BY <2>1 DEF MemoryHeld, MemoryOf
    <3> QED
      BY <2>1, <3>1, AskingHoldsNothing
  <2>3. /\ DOMAIN MemoryHeld = Threads /\ DOMAIN CoresHeld = Threads
        /\ DOMAIN ClockHeld = Threads /\ DOMAIN GpuHeld = Threads /\ DOMAIN SpaceHeld = Threads
        /\ DOMAIN StorageSlots = Threads /\ DOMAIN NicSlots = Threads
    BY DEF MemoryHeld, CoresHeld, ClockHeld, GpuHeld, SpaceHeld, StorageSlots, NicSlots, Held,
           SlotsHeld
  <2>4. /\ SumOf(MemoryHeld) = 0 /\ SumOf(CoresHeld) = 0 /\ SumOf(ClockHeld) = 0
        /\ SumOf(GpuHeld) = 0 /\ SumOf(SpaceHeld) = 0
        /\ SumOf(StorageSlots) = 0 /\ SumOf(NicSlots) = 0
    BY <2>2, <2>3, SumOfZeros
  <2>5. /\ used = 0 /\ cores = 0 /\ clock = 0 /\ gpuUsed = 0
        /\ stored = written
        /\ slots["storage"] = QueueDepth["storage"] /\ slots["nic"] = QueueDepth["nic"]
        /\ slots \in [Kinds -> Nat]
    <3>1. slots \in [Kinds -> Nat] /\ slots["storage"] \in Nat /\ slots["nic"] \in Nat
          /\ written \in Nat
      BY DEF IInv, Types, Kinds
    <3> QED
      BY <2>4, <3>1 DEF IInv, Balanced
  <2>6. slots = QueueDepth
    BY <2>5, Capacities DEF Kinds
  <2> QED
    BY <2>5, <2>6
<1> QED
  BY <1>1, Invariance, PTL
=============================================================================
