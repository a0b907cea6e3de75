------------------------- MODULE ProviderCallsProofs -------------------------
(***************************************************************************)
(* Theorems about module ProviderCalls, for any number of calls, VMs,      *)
(* disks, faults and changes by other users: what the step programs of the *)
(* four providers have in common, and what follows from it whatever the    *)
(* hypervisor, the network and the caller's context do in between.         *)
(***************************************************************************)
EXTENDS ProviderCalls, FiniteSetTheorems, SequenceTheorems, TLAPS

----------------------------------------------------------------------------
(* Step programs *)

\* A step has all its fields, goes forward, and ends in an error the callers know.
IsStep(s) == /\ s = [do |-> s.do, arg |-> s.arg, code |-> s.code, special |-> s.special, retry |-> s.retry,
                     ok |-> s.ok, err |-> s.err]
             /\ s.ok \in Nat \ {0} /\ s.err \in Nat
             /\ s.code \in ErrorCode /\ \A c \in DOMAIN s.special : s.special[c] \in ErrorCode

\* A step that goes on with the next one or returns its error.
IsPlain(s) == IsStep(s) /\ s.ok = 1 /\ s.err = 0

\* A sequence of steps.
IsProgram(P) == /\ Len(P) \in Nat /\ P = [i \in 1..Len(P) |-> P[i]]
                /\ \A i \in 1..Len(P) : IsStep(P[i])

\* No step leads further than just behind the program.
Contained(P) == \A i \in 1..Len(P) : i + P[i].ok <= Len(P) + 1 /\ i + P[i].err <= Len(P) + 1

\* The program asks the hypervisor for nothing but answers, and for no new ID.
Quiet(P) == \A i \in 1..Len(P) : P[i].do \notin {"send", "guest", "allocate"}

\* A program, or a part of one, that only reads.
Calm(P) == IsProgram(P) /\ Contained(P) /\ Quiet(P)

\* The effects of the requests the program may send.
Sends(P, E) == \A i \in 1..Len(P) : P[i].do # "guest" /\ (P[i].do = "send" => EffectOf(P[i].arg) \in E)

\* Nothing goes past step x but by its success, nothing avoids it.
Gate(P, x) == /\ x \in 1..Len(P) /\ P[x].err = 0 /\ P[x].ok = 1
              /\ \A i \in 1..x - 1 : i + P[i].ok <= x /\ i + P[i].err <= x

----------------------------------------------------------------------------
(* How programs are put together *)

\* The entries of a sequence behind another one.
LEMMA ListCat ==
    ASSUME NEW S, NEW P \in Seq(S), NEW Q \in Seq(S)
    PROVE  /\ P \o Q \in Seq(S) /\ Len(P \o Q) = Len(P) + Len(Q)
           /\ \A i \in 1..Len(P) : (P \o Q)[i] = P[i]
           /\ \A i \in 1..Len(Q) : (P \o Q)[Len(P) + i] = Q[i]
OBVIOUS

\* A sequence is the function of its entries.
LEMMA Listed == ASSUME NEW S, NEW R \in Seq(S) PROVE R = [i \in 1..Len(R) |-> R[i]]
OBVIOUS

\* A sequence over a set is one over any larger set.
LEMMA Wider == ASSUME NEW S, NEW T, S \subseteq T, NEW R \in Seq(S) PROVE R \in Seq(T)
<1>1. \A i \in 1..Len(R) : R[i] \in T
    OBVIOUS
<1> QED BY <1>1

\* An error code for a class of errors, or a retry policy, changes nothing else.
LEMMA PlainWith ==
    ASSUME NEW s, IsPlain(s), NEW f
    PROVE  /\ (\A c \in DOMAIN f : f[c] \in ErrorCode) => IsPlain(With(s, f))
           /\ With(s, f).do = s.do /\ With(s, f).arg = s.arg /\ With(s, f).retry = s.retry
           /\ IsPlain(Retried(s, f)) /\ Retried(s, f).do = s.do /\ Retried(s, f).arg = s.arg
           /\ Retried(s, f).retry = f
<1>1. s = [do |-> s.do, arg |-> s.arg, code |-> s.code, special |-> s.special, retry |-> s.retry,
           ok |-> s.ok, err |-> s.err]
    BY DEF IsPlain, IsStep
<1>2. With(s, f) = [do |-> s.do, arg |-> s.arg, code |-> s.code, special |-> f, retry |-> s.retry,
                    ok |-> s.ok, err |-> s.err]
    BY <1>1 DEF With
<1>3. Retried(s, f) = [do |-> s.do, arg |-> s.arg, code |-> s.code, special |-> s.special, retry |-> f,
                       ok |-> s.ok, err |-> s.err]
    BY <1>1 DEF Retried
<1> QED BY <1>2, <1>3 DEF IsPlain, IsStep

\* In a list of plain steps each one is a gate.
LEMMA PlainList ==
    ASSUME NEW S, \A s \in S : IsPlain(s), NEW P \in Seq(S)
    PROVE  /\ IsProgram(P) /\ Contained(P) /\ \A x \in 1..Len(P) : Gate(P, x)
           /\ (\A s \in S : s.do \notin {"send", "guest", "allocate"}) => Quiet(P)
<1>1. Len(P) \in Nat /\ P = [i \in 1..Len(P) |-> P[i]] /\ \A i \in 1..Len(P) : P[i] \in S
    BY Listed
<1> QED BY <1>1 DEF IsProgram, Contained, Gate, Quiet, IsPlain

\* The positions of short programs.
LEMMA Six == \A i \in 1..6 : i = 1 \/ i = 2 \/ i = 3 \/ i = 4 \/ i = 5 \/ i = 6
OBVIOUS

\* A program behind another one: the steps of both, in their order.
LEMMA Cat ==
    ASSUME NEW P, NEW Q, IsProgram(P), IsProgram(Q)
    PROVE  /\ IsProgram(P \o Q) /\ Len(P \o Q) = Len(P) + Len(Q)
           /\ \A i \in 1..Len(P) : (P \o Q)[i] = P[i]
           /\ \A i \in 1..Len(Q) : (P \o Q)[Len(P) + i] = Q[i]
           /\ \A i \in 1..Len(P \o Q) : \/ i \in 1..Len(P) /\ (P \o Q)[i] = P[i]
                                        \/ \E j \in 1..Len(Q) : i = Len(P) + j /\ (P \o Q)[i] = Q[j]
<1> DEFINE S == {P[i] : i \in 1..Len(P)} \cup {Q[i] : i \in 1..Len(Q)}
<1>1. P \in Seq(S)
    <2>1. \A i \in 1..Len(P) : P[i] \in S
        OBVIOUS
    <2> QED BY <2>1 DEF IsProgram
<1>2. Q \in Seq(S)
    <2>1. \A i \in 1..Len(Q) : Q[i] \in S
        OBVIOUS
    <2> QED BY <2>1 DEF IsProgram
<1> HIDE DEF S
<1>3. /\ P \o Q \in Seq(S) /\ Len(P \o Q) = Len(P) + Len(Q)
      /\ \A i \in 1..Len(P) : (P \o Q)[i] = P[i]
      /\ \A i \in 1..Len(Q) : (P \o Q)[Len(P) + i] = Q[i]
    BY <1>1, <1>2, ListCat
<1>4. Len(P) \in Nat /\ Len(Q) \in Nat
    BY DEF IsProgram
<1>5. \A i \in 1..Len(P \o Q) : i \in 1..Len(P) \/ (i - Len(P) \in 1..Len(Q) /\ i = Len(P) + (i - Len(P)))
    BY <1>3, <1>4
<1>6. \A i \in 1..Len(P \o Q) : \/ i \in 1..Len(P) /\ (P \o Q)[i] = P[i]
                                \/ \E j \in 1..Len(Q) : i = Len(P) + j /\ (P \o Q)[i] = Q[j]
    BY <1>3, <1>5
<1>7. \A i \in 1..Len(P \o Q) : IsStep((P \o Q)[i])
    BY <1>6 DEF IsProgram
<1>8. P \o Q = [i \in 1..Len(P \o Q) |-> (P \o Q)[i]]
    BY <1>3, Listed
<1> QED BY <1>3, <1>4, <1>6, <1>7, <1>8 DEF IsProgram

\* A distance that stays within the second part stays within the whole.
LEMMA Behind ==
    ASSUME NEW n \in Nat, NEW j \in Nat, NEW m \in Nat, NEW k \in Nat, j + k <= m
    PROVE  (n + j) + k <= n + m
OBVIOUS

\* What both parts keep the whole keeps.
LEMMA CatKeeps ==
    ASSUME NEW P, NEW Q, NEW E, IsProgram(P), IsProgram(Q)
    PROVE  /\ Contained(P) /\ Contained(Q) => Contained(P \o Q)
           /\ Quiet(P) /\ Quiet(Q) => Quiet(P \o Q)
           /\ Sends(P, E) /\ Sends(Q, E) => Sends(P \o Q, E)
<1> DEFINE R == P \o Q
<1>1. /\ IsProgram(R) /\ Len(R) = Len(P) + Len(Q)
      /\ \A i \in 1..Len(R) : (i \in 1..Len(P) /\ R[i] = P[i]) \/ \E j \in 1..Len(Q) : i = Len(P) + j /\ R[i] = Q[j]
    BY Cat
<1> HIDE DEF R
<1>2. Len(P) \in Nat /\ Len(Q) \in Nat
    BY DEF IsProgram
<1>3. ASSUME Contained(P), Contained(Q) PROVE Contained(R)
    <2> SUFFICES ASSUME NEW i \in 1..Len(R) PROVE i + R[i].ok <= Len(R) + 1 /\ i + R[i].err <= Len(R) + 1
        BY DEF Contained
    <2>1. CASE i \in 1..Len(P) /\ R[i] = P[i]
        <3>1. i + P[i].ok <= Len(P) + 1 /\ i + P[i].err <= Len(P) + 1 /\ P[i].ok \in Nat /\ P[i].err \in Nat
            BY <1>3, <2>1 DEF Contained, IsProgram, IsStep
        <3> QED BY <3>1, <2>1, <1>1, <1>2
    <2>2. CASE \E j \in 1..Len(Q) : i = Len(P) + j /\ R[i] = Q[j]
        <3>1. PICK j \in 1..Len(Q) : i = Len(P) + j /\ R[i] = Q[j]
            BY <2>2
        <3>2. j + Q[j].ok <= Len(Q) + 1 /\ j + Q[j].err <= Len(Q) + 1 /\ Q[j].ok \in Nat /\ Q[j].err \in Nat
            BY <1>3 DEF Contained, IsProgram, IsStep
        <3>3. /\ i = Len(P) + j /\ R[i].ok = Q[j].ok /\ R[i].err = Q[j].err
              /\ Len(R) = Len(P) + Len(Q) /\ j \in Nat
            BY <3>1, <1>1
        <3>4. Len(Q) + 1 \in Nat /\ Len(P) + (Len(Q) + 1) = Len(P) + Len(Q) + 1
            BY <1>2
        <3>5. (Len(P) + j) + Q[j].ok <= Len(P) + (Len(Q) + 1)
            BY ONLY <3>2, <3>3, <3>4, <1>2, Behind
        <3>6. (Len(P) + j) + Q[j].err <= Len(P) + (Len(Q) + 1)
            BY ONLY <3>2, <3>3, <3>4, <1>2, Behind
        <3> QED BY ONLY <3>3, <3>4, <3>5, <3>6
    <2> QED BY <1>1, <2>1, <2>2
<1>4. ASSUME Quiet(P), Quiet(Q) PROVE Quiet(R)
    BY <1>1, <1>4 DEF Quiet
<1>5. ASSUME Sends(P, E), Sends(Q, E) PROVE Sends(R, E)
    BY <1>1, <1>5 DEF Sends
<1> QED BY <1>3, <1>4, <1>5 DEF R

\* A tolerant group is as good as the group.
LEMMA TolerantKeeps ==
    ASSUME NEW G, IsProgram(G), Contained(G)
    PROVE  /\ IsProgram(Tolerant(G)) /\ Contained(Tolerant(G)) /\ Len(Tolerant(G)) = Len(G)
           /\ \A i \in 1..Len(G) : /\ Tolerant(G)[i].do = G[i].do /\ Tolerant(G)[i].arg = G[i].arg
                                   /\ Tolerant(G)[i].ok = G[i].ok
<1> DEFINE T == Tolerant(G)
<1>1. Len(T) = Len(G) /\ Len(G) \in Nat /\ T = [i \in 1..Len(G) |-> T[i]]
    BY DEF Tolerant, IsProgram
<1>2. ASSUME NEW i \in 1..Len(G)
      PROVE  /\ T[i].do = G[i].do /\ T[i].arg = G[i].arg /\ T[i].ok = G[i].ok /\ T[i].err = Len(G) + 1 - i
             /\ IsStep(T[i])
    <2>1. IsStep(G[i]) /\ T[i] = [G[i] EXCEPT !.err = Len(G) + 1 - i]
        BY DEF Tolerant, IsProgram
    <2>2. Len(G) + 1 - i \in Nat
        BY <1>1
    <2> HIDE DEF T
    <2> QED BY <2>1, <2>2 DEF IsStep
<1> HIDE DEF T
<1>3. \A i \in 1..Len(G) : i + T[i].ok <= Len(G) + 1 /\ i + T[i].err <= Len(G) + 1
    BY <1>1, <1>2 DEF Contained
<1>4. IsProgram(T) /\ Contained(T)
    BY <1>1, <1>2, <1>3 DEF IsProgram, Contained
<1> QED BY <1>1, <1>2, <1>4 DEF T

\* The packages put steps and groups together in the same way.
LEMMA SameSteps ==
    /\ \A G : /\ PX!Tolerant(G) = Tolerant(G) /\ NX!Tolerant(G) = Tolerant(G) /\ VW!Tolerant(G) = Tolerant(G)
              /\ EX!Tolerant(G) = Tolerant(G)
    /\ \A s, f : /\ PX!With(s, f) = With(s, f) /\ NX!With(s, f) = With(s, f)
                 /\ PX!Retried(s, f) = Retried(s, f) /\ NX!Retried(s, f) = Retried(s, f)
                 /\ VW!Retried(s, f) = Retried(s, f)
BY DEF PX!Tolerant, NX!Tolerant, VW!Tolerant, EX!Tolerant, Tolerant, PX!With, NX!With, With,
       PX!Retried, NX!Retried, VW!Retried, Retried

\* A gate stays one when something is put behind it or in front of it.
LEMMA GateCat ==
    ASSUME NEW P, NEW Q, IsProgram(P), IsProgram(Q), NEW x \in Nat
    PROVE  /\ Gate(P, x) => Gate(P \o Q, x)
           /\ Contained(P) /\ Gate(Q, x) => Gate(P \o Q, Len(P) + x)
<1> DEFINE R == P \o Q
<1>1. /\ Len(R) = Len(P) + Len(Q)
      /\ \A i \in 1..Len(P) : R[i] = P[i]
      /\ \A i \in 1..Len(Q) : R[Len(P) + i] = Q[i]
      /\ \A i \in 1..Len(R) : (i \in 1..Len(P) /\ R[i] = P[i]) \/ \E j \in 1..Len(Q) : i = Len(P) + j /\ R[i] = Q[j]
    BY Cat
<1> HIDE DEF R
<1>2. Len(P) \in Nat /\ Len(Q) \in Nat
    BY DEF IsProgram
<1>3. ASSUME Gate(P, x) PROVE Gate(R, x)
    <2>1. x \in 1..Len(R) /\ R[x] = P[x] /\ \A i \in 1..x - 1 : R[i] = P[i]
        BY <1>1, <1>2, <1>3 DEF Gate
    <2> QED BY <1>3, <2>1 DEF Gate
<1>4. ASSUME Contained(P), Gate(Q, x) PROVE Gate(R, Len(P) + x)
    <2>1. Len(P) + x \in 1..Len(R) /\ R[Len(P) + x] = Q[x] /\ Q[x].err = 0 /\ Q[x].ok = 1 /\ x \in 1..Len(Q)
        BY <1>1, <1>2, <1>4 DEF Gate
    <2>2. ASSUME NEW i \in 1..Len(P) + x - 1 PROVE i + R[i].ok <= Len(P) + x /\ i + R[i].err <= Len(P) + x
        <3>1. CASE i \in 1..Len(P) /\ R[i] = P[i]
            <4>1. i + P[i].ok <= Len(P) + 1 /\ i + P[i].err <= Len(P) + 1 /\ P[i].ok \in Nat /\ P[i].err \in Nat
                BY <1>4, <3>1 DEF Contained, IsProgram, IsStep
            <4>2. R[i] = P[i] /\ i \in Nat
                BY <3>1
            <4>3. Len(P) + 1 <= Len(P) + x /\ Len(P) + x \in Nat /\ Len(P) + 1 \in Nat
                BY <2>1, <1>2
            <4> QED BY ONLY <4>1, <4>2, <4>3
        <3>2. CASE \E j \in 1..Len(Q) : i = Len(P) + j /\ R[i] = Q[j]
            <4>1. PICK j \in 1..Len(Q) : i = Len(P) + j /\ R[i] = Q[j]
                BY <3>2
            <4>2. j \in 1..x - 1
                BY <4>1, <1>2
            <4>3. j + Q[j].ok <= x /\ j + Q[j].err <= x /\ Q[j].ok \in Nat /\ Q[j].err \in Nat
                BY <1>4, <4>2 DEF Gate, IsProgram, IsStep
            <4>4. /\ i = Len(P) + j /\ R[i].ok = Q[j].ok /\ R[i].err = Q[j].err
                  /\ j \in Nat /\ x \in Nat
                BY <4>1, <4>2, <2>1, <1>2
            <4>5. (Len(P) + j) + Q[j].ok <= Len(P) + x
                BY ONLY <4>3, <4>4, <1>2, Behind
            <4>6. (Len(P) + j) + Q[j].err <= Len(P) + x
                BY ONLY <4>3, <4>4, <1>2, Behind
            <4> QED BY ONLY <4>4, <4>5, <4>6
        <3>3. i \in 1..Len(R)
            BY <1>1, <1>2, <2>1
        <3> QED BY <1>1, <3>1, <3>2, <3>3
    <2> QED BY <2>1, <2>2 DEF Gate
<1> QED BY <1>3, <1>4 DEF R

----------------------------------------------------------------------------
(* What the operations of all providers have in common *)

\* A request for one of the effects E is sent at w - 1 and waited for at w, and neither is avoided.
Ordered(P, w, E) == /\ w \in 2..Len(P) /\ Gate(P, w - 1) /\ Gate(P, w)
                    /\ P[w - 1].do = "send" /\ EffectOf(P[w - 1].arg) \in E /\ P[w].do = "wait"

\* The positions D are entered only by the success of the wait at w for an effect of E, which follows the
\* request at w - 1 immediately, or by a guest that has been asked; the end is among them.
Delivery(P, w, E, D) ==
    /\ 1 \notin D /\ \A i \in Nat : i > Len(P) => i \in D
    /\ w \in 1..Len(P) => /\ P[w].do = "wait" /\ w > 1
                          /\ P[w - 1].do = "send" /\ EffectOf(P[w - 1].arg) \in E
    /\ \A i \in 1..Len(P) :
          /\ i # w - 1 => i + P[i].ok # w
          /\ P[i].err > 0 => i + P[i].err # w
          /\ i \notin D => /\ P[i].err > 0 => i + P[i].err \notin D
                           /\ i = w \/ P[i].do \in {"fail", "guest"} \/ i + P[i].ok \notin D

\* At most one step m asks for a new VM; Proxmox has chosen its ID in the step before, Nutanix may repeat the
\* request, vSphere and ESXi do not.
Maker(pr, P, m) ==
    /\ \A i \in 1..Len(P) : P[i].do = "send" /\ EffectOf(P[i].arg) = "new" => i = m
    /\ \A i \in 1..Len(P) : P[i].do = "allocate" => i < m
    /\ m \in 1..Len(P) =>
          /\ pr = "nutanix" => P[m].retry \in {"once", "operation"}
          /\ pr \in {"vmware", "esxi"} => P[m].retry = "once"
          /\ pr = "proxmox" => m > 1 /\ P[m - 1].do = "allocate" /\ P[m - 1].ok = 1 /\ Gate(P, m - 1)

\* The positions D are entered only by a VM that has been read; the end is among them.
Looked(P, D) ==
    /\ 1 \notin D /\ \A i \in Nat : i > Len(P) => i \in D
    /\ \A i \in 1..Len(P) \ D : /\ P[i].err > 0 => i + P[i].err \notin D
                                /\ P[i].do \in {"fail", "lookup"} \/ i + P[i].ok \notin D

\* The lists are fetched at x, once, and the list of the VMs must not be missing.
Gathered(P, x) == /\ Gate(P, x) /\ P[x].do = "gather" /\ P[x].retry = "once"
                  /\ "vms" \in DOMAIN P[x].arg /\ P[x].arg["vms"] = "fatal"
                  /\ \A i \in 1..Len(P) : P[i].do = "gather" => i = x

\* The operations whose answer is a VM.
VMAnswers == {"GetVM", "CreateVM", "CloneVM", "CloneLinked"}

\* What is asked of program P of operation o of a provider.
Sound(pr, o, P) ==
    /\ o \in Port!Op /\ IsProgram(P)
    /\ \A i \in 1..Len(P) : /\ P[i].do = "send" => o \in DOMAIN Port!May /\ EffectOf(P[i].arg) \in Port!May[o]
                            /\ P[i].do = "guest" => o = "Reboot"
    /\ o \in DOMAIN Port!May => \E w \in Nat, D \in SUBSET Nat : Delivery(P, w, Port!Promised(o), D)
    /\ \E m \in Nat : Maker(pr, P, m)
    /\ o \in VMAnswers => \E D \in SUBSET Nat : Looked(P, D)
    /\ o = "SyncInventory" => \E x \in Nat : Gathered(P, x)

\* A gate that waits for a request delivers, and a gate that looks at the VM has looked.
LEMMA GateCuts ==
    ASSUME NEW P, IsProgram(P), NEW x \in Nat, NEW E
    PROVE  /\ Ordered(P, x, E) => Delivery(P, x, E, {i \in Nat : i > x})
           /\ Gate(P, x) /\ P[x].do = "lookup" => Looked(P, {i \in Nat : i > x})
<1>1. Len(P) \in Nat /\ \A i \in 1..Len(P) : P[i].ok \in Nat \ {0} /\ P[i].err \in Nat
    BY DEF IsProgram, IsStep
<1> DEFINE D == {i \in Nat : i > x}
<1>2. ASSUME Gate(P, x), NEW i \in 1..Len(P) \ D
      PROVE  (P[i].err > 0 => i + P[i].err \notin D) /\ (i = x \/ i + P[i].ok \notin D)
    <2>1. CASE i = x
        BY <1>2, <2>1 DEF Gate
    <2>2. CASE i # x
        <3>1. i \in 1..x - 1
            BY <1>1, <1>2, <2>2
        <3>2. i + P[i].ok <= x /\ i + P[i].err <= x
            BY <1>2, <3>1 DEF Gate
        <3> QED BY <3>2
    <2> QED BY <2>1, <2>2
<1>3. ASSUME Ordered(P, x, E) PROVE Delivery(P, x, E, D)
    <2>1. x \in 2..Len(P) /\ Gate(P, x - 1) /\ Gate(P, x)
        BY <1>3 DEF Ordered
    <2>2. ASSUME NEW i \in 1..Len(P)
          PROVE  (i # x - 1 => i + P[i].ok # x) /\ (P[i].err > 0 => i + P[i].err # x)
        <3>1. CASE i \in 1..x - 2
            <4>1. i + P[i].ok <= x - 1 /\ i + P[i].err <= x - 1
                BY <2>1, <3>1 DEF Gate
            <4> QED BY <1>1, <2>1, <3>1, <4>1
        <3>2. CASE i = x - 1
            BY <2>1, <3>2 DEF Gate
        <3>3. CASE i >= x
            BY <1>1, <2>1, <3>3
        <3> QED BY <2>1, <3>1, <3>2, <3>3
    <2>3. 1 \notin D /\ \A i \in Nat : i > Len(P) => i \in D
        BY <2>1, <1>1
    <2> HIDE DEF D
    <2> QED BY <1>2, <1>3, <2>1, <2>2, <2>3 DEF Delivery, Ordered
<1>4. ASSUME Gate(P, x), P[x].do = "lookup" PROVE Looked(P, D)
    <2>1. 1 \notin D /\ \A i \in Nat : i > Len(P) => i \in D
        BY <1>4, <1>1 DEF Gate
    <2> HIDE DEF D
    <2> QED BY <1>2, <1>4, <2>1 DEF Looked
<1> QED BY <1>3, <1>4

\* What is ordered stays so when something is put behind it or in front of it.
LEMMA OrderedCat ==
    ASSUME NEW P, NEW Q, IsProgram(P), IsProgram(Q), NEW w \in Nat, NEW E
    PROVE  /\ Ordered(P, w, E) => Ordered(P \o Q, w, E)
           /\ Contained(P) /\ Ordered(Q, w, E) => Ordered(P \o Q, Len(P) + w, E)
<1> DEFINE R == P \o Q
<1>1. /\ Len(R) = Len(P) + Len(Q)
      /\ \A i \in 1..Len(P) : R[i] = P[i]
      /\ \A i \in 1..Len(Q) : R[Len(P) + i] = Q[i]
    BY Cat
<1>2. Len(P) \in Nat /\ Len(Q) \in Nat
    BY DEF IsProgram
<1>3. ASSUME Ordered(P, w, E) PROVE Ordered(R, w, E)
    <2>1. w \in 2..Len(P) /\ w - 1 \in 1..Len(P) /\ w \in 1..Len(P) /\ Gate(P, w - 1) /\ Gate(P, w) /\ w - 1 \in Nat
        BY <1>2, <1>3 DEF Ordered
    <2>2. Gate(R, w - 1) /\ Gate(R, w)
        BY <2>1, GateCat
    <2>3. w \in 2..Len(R) /\ R[w] = P[w] /\ R[w - 1] = P[w - 1]
        BY <1>1, <1>2, <2>1
    <2> HIDE DEF R
    <2> QED BY <1>3, <2>2, <2>3 DEF Ordered
<1>4. ASSUME Contained(P), Ordered(Q, w, E) PROVE Ordered(R, Len(P) + w, E)
    <2>1. w \in 2..Len(Q) /\ w - 1 \in 1..Len(Q) /\ w \in 1..Len(Q) /\ Gate(Q, w - 1) /\ Gate(Q, w) /\ w - 1 \in Nat
        BY <1>2, <1>4 DEF Ordered
    <2>2. Gate(R, Len(P) + (w - 1)) /\ Gate(R, Len(P) + w)
        BY <1>4, <2>1, GateCat
    <2>3. Len(P) + w \in 2..Len(R) /\ R[Len(P) + w] = Q[w] /\ R[Len(P) + (w - 1)] = Q[w - 1]
        BY <1>1, <1>2, <2>1
    <2>4. Len(P) + (w - 1) = Len(P) + w - 1
        BY <1>2, <2>1
    <2> HIDE DEF R
    <2> QED BY <1>4, <2>2, <2>3, <2>4 DEF Ordered
<1> QED BY <1>3, <1>4

\* A program that makes no VM, or one that does so at m, within a longer one.
LEMMA MakerCat ==
    ASSUME NEW pr, NEW P, NEW Q, IsProgram(P), IsProgram(Q), NEW m \in Nat
    PROVE  /\ Quiet(P) => Maker(pr, P, 0)
           /\ Maker(pr, P, 0) /\ Maker(pr, Q, 0) => Maker(pr, P \o Q, 0)
           /\ Maker(pr, P, m) /\ m \in 1..Len(P) /\ Quiet(Q) => Maker(pr, P \o Q, m)
           /\ Quiet(P) /\ Contained(P) /\ Maker(pr, Q, m) /\ m \in 1..Len(Q) => Maker(pr, P \o Q, Len(P) + m)
<1> DEFINE R == P \o Q
<1>1. /\ Len(R) = Len(P) + Len(Q)
      /\ \A i \in 1..Len(P) : R[i] = P[i]
      /\ \A i \in 1..Len(Q) : R[Len(P) + i] = Q[i]
      /\ \A i \in 1..Len(R) : (i \in 1..Len(P) /\ R[i] = P[i]) \/ \E j \in 1..Len(Q) : i = Len(P) + j /\ R[i] = Q[j]
    BY Cat
<1>2. Len(P) \in Nat /\ Len(Q) \in Nat
    BY DEF IsProgram
<1>3. ASSUME Quiet(P) PROVE Maker(pr, P, 0)
    BY <1>2, <1>3 DEF Quiet, Maker
<1>4. ASSUME Maker(pr, P, 0), Maker(pr, Q, 0) PROVE Maker(pr, R, 0)
    <2>1. \A i \in 1..Len(P) : ~(P[i].do = "send" /\ EffectOf(P[i].arg) = "new") /\ P[i].do # "allocate"
        BY <1>2, <1>4 DEF Maker
    <2>2. \A i \in 1..Len(Q) : ~(Q[i].do = "send" /\ EffectOf(Q[i].arg) = "new") /\ Q[i].do # "allocate"
        BY <1>2, <1>4 DEF Maker
    <2>3. \A i \in 1..Len(R) : ~(R[i].do = "send" /\ EffectOf(R[i].arg) = "new") /\ R[i].do # "allocate"
        BY <1>1, <2>1, <2>2
    <2> HIDE DEF R
    <2> QED BY <2>3 DEF Maker
<1>5. ASSUME Maker(pr, P, m), m \in 1..Len(P), Quiet(Q) PROVE Maker(pr, R, m)
    <2>1. m \in 1..Len(R) /\ R[m] = P[m] /\ (m > 1 => R[m - 1] = P[m - 1])
        BY <1>1, <1>2, <1>5
    <2>2. \A i \in 1..Len(Q) : Q[i].do \notin {"send", "allocate"}
        BY <1>5 DEF Quiet
    <2>3. \A i \in 1..Len(R) : /\ R[i].do = "send" /\ EffectOf(R[i].arg) = "new" => i = m
                               /\ R[i].do = "allocate" => i < m
        BY <1>1, <1>5, <2>2 DEF Maker
    <2>4. pr = "proxmox" => Gate(R, m - 1)
        <3> HIDE DEF R
        <3>1. pr = "proxmox" => Gate(P, m - 1) /\ m - 1 \in Nat
            BY <1>5 DEF Maker
        <3> QED BY <3>1, GateCat DEF R
    <2> HIDE DEF R
    <2> QED BY <1>5, <2>1, <2>3, <2>4 DEF Maker
<1>6. ASSUME Quiet(P), Contained(P), Maker(pr, Q, m), m \in 1..Len(Q) PROVE Maker(pr, R, Len(P) + m)
    <2>1. Len(P) + m \in 1..Len(R) /\ R[Len(P) + m] = Q[m] /\ (m > 1 => R[Len(P) + m - 1] = Q[m - 1])
        <3>1. m > 1 => m - 1 \in 1..Len(Q) /\ Len(P) + m - 1 = Len(P) + (m - 1)
            BY <1>2, <1>6
        <3> HIDE DEF R
        <3> QED BY <1>1, <1>2, <1>6, <3>1
    <2>2. \A i \in 1..Len(P) : P[i].do \notin {"send", "allocate"}
        BY <1>6 DEF Quiet
    <2>3. \A i \in 1..Len(R) : /\ R[i].do = "send" /\ EffectOf(R[i].arg) = "new" => i = Len(P) + m
                               /\ R[i].do = "allocate" => i < Len(P) + m
        <3> HIDE DEF R
        <3> SUFFICES ASSUME NEW i \in 1..Len(R)
                     PROVE  /\ R[i].do = "send" /\ EffectOf(R[i].arg) = "new" => i = Len(P) + m
                            /\ R[i].do = "allocate" => i < Len(P) + m
            OBVIOUS
        <3>1. CASE i \in 1..Len(P) /\ R[i] = P[i]
            BY <2>2, <3>1
        <3>2. ASSUME NEW j \in 1..Len(Q), i = Len(P) + j, R[i] = Q[j]
              PROVE  /\ R[i].do = "send" /\ EffectOf(R[i].arg) = "new" => i = Len(P) + m
                     /\ R[i].do = "allocate" => i < Len(P) + m
            <4>1. Q[j].do = "send" /\ EffectOf(Q[j].arg) = "new" => j = m
                BY <1>6 DEF Maker
            <4>2. Q[j].do = "allocate" => j < m
                BY <1>6 DEF Maker
            <4> QED BY <3>2, <4>1, <4>2, <1>2
        <3> QED BY <1>1, <3>1, <3>2
    <2>4. pr = "proxmox" => Gate(R, Len(P) + m - 1)
        <3> HIDE DEF R
        <3>1. pr = "proxmox" => Gate(Q, m - 1) /\ m - 1 \in Nat /\ Len(P) + (m - 1) = Len(P) + m - 1
            BY <1>2, <1>6 DEF Maker
        <3>2. ASSUME pr = "proxmox" PROVE Gate(R, Len(P) + (m - 1))
            BY <1>6, <3>1, <3>2, GateCat DEF R
        <3> QED BY <3>1, <3>2
    <2> HIDE DEF R
    <2>5. pr = "proxmox" => Len(P) + m > 1 /\ R[Len(P) + m - 1].do = "allocate" /\ R[Len(P) + m - 1].ok = 1
        BY <1>2, <1>6, <2>1 DEF Maker
    <2>6. /\ pr = "nutanix" => R[Len(P) + m].retry \in {"once", "operation"}
          /\ pr \in {"vmware", "esxi"} => R[Len(P) + m].retry = "once"
        BY <1>6, <2>1 DEF Maker
    <2> QED BY <2>3, <2>4, <2>5, <2>6 DEF Maker
<1> QED BY <1>3, <1>4, <1>5, <1>6

\* Parts that only read can be put together and tolerated.
LEMMA CalmCat == ASSUME NEW P, NEW Q, Calm(P), Calm(Q) PROVE Calm(P \o Q)
BY Cat, CatKeeps DEF Calm

\* What only reads still only reads when its errors are ignored.
LEMMA CalmTolerant == ASSUME NEW P, Calm(P) PROVE Calm(Tolerant(P))
BY TolerantKeeps DEF Calm, Quiet

\* A ping that fails disconnects; all four steps only read.
LEMMA CalmPing ==
    ASSUME NEW e, NEW v, NEW c, NEW f, IsPlain(e), IsPlain(v), IsPlain(c), IsPlain(f),
           {e.do, v.do, c.do, f.do} \cap {"send", "guest", "allocate"} = {}
    PROVE  Calm(<<e, [v EXCEPT !.ok = 3, !.err = 1], c, f>>)
<1> DEFINE u == [v EXCEPT !.ok = 3, !.err = 1]
<1>1. IsStep(u) /\ u.ok = 3 /\ u.err = 1 /\ u.do = v.do
    <2>1. v = [do |-> v.do, arg |-> v.arg, code |-> v.code, special |-> v.special, retry |-> v.retry,
               ok |-> v.ok, err |-> v.err]
        BY DEF IsPlain, IsStep
    <2> DEFINE t == [v EXCEPT !.ok = 3]
    <2>2. t = [do |-> v.do, arg |-> v.arg, code |-> v.code, special |-> v.special, retry |-> v.retry,
               ok |-> 3, err |-> v.err]
        BY <2>1
    <2>3. u = [t EXCEPT !.err = 1]
        BY <2>1
    <2> HIDE DEF t, u
    <2>4. u = [do |-> v.do, arg |-> v.arg, code |-> v.code, special |-> v.special, retry |-> v.retry,
               ok |-> 3, err |-> 1]
        BY <2>2, <2>3
    <2> QED BY <2>4 DEF IsPlain, IsStep
<1> HIDE DEF u
<1> DEFINE P == <<e, u, c, f>>
<1>2. Len(P) = 4 /\ P = [i \in 1..4 |-> P[i]] /\ P[1] = e /\ P[2] = u /\ P[3] = c /\ P[4] = f
    OBVIOUS
<1> HIDE DEF P
<1>3. \A i \in 1..4 : i = 1 \/ i = 2 \/ i = 3 \/ i = 4
    OBVIOUS
<1>4. IsProgram(P) /\ Contained(P)
    BY <1>1, <1>2, <1>3 DEF IsProgram, Contained, IsPlain
<1>5. Quiet(P)
    BY <1>1, <1>2, <1>3 DEF Quiet
<1> QED BY <1>4, <1>5 DEF Calm, P, u

\* What is fetched before other steps is still fetched once.
LEMMA GatheredCat ==
    ASSUME NEW P, NEW Q, IsProgram(P), IsProgram(Q), NEW x \in Nat, Gathered(P, x), \A i \in 1..Len(Q) : Q[i].do # "gather"
    PROVE  Gathered(P \o Q, x)
<1>1. x \in 1..Len(P)
    BY DEF Gathered, Gate
<1>2. Gate(P \o Q, x)
    BY GateCat DEF Gathered
<1>3. (P \o Q)[x] = P[x]
    BY <1>1, Cat
<1>4. \A i \in 1..Len(P \o Q) : (P \o Q)[i].do = "gather" => i = x
    BY Cat DEF Gathered
<1> QED BY <1>2, <1>3, <1>4 DEF Gathered

\* A program that reads a VM without asking for anything.
Reading(P) == Calm(P) /\ \E x \in Nat : Gate(P, x) /\ P[x].do = "lookup"

\* A program that has a VM made, behind which nothing more is asked for.
Making(pr, P) == /\ IsProgram(P) /\ Contained(P) /\ Sends(P, {"new"})
                 /\ \E w \in Nat : Ordered(P, w, {"new"}) /\ Maker(pr, P, w - 1)

\* A program that reads a VM may go on, or begin, with other reads.
LEMMA ReadingCat ==
    ASSUME NEW P, NEW Q, Calm(P), Calm(Q)
    PROVE  (Reading(P) => Reading(P \o Q)) /\ (Reading(Q) => Reading(P \o Q))
<1>1. Calm(P \o Q) /\ IsProgram(P) /\ IsProgram(Q) /\ Contained(P) /\ Len(P) \in Nat
    BY CalmCat DEF Calm, IsProgram
<1>2. ASSUME NEW x \in Nat, Gate(P, x), P[x].do = "lookup" PROVE Gate(P \o Q, x) /\ (P \o Q)[x].do = "lookup"
    <2>1. x \in 1..Len(P)
        BY <1>2 DEF Gate
    <2>2. (P \o Q)[x] = P[x]
        BY <1>1, <2>1, Cat
    <2> QED BY <1>1, <1>2, <2>2, GateCat
<1>3. ASSUME NEW x \in Nat, Gate(Q, x), Q[x].do = "lookup"
      PROVE  Len(P) + x \in Nat /\ Gate(P \o Q, Len(P) + x) /\ (P \o Q)[Len(P) + x].do = "lookup"
    <2>1. x \in 1..Len(Q)
        BY <1>3 DEF Gate
    <2>2. (P \o Q)[Len(P) + x] = Q[x]
        BY <1>1, <2>1, Cat
    <2>3. Gate(P \o Q, Len(P) + x)
        BY <1>1, <1>3, GateCat
    <2> QED BY <1>1, <1>3, <2>2, <2>3
<1> QED BY <1>1, <1>2, <1>3 DEF Reading

\* A program that only reads, that reads a VM, or that fetches the inventory.
LEMMA QuietSound ==
    ASSUME NEW pr, NEW P, IsProgram(P), Quiet(P)
    PROVE  /\ \A o \in Port!Reads \ {"GetVM", "SyncInventory"} : Sound(pr, o, P)
           /\ Reading(P) => Sound(pr, "GetVM", P)
           /\ \A x \in Nat : Gathered(P, x) => Sound(pr, "SyncInventory", P)
<1>1. Maker(pr, P, 0)
    BY MakerCat
<1>2. \A i \in 1..Len(P) : P[i].do # "send" /\ P[i].do # "guest"
    BY DEF Quiet
<1>3. \A o \in Port!Reads : o \in Port!Op /\ o \notin DOMAIN Port!May /\ (o \in VMAnswers => o = "GetVM")
    BY DEF Port!Op, Port!Reads, Port!May, VMAnswers
<1>4. ASSUME NEW o \in Port!Reads, o = "GetVM" => \E D \in SUBSET Nat : Looked(P, D),
             o = "SyncInventory" => \E x \in Nat : Gathered(P, x)
      PROVE  Sound(pr, o, P)
    BY <1>1, <1>2, <1>3, <1>4 DEF Sound
<1>5. ASSUME Reading(P) PROVE \E D \in SUBSET Nat : Looked(P, D)
    <2>1. PICK x \in Nat : Gate(P, x) /\ P[x].do = "lookup"
        BY <1>5 DEF Reading
    <2>2. Looked(P, {i \in Nat : i > x})
        BY <2>1, GateCuts
    <2> QED BY <2>2
<1>6. "GetVM" \in Port!Reads /\ "SyncInventory" \in Port!Reads
    BY DEF Port!Reads
<1> QED BY <1>4, <1>5, <1>6

\* What programs are sent by is sent by a longer one.
LEMMA SendsCat ==
    ASSUME NEW P, NEW Q, NEW E, NEW F, IsProgram(P), IsProgram(Q)
    PROVE  /\ Sends(P, E) /\ E \subseteq F => Sends(P, F)
           /\ Calm(P) => Sends(P, E)
           /\ Sends(P, E) /\ Sends(Q, E) => Sends(P \o Q, E)
<1>1. Sends(P, E) /\ E \subseteq F => Sends(P, F)
    BY DEF Sends
<1>2. Calm(P) => Sends(P, E)
    BY DEF Sends, Calm, Quiet
<1> QED BY <1>1, <1>2, CatKeeps

\* A program that sends what its operation is for and waits for it.
LEMMA SendSound ==
    ASSUME NEW pr, NEW P, IsProgram(P), NEW o \in DOMAIN Port!May, o \notin VMAnswers,
           Sends(P, Port!May[o]), NEW w \in Nat, Ordered(P, w, Port!Promised(o)), Maker(pr, P, 0)
    PROVE  Sound(pr, o, P)
<1>1. \A i \in 1..Len(P) : P[i].do # "guest" /\ (P[i].do = "send" => EffectOf(P[i].arg) \in Port!May[o])
    BY DEF Sends
<1>2. o \in Port!Op /\ o # "SyncInventory"
    BY DEF Port!Op, Port!Reads, Port!May
<1>3. Delivery(P, w, Port!Promised(o), {i \in Nat : i > w})
    BY GateCuts
<1> QED BY <1>1, <1>2, <1>3 DEF Sound

\* A list of plain steps in which one request is sent and waited for at the end.
LEMMA RequestList ==
    ASSUME NEW pr, NEW S, \A s \in S : IsPlain(s) /\ s.do \notin {"send", "guest", "allocate"},
           NEW r, IsPlain(r), r.do = "send", NEW P \in Seq(S \cup {r}), NEW n \in Nat \ {0, 1}, Len(P) = n,
           P[n - 1] = r, P[n].do = "wait"
    PROVE  /\ IsProgram(P) /\ Contained(P) /\ Sends(P, {EffectOf(r.arg)}) /\ Ordered(P, n, {EffectOf(r.arg)})
           /\ EffectOf(r.arg) # "new" => Maker(pr, P, 0)
<1> DEFINE T == S \cup {r}
<1>1. \A s \in T : IsPlain(s)
    OBVIOUS
<1>2. IsProgram(P) /\ Contained(P) /\ \A x \in 1..Len(P) : Gate(P, x)
    <2> HIDE DEF T
    <2>1. P \in Seq(T)
        BY DEF T
    <2> QED BY <1>1, <2>1, PlainList
<1>3. \A i \in 1..n : P[i] \in S \/ P[i] = r
    OBVIOUS
<1>4. \A i \in 1..n : P[i].do \notin {"guest", "allocate"} /\ (P[i].do = "send" => P[i] = r)
    BY <1>3
<1>5. n \in 2..Len(P) /\ n - 1 \in 1..Len(P) /\ n \in 1..Len(P)
    OBVIOUS
<1>6. Ordered(P, n, {EffectOf(r.arg)})
    BY <1>2, <1>5 DEF Ordered
<1> QED BY <1>2, <1>4, <1>6 DEF Sends, Maker

\* A deletion: a VM that runs is switched off first, if that is possible, and then deleted.
LEMMA DeleteSound ==
    ASSUME NEW pr, NEW A, NEW B, NEW Q, Calm(A),
           IsProgram(B), Contained(B), Sends(B, {"off"}), Maker(pr, B, 0),
           IsProgram(Q), Sends(Q, {"absent"}), Ordered(Q, 2, {"absent"}), Maker(pr, Q, 0)
    PROVE  Sound(pr, "DeleteVM", A \o Tolerant(B) \o Q)
<1> DEFINE T == Tolerant(B)  L == A \o T
<1>1. /\ IsProgram(T) /\ Contained(T) /\ Len(T) = Len(B) /\ Len(B) \in Nat
      /\ \A i \in 1..Len(B) : T[i].do = B[i].do /\ T[i].arg = B[i].arg
    BY TolerantKeeps DEF IsProgram
<1>2. Sends(T, {"off"}) /\ Maker(pr, T, 0)
    <2> HIDE DEF T
    <2>1. \A i \in 1..Len(B) : ~(B[i].do = "send" /\ EffectOf(B[i].arg) = "new") /\ B[i].do # "allocate"
        BY <1>1 DEF Maker
    <2> QED BY <1>1, <2>1 DEF Sends, Maker
<1> HIDE DEF T
<1>3. IsProgram(L) /\ Contained(L) /\ Sends(L, {"off"}) /\ Maker(pr, L, 0) /\ Len(L) \in Nat
    <2>1. IsProgram(A) /\ Contained(A) /\ Sends(A, {"off"}) /\ Maker(pr, A, 0)
        BY SendsCat, MakerCat DEF Calm
    <2>2. IsProgram(L) /\ Contained(L) /\ Sends(L, {"off"})
        BY <1>1, <1>2, <2>1, Cat, CatKeeps
    <2>3. Maker(pr, L, 0)
        BY <1>1, <1>2, <2>1, MakerCat
    <2> QED BY <2>2, <2>3 DEF IsProgram
<1> HIDE DEF L
<1>4. IsProgram(L \o Q) /\ Ordered(L \o Q, Len(L) + 2, {"absent"}) /\ Maker(pr, L \o Q, 0)
    BY <1>3, Cat, OrderedCat, MakerCat
<1>5. Sends(L \o Q, {"off", "absent"})
    <2>1. {"off"} \subseteq {"off", "absent"} /\ {"absent"} \subseteq {"off", "absent"}
        OBVIOUS
    <2>2. Sends(L, {"off", "absent"}) /\ Sends(Q, {"off", "absent"})
        BY <1>3, <2>1 DEF Sends
    <2> QED BY <1>3, <2>2, SendsCat
<1>6. /\ "DeleteVM" \in DOMAIN Port!May /\ Port!May["DeleteVM"] = {"off", "absent"} /\ "DeleteVM" \notin VMAnswers
      /\ Port!Promised("DeleteVM") = {"absent"}
    BY DEF Port!May, Port!Promised, VMAnswers
<1> DEFINE w == Len(L) + 2
<1>7. w \in Nat /\ Ordered(L \o Q, w, {"absent"})
    BY <1>3, <1>4
<1> HIDE DEF w
<1>8. Sound(pr, "DeleteVM", L \o Q)
    BY <1>4, <1>5, <1>6, <1>7, SendSound
<1> QED BY <1>8 DEF L, T

\* A program that makes a VM and then reads it.
LEMMA MakeSound ==
    ASSUME NEW pr, NEW P, NEW Q, Making(pr, P), Reading(Q), NEW o \in {"CreateVM", "CloneVM", "CloneLinked"}
    PROVE  Sound(pr, o, P \o Q)
<1> DEFINE R == P \o Q
<1>1. IsProgram(P) /\ IsProgram(Q) /\ Contained(P) /\ Sends(P, {"new"}) /\ Quiet(Q) /\ Len(P) \in Nat
    BY DEF Making, Reading, Calm, IsProgram
<1>2. PICK w \in Nat : Ordered(P, w, {"new"}) /\ Maker(pr, P, w - 1)
    BY DEF Making
<1>3. PICK x \in Nat : Gate(Q, x) /\ Q[x].do = "lookup"
    BY DEF Reading
<1>4. IsProgram(R) /\ R[Len(P) + x] = Q[x]
    <2>1. x \in 1..Len(Q)
        BY <1>3 DEF Gate
    <2> QED BY <1>1, <2>1, Cat
<1>5. Ordered(R, w, {"new"}) /\ Gate(R, Len(P) + x) /\ Len(P) + x \in Nat
    BY <1>1, <1>2, <1>3, OrderedCat, GateCat
<1>6. Maker(pr, R, w - 1)
    <2>1. w - 1 \in 1..Len(P) /\ w - 1 \in Nat
        BY <1>1, <1>2 DEF Ordered
    <2> QED BY <1>1, <1>2, <2>1, MakerCat
<1>7. Sends(R, {"new"})
    <2>1. Sends(Q, {"new"})
        BY <1>1 DEF Sends, Quiet
    <2> QED BY <1>1, <2>1, CatKeeps
<1> HIDE DEF R
<1>8. Delivery(R, w, {"new"}, {i \in Nat : i > w})
    BY <1>4, <1>5, GateCuts
<1>9. Looked(R, {i \in Nat : i > Len(P) + x})
    <2>1. R[Len(P) + x].do = "lookup"
        BY <1>3, <1>4
    <2> DEFINE z == Len(P) + x
    <2>2. Gate(R, z) /\ z \in Nat /\ R[z].do = "lookup"
        BY <1>5, <2>1
    <2> HIDE DEF z
    <2>3. Looked(R, {i \in Nat : i > z})
        BY <1>4, <2>2, GateCuts
    <2> QED BY <2>3 DEF z
<1>10. /\ o \in Port!Op /\ o \in DOMAIN Port!May /\ o # "SyncInventory"
       /\ Port!Promised(o) = {"new"} /\ "new" \in Port!May[o]
    BY DEF Port!Op, Port!May, Port!Promised
<1>11. \A i \in 1..Len(R) : R[i].do # "guest" /\ (R[i].do = "send" => EffectOf(R[i].arg) \in Port!May[o])
    BY <1>7, <1>10 DEF Sends
<1>12. w - 1 \in Nat
    BY <1>2 DEF Ordered
<1>13. \E D \in SUBSET Nat : Delivery(R, w, Port!Promised(o), D)
    BY <1>8, <1>10
<1>14. \E D \in SUBSET Nat : Looked(R, D)
    BY <1>9
<1>15. Sound(pr, o, R)
    BY <1>4, <1>6, <1>10, <1>11, <1>12, <1>13, <1>14 DEF Sound
<1> QED BY <1>15 DEF R

\* A list of plain steps in which one request for a new VM is sent and waited for (not by Proxmox).
LEMMA MakeList ==
    ASSUME NEW pr, NEW S, \A s \in S : IsPlain(s) /\ s.do \notin {"send", "guest", "allocate"},
           NEW r, IsPlain(r), r.do = "send", EffectOf(r.arg) = "new", pr # "proxmox",
           r.retry = "once" \/ (pr = "nutanix" /\ r.retry = "operation"),
           NEW P \in Seq(S \cup {r}), NEW n \in 2..Len(P), P[n - 1] = r, P[n].do = "wait",
           \A i \in 1..Len(P) : i # n - 1 => P[i] \in S
    PROVE  Making(pr, P)
<1> DEFINE T == S \cup {r}
<1>1. \A s \in T : IsPlain(s)
    OBVIOUS
<1>2. IsProgram(P) /\ Contained(P) /\ (\A x \in 1..Len(P) : Gate(P, x)) /\ Len(P) \in Nat
    <2> HIDE DEF T
    <2>1. P \in Seq(T)
        BY DEF T
    <2> QED BY <1>1, <2>1, PlainList
<1>3. \A i \in 1..Len(P) : i # n - 1 => P[i].do \notin {"send", "guest", "allocate"}
    OBVIOUS
<1>4. n - 1 \in 1..Len(P) /\ n \in 1..Len(P) /\ n \in Nat
    BY <1>2
<1>5. Sends(P, {"new"})
    <2>1. \A i \in 1..Len(P) : P[i].do # "guest" /\ (P[i].do = "send" => P[i] = r)
        BY <1>3
    <2> QED BY <2>1 DEF Sends
<1>6. Ordered(P, n, {"new"})
    BY <1>2, <1>4 DEF Ordered
<1>7. Maker(pr, P, n - 1)
    <2>1. \A i \in 1..Len(P) : P[i].do # "allocate" /\ (P[i].do = "send" => i = n - 1)
        BY <1>3
    <2> QED BY <2>1 DEF Maker
<1> QED BY <1>2, <1>4, <1>5, <1>6, <1>7 DEF Making

\* Reads may come before.
LEMMA MakingCat == ASSUME NEW pr, NEW P, NEW Q, Calm(P), Making(pr, Q) PROVE Making(pr, P \o Q)
<1>1. /\ IsProgram(P) /\ Contained(P) /\ Quiet(P) /\ IsProgram(Q) /\ Contained(Q) /\ Sends(Q, {"new"})
      /\ Len(P) \in Nat /\ Len(Q) \in Nat
    BY DEF Calm, Making, IsProgram
<1>2. PICK w \in Nat : Ordered(Q, w, {"new"}) /\ Maker(pr, Q, w - 1)
    BY DEF Making
<1>3. IsProgram(P \o Q) /\ Contained(P \o Q) /\ Ordered(P \o Q, Len(P) + w, {"new"})
    BY <1>1, <1>2, Cat, CatKeeps, OrderedCat
<1>4. Sends(P \o Q, {"new"})
    <2>1. Sends(P, {"new"})
        BY SendsCat, <1>1
    <2> QED BY <1>1, <2>1, SendsCat
<1>5. Maker(pr, P \o Q, Len(P) + w - 1)
    <2>1. w - 1 \in 1..Len(Q) /\ w - 1 \in Nat
        BY <1>1, <1>2 DEF Ordered
    <2>2. Maker(pr, P \o Q, Len(P) + (w - 1))
        BY <1>1, <1>2, <2>1, MakerCat
    <2>3. Len(P) + (w - 1) = Len(P) + w - 1
        BY <1>1, <1>2
    <2> QED BY <2>2, <2>3
<1>6. Len(P) + w \in Nat
    BY <1>1, <1>2
<1> QED BY <1>3, <1>4, <1>5, <1>6 DEF Making

----------------------------------------------------------------------------
(* The operations of Proxmox *)

\* The plain steps of the provider that ask for nothing.
ProxmoxQuiet ==
    {PX!EnsureConnected, PX!parseProviderVMID, PX!resolveToken, PX!ListNodes, PX!GetVMStatus, PX!GetVMConfig,
     PX!ClientListSnapshots, PX!ListStorage, PX!ClientListNetworks, PX!GetVMRRDData, PX!waitForTask,
     PX!Step("connected", TRUE, "INTERNAL"), PX!Step("connected", FALSE, "INTERNAL"),
     PX!Step("adopt", "", "INTERNAL"), PX!Step("onlyIf", {"running"}, "INTERNAL"), PX!Read("INTERNAL"),
     PX!Found("NOT_FOUND"), PX!Step("gather", [vms |-> PX!ListClusterResources], "INTERNAL"),
     PX!With(PX!Retried(PX!GetVersion, "connect"), [auth |-> "AUTH_FAILED"]),
     PX!With(PX!GetVMStatus, [notFound |-> "NOT_FOUND"]), PX!With(PX!VNCProxy, [notFound |-> "NOT_FOUND"])}

\* The steps of the Proxmox provider that ask for nothing but an answer.
LEMMA ProxmoxQuietSteps == \A s \in ProxmoxQuiet : IsPlain(s) /\ s.do \notin {"send", "guest", "allocate"}
<1> DEFINE Q(s) == IsPlain(s) /\ s.do \notin {"send", "guest", "allocate"}
<1>1. Q(PX!EnsureConnected) /\ Q(PX!parseProviderVMID) /\ Q(PX!resolveToken) /\ Q(PX!waitForTask)
    BY DEF IsPlain, IsStep, ErrorCode, PX!EnsureConnected, PX!parseProviderVMID, PX!resolveToken, PX!waitForTask,
           PX!Wait, PX!Step
<1>2. /\ Q(PX!ListNodes) /\ Q(PX!GetVMConfig) /\ Q(PX!ClientListSnapshots) /\ Q(PX!ListStorage)
      /\ Q(PX!ClientListNetworks) /\ Q(PX!GetVMRRDData) /\ Q(PX!Read("INTERNAL")) /\ Q(PX!GetVersion)
    BY DEF IsPlain, IsStep, ErrorCode, PX!ListNodes, PX!GetVMConfig, PX!ClientListSnapshots, PX!ListStorage,
           PX!ClientListNetworks, PX!GetVMRRDData, PX!GetVersion, PX!Read, PX!Step
<1>3. /\ Q(PX!Step("connected", TRUE, "INTERNAL")) /\ Q(PX!Step("connected", FALSE, "INTERNAL"))
      /\ Q(PX!Step("adopt", "", "INTERNAL")) /\ Q(PX!Step("onlyIf", {"running"}, "INTERNAL"))
      /\ Q(PX!Found("NOT_FOUND")) /\ Q(PX!Step("gather", [vms |-> PX!ListClusterResources], "INTERNAL"))
    BY DEF IsPlain, IsStep, ErrorCode, PX!Found, PX!Step
<1>4. Q(PX!GetVMStatus) /\ Q(PX!VNCProxy)
    BY DEF IsPlain, IsStep, ErrorCode, PX!GetVMStatus, PX!VNCProxy, PX!Lookup, PX!Step
<1>5. /\ Q(PX!With(PX!Retried(PX!GetVersion, "connect"), [auth |-> "AUTH_FAILED"]))
      /\ Q(PX!With(PX!GetVMStatus, [notFound |-> "NOT_FOUND"]))
      /\ Q(PX!With(PX!VNCProxy, [notFound |-> "NOT_FOUND"]))
    BY <1>2, <1>4, PlainWith, SameSteps DEF ErrorCode
<1> QED BY <1>1, <1>2, <1>3, <1>4, <1>5 DEF ProxmoxQuiet

\* Lists of such steps, also tolerant ones, only read.
LEMMA ProxmoxLists ==
    ASSUME NEW P \in Seq(ProxmoxQuiet)
    PROVE  Calm(P) /\ Calm(PX!Tolerant(P)) /\ \A x \in 1..Len(P) : Gate(P, x)
BY ProxmoxQuietSteps, PlainList, CalmTolerant, SameSteps DEF Calm

\* A request of the provider, retried or with an error code of its own.
LEMMA ProxmoxSends ==
    ASSUME NEW req
    PROVE  LET s == PX!Send(req, "INTERNAL")
           IN  /\ IsPlain(s) /\ s.do = "send" /\ s.arg = req
               /\ IsPlain(PX!Retried(s, "operation")) /\ PX!Retried(s, "operation").do = "send"
               /\ PX!Retried(s, "operation").arg = req
<1> DEFINE s == PX!Send(req, "INTERNAL")
<1>1. IsPlain(s) /\ s.do = "send" /\ s.arg = req
    BY DEF IsPlain, IsStep, ErrorCode, PX!Send, PX!Step
<1> HIDE DEF s
<1>2. IsPlain(PX!Retried(s, "operation")) /\ PX!Retried(s, "operation").do = "send" /\ PX!Retried(s, "operation").arg = req
    BY <1>1, PlainWith, SameSteps
<1> QED BY <1>1, <1>2 DEF s

\* The operations that only read.
LEMMA ProxmoxCalm ==
    /\ \A P \in {PX!Connect, PX!Disconnect, PX!Ping, PX!ListSnapshots, PX!ListVMs, PX!ListTemplates,
                 PX!GetConsoleSession} : Calm(P)
    /\ \A P \in {PX!GetVMMetrics, PX!ListDataStores, PX!ListNetworks, PX!GetDataStore, PX!GetNetwork} : Calm(P)
<1>1. \A P \in {PX!Connect, PX!Disconnect, PX!ListSnapshots, PX!ListVMs, PX!ListTemplates, PX!GetConsoleSession} : Calm(P)
    <2>1. /\ PX!Connect \in Seq(ProxmoxQuiet) /\ PX!Disconnect \in Seq(ProxmoxQuiet)
          /\ PX!ListSnapshots \in Seq(ProxmoxQuiet) /\ PX!ListVMs \in Seq(ProxmoxQuiet)
        BY DEF ProxmoxQuiet, PX!Connect, PX!Disconnect, PX!ListSnapshots, PX!ListVMs
    <2>2. PX!ListTemplates \in Seq(ProxmoxQuiet) /\ PX!GetConsoleSession \in Seq(ProxmoxQuiet)
        BY DEF ProxmoxQuiet, PX!ListTemplates, PX!GetConsoleSession
    <2> QED BY <2>1, <2>2, ProxmoxLists
<1>2. Calm(PX!Ping)
    <2>1. /\ IsPlain(PX!EnsureConnected) /\ PX!EnsureConnected.do \notin {"send", "guest", "allocate"}
          /\ IsPlain(PX!Step("connected", FALSE, "INTERNAL")) /\ PX!Step("connected", FALSE, "INTERNAL").do = "connected"
        BY DEF PX!EnsureConnected, PX!Step, IsPlain, IsStep, ErrorCode
    <2>2. /\ IsPlain(PX!GetVersion) /\ PX!GetVersion.do = "read"
          /\ IsPlain(PX!Step("fail", "", "NOT_CONNECTED")) /\ PX!Step("fail", "", "NOT_CONNECTED").do = "fail"
        BY DEF PX!GetVersion, PX!Read, PX!Step, IsPlain, IsStep, ErrorCode
    <2> QED BY <2>1, <2>2, CalmPing DEF PX!Ping
<1>3. Calm(PX!GetVMMetrics) /\ Calm(PX!ListDataStores) /\ Calm(PX!ListNetworks)
    <2>1. /\ << PX!EnsureConnected, PX!parseProviderVMID, PX!GetVMRRDData >> \in Seq(ProxmoxQuiet)
          /\ << PX!EnsureConnected, PX!ListNodes >> \in Seq(ProxmoxQuiet) /\ << PX!GetVMStatus >> \in Seq(ProxmoxQuiet)
          /\ << PX!ListStorage >> \in Seq(ProxmoxQuiet) /\ << PX!ClientListNetworks >> \in Seq(ProxmoxQuiet)
        BY DEF ProxmoxQuiet
    <2> QED BY <2>1, ProxmoxLists, CalmCat DEF PX!GetVMMetrics, PX!ListDataStores, PX!ListNetworks
<1>4. Calm(PX!GetDataStore) /\ Calm(PX!GetNetwork)
    <2>1. << PX!Found("NOT_FOUND") >> \in Seq(ProxmoxQuiet)
        BY DEF ProxmoxQuiet
    <2> QED BY <2>1, <1>3, ProxmoxLists, CalmCat DEF PX!GetDataStore, PX!GetNetwork
<1> QED BY <1>1, <1>2, <1>3, <1>4

\* GetVM of the Proxmox provider reads the VM (proxmox/provider.go).
LEMMA ProxmoxGetVM == Reading(PX!GetVM)
<1> DEFINE P == << PX!EnsureConnected, PX!parseProviderVMID, PX!With(PX!GetVMStatus, [notFound |-> "NOT_FOUND"]) >>
           Q == << PX!GetVMConfig >>
<1>1. P \in Seq(ProxmoxQuiet) /\ Q \in Seq(ProxmoxQuiet) /\ Len(P) = 3 /\ P[3] = PX!With(PX!GetVMStatus, [notFound |-> "NOT_FOUND"])
    BY DEF ProxmoxQuiet
<1>2. P[3].do = "lookup"
    <2>1. IsPlain(PX!GetVMStatus) /\ PX!GetVMStatus.do = "lookup"
        BY DEF PX!GetVMStatus, PX!Lookup, PX!Step, IsPlain, IsStep, ErrorCode
    <2> QED BY <2>1, <1>1, PlainWith, SameSteps
<1>3. PX!GetVM = P \o PX!Tolerant(Q)
    BY DEF PX!GetVM
<1> HIDE DEF P, Q
<1>4. Calm(P) /\ Calm(PX!Tolerant(Q)) /\ Gate(P, 3)
    <2>1. 3 \in 1..Len(P)
        BY <1>1
    <2> QED BY <1>1, <2>1, ProxmoxLists
<1>5. Reading(P)
    BY <1>2, <1>4 DEF Reading
<1> QED BY <1>3, <1>4, <1>5, ReadingCat

\* SyncInventory of the Proxmox provider only reads, and its second step fetches the lists.
LEMMA ProxmoxSync == Calm(PX!SyncInventory) /\ Gathered(PX!SyncInventory, 2)
<1> DEFINE g == Step("gather", [vms |-> "fatal", stores |-> "fatal", networks |-> "fatal"], "INTERNAL")
           P == << PX!EnsureConnected, g >>
           Q == << PX!ListNodes >>
<1>1. PX!SyncInventory = P \o PX!Tolerant(Q)
    BY DEF PX!SyncInventory, PX!ListClusterResources, PX!Step, Step
<1>2. /\ IsPlain(g) /\ g.do = "gather" /\ g.retry = "once" /\ "vms" \in DOMAIN g.arg /\ g.arg["vms"] = "fatal"
      /\ IsPlain(PX!EnsureConnected) /\ PX!EnsureConnected.do = "ensure"
    BY DEF PX!EnsureConnected, PX!Step, Step, IsPlain, IsStep, ErrorCode
<1> HIDE DEF g
<1>3. P \in Seq({PX!EnsureConnected, g}) /\ Len(P) = 2 /\ P[1] = PX!EnsureConnected /\ P[2] = g
    OBVIOUS
<1>4. Q \in Seq(ProxmoxQuiet) /\ Len(Q) = 1 /\ Q[1] = PX!ListNodes /\ PX!ListNodes.do = "read"
    BY DEF ProxmoxQuiet, PX!ListNodes, PX!Read, PX!Step
<1> HIDE DEF P, Q
<1>5. Calm(P) /\ Gate(P, 2)
    <2> DEFINE S == {PX!EnsureConnected, g}
    <2>1. P \in Seq(S) /\ \A s \in S : IsPlain(s) /\ s.do \notin {"send", "guest", "allocate"}
        BY <1>2, <1>3
    <2>2. 2 \in 1..Len(P)
        BY <1>3
    <2> HIDE DEF S
    <2> QED BY <2>1, <2>2, PlainList DEF Calm
<1>6. Gathered(P, 2)
    <2>1. \A i \in 1..Len(P) : i = 1 \/ i = 2
        BY <1>3
    <2> QED BY <1>2, <1>3, <1>5, <2>1 DEF Gathered
<1>7. Calm(PX!Tolerant(Q)) /\ \A i \in 1..Len(PX!Tolerant(Q)) : PX!Tolerant(Q)[i].do # "gather"
    <2>1. Calm(Q) /\ \A i \in 1..Len(Q) : i = 1
        BY <1>4, ProxmoxLists
    <2> QED BY <1>4, <2>1, CalmTolerant, TolerantKeeps, SameSteps DEF Calm
<1> QED BY <1>1, <1>5, <1>6, <1>7, CalmCat, GatheredCat DEF Calm

\* The operations that send one request and wait for its task.
LEMMA ProxmoxRequests ==
    /\ Sound("proxmox", "PowerOn", PX!PowerOn) /\ Sound("proxmox", "PowerOff", PX!PowerOff)
    /\ Sound("proxmox", "Reboot", PX!Reboot) /\ Sound("proxmox", "Suspend", PX!Suspend)
    /\ Sound("proxmox", "Reset", PX!Reset) /\ Sound("proxmox", "CreateSnapshot", PX!CreateSnapshot)
    /\ Sound("proxmox", "DeleteSnapshot", PX!DeleteSnapshot) /\ Sound("proxmox", "RevertSnapshot", PX!RevertSnapshot)
<1>1. PX!waitForTask.do = "wait"
    BY DEF PX!waitForTask, PX!Wait, PX!Step
<1>2. ASSUME NEW r, IsPlain(r), r.do = "send", NEW o \in DOMAIN Port!May, o \notin VMAnswers,
             EffectOf(r.arg) \in Port!Promised(o), EffectOf(r.arg) # "new",
             Port!Promised(o) \subseteq Port!May[o],
             NEW P, P = << PX!EnsureConnected, PX!parseProviderVMID, r, PX!waitForTask >>
      PROVE  Sound("proxmox", o, P)
    <2>1. P \in Seq(ProxmoxQuiet \cup {r}) /\ Len(P) = 4 /\ P[4 - 1] = r /\ P[4] = PX!waitForTask
        BY <1>2 DEF ProxmoxQuiet
    <2>2. /\ IsProgram(P) /\ Sends(P, {EffectOf(r.arg)}) /\ Ordered(P, 4, {EffectOf(r.arg)})
          /\ Maker("proxmox", P, 0)
        <3>1. 4 \in Nat \ {0, 1} /\ P[4].do = "wait"
            BY <1>1, <2>1
        <3> QED BY <1>2, <2>1, <3>1, ProxmoxQuietSteps, RequestList
    <2>3. Sends(P, Port!May[o]) /\ Ordered(P, 4, Port!Promised(o))
        BY <1>2, <2>2, SendsCat DEF Ordered
    <2> QED BY <1>2, <2>2, <2>3, SendSound
<1>3. ASSUME NEW a, NEW o \in DOMAIN Port!May, o \notin VMAnswers, EffectOf(a) \in Port!Promised(o),
             EffectOf(a) # "new", Port!Promised(o) \subseteq Port!May[o]
      PROVE  Sound("proxmox", o, PX!powerAction(a))
    <2> DEFINE f == [notFound |-> "NOT_FOUND", conflict |-> "INVALID_STATE"]
               s == PX!Retried(PX!VMPowerAction(a), "operation")
               r == PX!With(s, f)
    <2>1. IsPlain(s) /\ s.do = "send" /\ s.arg = a
        BY ProxmoxSends DEF PX!VMPowerAction
    <2>2. \A c \in DOMAIN f : f[c] \in ErrorCode
        BY DEF ErrorCode
    <2> HIDE DEF s, f
    <2>3. IsPlain(r) /\ r.do = "send" /\ r.arg = a
        BY <2>1, <2>2, PlainWith, SameSteps
    <2>4. PX!powerAction(a) = << PX!EnsureConnected, PX!parseProviderVMID, r, PX!waitForTask >>
        BY DEF PX!powerAction, r, s, f
    <2> HIDE DEF r
    <2> QED BY <1>2, <1>3, <2>3, <2>4
<1>4. /\ EffectOf("start") = "on" /\ EffectOf("stop") = "off" /\ EffectOf("reboot") = "booted"
      /\ EffectOf("suspend") = "suspended" /\ EffectOf("reset") = "booted" /\ EffectOf("snapshot") = "snapped"
      /\ EffectOf("unsnapshot") = "unsnapped" /\ EffectOf("revert") = "reverted"
    BY DEF EffectOf, PowerEffect
<1>5. \A o \in {"PowerOn", "PowerOff", "Reboot", "Suspend", "Reset", "CreateSnapshot", "DeleteSnapshot", "RevertSnapshot"} :
         o \in DOMAIN Port!May /\ o \notin VMAnswers /\ Port!Promised(o) = Port!May[o]
    BY DEF Port!May, VMAnswers, Port!Promised
<1>6. /\ Port!May["PowerOn"] = {"on"} /\ Port!May["PowerOff"] = {"off"} /\ Port!May["Reboot"] = {"booted", "asked"}
      /\ Port!May["Suspend"] = {"suspended"} /\ Port!May["Reset"] = {"booted"}
      /\ Port!May["CreateSnapshot"] = {"snapped"} /\ Port!May["DeleteSnapshot"] = {"unsnapped"}
      /\ Port!May["RevertSnapshot"] = {"reverted"}
    BY DEF Port!May
<1>7. /\ Sound("proxmox", "PowerOn", PX!PowerOn) /\ Sound("proxmox", "PowerOff", PX!PowerOff)
      /\ Sound("proxmox", "Reboot", PX!Reboot) /\ Sound("proxmox", "Suspend", PX!Suspend)
      /\ Sound("proxmox", "Reset", PX!Reset)
    BY <1>3, <1>4, <1>5, <1>6 DEF PX!PowerOn, PX!PowerOff, PX!Reboot, PX!Suspend, PX!Reset
<1>8. Sound("proxmox", "CreateSnapshot", PX!CreateSnapshot)
    <2> DEFINE r == PX!Retried(PX!ClientCreateSnapshot, "operation")
    <2>1. IsPlain(r) /\ r.do = "send" /\ r.arg = "snapshot"
        BY ProxmoxSends DEF PX!ClientCreateSnapshot
    <2>2. PX!CreateSnapshot = << PX!EnsureConnected, PX!parseProviderVMID, r, PX!waitForTask >>
        BY DEF PX!CreateSnapshot
    <2> HIDE DEF r
    <2> QED BY <1>2, <1>4, <1>5, <1>6, <2>1, <2>2
<1>9. ASSUME NEW s, IsPlain(s), s.do = "send"
      PROVE  LET r == PX!With(s, [notFound |-> "NOT_FOUND"]) IN IsPlain(r) /\ r.do = "send" /\ r.arg = s.arg
    <2> DEFINE f == [notFound |-> "NOT_FOUND"]
    <2>1. \A c \in DOMAIN f : f[c] \in ErrorCode
        BY DEF ErrorCode
    <2> HIDE DEF f
    <2>2. IsPlain(PX!With(s, f)) /\ PX!With(s, f).do = "send" /\ PX!With(s, f).arg = s.arg
        BY <1>9, <2>1, PlainWith, SameSteps
    <2> QED BY <2>2 DEF f
<1>10. Sound("proxmox", "DeleteSnapshot", PX!DeleteSnapshot)
    <2> DEFINE r == PX!With(PX!ClientDeleteSnapshot, [notFound |-> "NOT_FOUND"])
    <2>1. IsPlain(PX!ClientDeleteSnapshot) /\ PX!ClientDeleteSnapshot.do = "send" /\ PX!ClientDeleteSnapshot.arg = "unsnapshot"
        BY ProxmoxSends DEF PX!ClientDeleteSnapshot
    <2>2. IsPlain(r) /\ r.do = "send" /\ r.arg = "unsnapshot"
        BY <1>9, <2>1
    <2>3. PX!DeleteSnapshot = << PX!EnsureConnected, PX!parseProviderVMID, r, PX!waitForTask >>
        BY DEF PX!DeleteSnapshot
    <2> HIDE DEF r
    <2> QED BY <1>2, <1>4, <1>5, <1>6, <2>2, <2>3
<1>11. Sound("proxmox", "RevertSnapshot", PX!RevertSnapshot)
    <2> DEFINE r == PX!With(PX!RollbackSnapshot, [notFound |-> "NOT_FOUND"])
    <2>1. IsPlain(PX!RollbackSnapshot) /\ PX!RollbackSnapshot.do = "send" /\ PX!RollbackSnapshot.arg = "revert"
        BY ProxmoxSends DEF PX!RollbackSnapshot
    <2>2. IsPlain(r) /\ r.do = "send" /\ r.arg = "revert"
        BY <1>9, <2>1
    <2>3. PX!RevertSnapshot = << PX!EnsureConnected, PX!parseProviderVMID, r, PX!waitForTask >>
        BY DEF PX!RevertSnapshot
    <2> HIDE DEF r
    <2> QED BY <1>2, <1>4, <1>5, <1>6, <2>2, <2>3
<1> QED BY <1>7, <1>8, <1>10, <1>11

\* DeleteVM of the Proxmox provider stops the VM if it runs and then destroys it.
LEMMA ProxmoxDelete == Sound("proxmox", "DeleteVM", PX!DeleteVM)
<1> DEFINE A == << PX!EnsureConnected, PX!parseProviderVMID >>
           s == PX!VMPowerAction("stop")
           f == [notFound |-> "NOT_FOUND"]
           r == PX!With(PX!ClientDeleteVM, f)
           Q == << r, PX!waitForTask >>
<1>1. PX!DeleteVM = A \o Tolerant(PX!stopIfRunning) \o Q
    BY SameSteps DEF PX!DeleteVM
<1>2. A \in Seq(ProxmoxQuiet)
    BY DEF ProxmoxQuiet
<1>3. PX!stopIfRunning \in Seq(ProxmoxQuiet \cup {s}) /\ Len(PX!stopIfRunning) = 4 /\ PX!stopIfRunning[4 - 1] = s
      /\ PX!stopIfRunning[4] = PX!waitForTask
    BY DEF ProxmoxQuiet, PX!stopIfRunning
<1>4. IsPlain(s) /\ s.do = "send" /\ s.arg = "stop" /\ EffectOf("stop") = "off" /\ EffectOf("destroy") = "absent"
    BY ProxmoxSends DEF PX!VMPowerAction, EffectOf, PowerEffect
<1>5. IsPlain(PX!ClientDeleteVM) /\ PX!ClientDeleteVM.do = "send" /\ PX!ClientDeleteVM.arg = "destroy"
    BY ProxmoxSends DEF PX!ClientDeleteVM
<1>6. \A c \in DOMAIN f : f[c] \in ErrorCode
    BY DEF ErrorCode
<1>7. PX!waitForTask.do = "wait"
    BY DEF PX!waitForTask, PX!Wait, PX!Step
<1> HIDE DEF A, s, f
<1>8. IsPlain(r) /\ r.do = "send" /\ r.arg = "destroy"
    BY <1>5, <1>6, PlainWith, SameSteps
<1> HIDE DEF r
<1>9. Q \in Seq(ProxmoxQuiet \cup {r}) /\ Len(Q) = 2 /\ Q[2 - 1] = r /\ Q[2].do = "wait"
    BY <1>7 DEF ProxmoxQuiet
<1> HIDE DEF Q
<1>10. Calm(A)
    BY <1>2, ProxmoxLists
<1>11. 4 \in Nat \ {0, 1} /\ 2 \in Nat \ {0, 1} /\ PX!stopIfRunning[4].do = "wait"
    BY <1>3, <1>7
<1>12. /\ IsProgram(PX!stopIfRunning) /\ Contained(PX!stopIfRunning) /\ Sends(PX!stopIfRunning, {"off"})
       /\ Maker("proxmox", PX!stopIfRunning, 0)
    BY <1>3, <1>4, <1>11, ProxmoxQuietSteps, RequestList
<1>13. IsProgram(Q) /\ Sends(Q, {"absent"}) /\ Ordered(Q, 2, {"absent"}) /\ Maker("proxmox", Q, 0)
    BY <1>4, <1>8, <1>9, <1>11, ProxmoxQuietSteps, RequestList
<1> QED BY <1>1, <1>10, <1>12, <1>13, DeleteSound

\* A request with the ID that has just been chosen.
LEMMA ProxmoxMaking ==
    ASSUME NEW b \in ProxmoxQuiet, NEW r, IsPlain(r), r.do = "send", EffectOf(r.arg) = "new"
    PROVE  Making("proxmox", << PX!EnsureConnected, b, PX!nextVMID, r, PX!waitForTask, PX!Step("adopt", "", "INTERNAL") >>)
<1> DEFINE P == << PX!EnsureConnected, b, PX!nextVMID, r, PX!waitForTask, PX!Step("adopt", "", "INTERNAL") >>
           d == PX!Step("adopt", "", "INTERNAL")
           S == {PX!EnsureConnected, b, PX!nextVMID, r, PX!waitForTask, d}
<1>1. IsPlain(PX!nextVMID) /\ PX!nextVMID.do = "allocate"
    BY DEF PX!nextVMID, PX!Step, IsPlain, IsStep, ErrorCode
<1>2. PX!waitForTask.do = "wait"
    BY DEF PX!waitForTask, PX!Wait, PX!Step
<1>3. d \in ProxmoxQuiet /\ PX!EnsureConnected \in ProxmoxQuiet /\ PX!waitForTask \in ProxmoxQuiet
    BY DEF ProxmoxQuiet
<1>4. /\ P \in Seq(S) /\ Len(P) = 6 /\ P[1] = PX!EnsureConnected /\ P[2] = b /\ P[3] = PX!nextVMID /\ P[4] = r
      /\ P[5] = PX!waitForTask /\ P[6] = d
    OBVIOUS
<1> HIDE DEF d
<1>5. \A s \in S : IsPlain(s)
    BY <1>1, <1>3, ProxmoxQuietSteps
<1> HIDE DEF S, P
<1>6. IsProgram(P) /\ Contained(P) /\ \A x \in 1..6 : Gate(P, x)
    BY <1>4, <1>5, PlainList
<1>7. \A i \in 1..6 : \/ i = 3 /\ P[i].do = "allocate"
                      \/ i = 4 /\ P[i].do = "send" /\ EffectOf(P[i].arg) = "new"
                      \/ P[i].do \notin {"send", "guest", "allocate"}
    BY <1>1, <1>3, <1>4, ProxmoxQuietSteps, Six
<1>8. Sends(P, {"new"})
    BY <1>4, <1>7 DEF Sends
<1>9. Gate(P, 3) /\ Gate(P, 4) /\ Gate(P, 5)
    BY <1>6
<1>10. Ordered(P, 5, {"new"})
    <2>1. 5 \in 2..Len(P) /\ 5 - 1 = 4 /\ P[5].do = "wait"
        BY <1>2, <1>4
    <2> QED BY <1>4, <1>9, <2>1 DEF Ordered
<1>11. Maker("proxmox", P, 4)
    <2>1. 4 - 1 = 3 /\ P[3].do = "allocate" /\ P[3].ok = 1
        BY <1>1, <1>4 DEF IsPlain
    <2>2. \A i \in 1..Len(P) : /\ P[i].do = "send" => i = 4
                               /\ P[i].do = "allocate" => i < 4
        BY <1>4, <1>7
    <2> QED BY <1>9, <2>1, <2>2 DEF Maker
<1>12. Making("proxmox", P)
    <2>1. 5 - 1 = 4
        OBVIOUS
    <2> QED BY <1>6, <1>8, <1>10, <1>11, <2>1 DEF Making
<1> QED BY <1>12 DEF P, d

\* CreateVM and CloneVM of the Proxmox provider: an ID is chosen, then a VM is asked for under it.
LEMMA ProxmoxMakes ==
    /\ Sound("proxmox", "CreateVM", PX!CreateVM)
    /\ \A o \in {"CloneVM", "CloneLinked"} : Sound("proxmox", o, PX!CloneVM)
<1>1. EffectOf("create") = "new" /\ EffectOf("clone") = "new"
    BY DEF EffectOf, PowerEffect
<1>2. Sound("proxmox", "CreateVM", PX!CreateVM)
    <2> DEFINE r == PX!Retried(PX!ClientCreateVM, "operation")
               P == << PX!EnsureConnected, PX!pickNode, PX!nextVMID, r, PX!waitForTask, PX!Step("adopt", "", "INTERNAL") >>
    <2>1. IsPlain(r) /\ r.do = "send" /\ r.arg = "create"
        BY ProxmoxSends DEF PX!ClientCreateVM
    <2>2. PX!CreateVM = P \o PX!GetVM
        BY DEF PX!CreateVM
    <2>3. PX!pickNode \in ProxmoxQuiet
        BY DEF PX!pickNode, ProxmoxQuiet
    <2> HIDE DEF r
    <2>4. Making("proxmox", P)
        BY <1>1, <2>1, <2>3, ProxmoxMaking
    <2> HIDE DEF P
    <2> QED BY <2>2, <2>4, ProxmoxGetVM, MakeSound
<1>3. ASSUME NEW o \in {"CloneVM", "CloneLinked"} PROVE Sound("proxmox", o, PX!CloneVM)
    <2> DEFINE r == PX!Retried(PX!ClientCloneVM, "operation")
               P == << PX!EnsureConnected, PX!parseProviderVMID, PX!nextVMID, r, PX!waitForTask,
                       PX!Step("adopt", "", "INTERNAL") >>
    <2>1. IsPlain(r) /\ r.do = "send" /\ r.arg = "clone"
        BY ProxmoxSends DEF PX!ClientCloneVM
    <2>2. PX!CloneVM = P \o PX!GetVM
        BY DEF PX!CloneVM
    <2>3. PX!parseProviderVMID \in ProxmoxQuiet
        BY DEF ProxmoxQuiet
    <2> HIDE DEF r
    <2>4. Making("proxmox", P)
        BY <1>1, <2>1, <2>3, ProxmoxMaking
    <2> HIDE DEF P
    <2> QED BY <2>2, <2>4, ProxmoxGetVM, MakeSound
<1> QED BY <1>2, <1>3

\* What is asked of the step programs is true of all of Proxmox's.
LEMMA ProxmoxSound == \A o \in DOMAIN ProxmoxOps : Sound("proxmox", o, ProxmoxOps[o])
<1> DEFINE N == {"Connect", "Disconnect", "Ping", "GetVMMetrics", "ListSnapshots", "ListVMs", "ListDataStores",
                 "GetDataStore", "ListNetworks", "GetNetwork", "ListTemplates", "GetConsoleSession"}
<1>1. \A o \in N : o \in Port!Reads \ {"GetVM", "SyncInventory"}
    BY DEF Port!Reads
<1>2. \A o \in N : Calm(ProxmoxOps[o])
    BY ProxmoxCalm DEF ProxmoxOps
<1>3. \A o \in N : Sound("proxmox", o, ProxmoxOps[o])
    <2> HIDE DEF N
    <2> QED BY <1>1, <1>2, QuietSound DEF Calm
<1>4. Sound("proxmox", "GetVM", ProxmoxOps["GetVM"]) /\ Sound("proxmox", "SyncInventory", ProxmoxOps["SyncInventory"])
    <2>1. Sound("proxmox", "GetVM", PX!GetVM)
        BY ProxmoxGetVM, QuietSound DEF Reading, Calm
    <2>2. Sound("proxmox", "SyncInventory", PX!SyncInventory)
        BY ProxmoxSync, QuietSound DEF Calm
    <2> QED BY <2>1, <2>2 DEF ProxmoxOps
<1>5. \A o \in {"PowerOn", "PowerOff", "Reboot", "Suspend", "Reset", "CreateSnapshot", "DeleteSnapshot", "RevertSnapshot",
                "DeleteVM", "CreateVM", "CloneVM", "CloneLinked"} : Sound("proxmox", o, ProxmoxOps[o])
    BY ProxmoxRequests, ProxmoxDelete, ProxmoxMakes DEF ProxmoxOps
<1>6. DOMAIN ProxmoxOps = N \cup {"GetVM", "SyncInventory"} \cup
          {"PowerOn", "PowerOff", "Reboot", "Suspend", "Reset", "CreateSnapshot", "DeleteSnapshot", "RevertSnapshot",
           "DeleteVM", "CreateVM", "CloneVM", "CloneLinked"}
    BY DEF ProxmoxOps
<1> QED BY <1>3, <1>4, <1>5, <1>6

----------------------------------------------------------------------------
(* The operations of Nutanix *)

\* The plain steps of the provider that ask for nothing.
NutanixQuiet ==
    {NX!EnsureConnected, NX!ClientGetVM, NX!ListClusters, NX!ListHosts, NX!ListSubnets, NX!ListImages,
     NX!waitForTask, NX!Wait("INTERNAL"), NX!Read("INTERNAL"), NX!Found("NOT_FOUND"),
     NX!Step("connected", TRUE, "INTERNAL"), NX!Step("connected", FALSE, "INTERNAL"),
     NX!Step("adopt", "", "INTERNAL"), NX!Step("onlyIf", {"ON"}, "INTERNAL"),
     NX!Step("gather", [vms |-> "fatal"], "INTERNAL"),
     NX!With(NX!Retried(NX!ClientPing, "connect"), [auth |-> "AUTH_FAILED"]),
     NX!With(NX!ClientGetVM, [notFound |-> "NOT_FOUND"])}

\* The steps of the Nutanix provider that ask for nothing but an answer.
LEMMA NutanixQuietSteps == \A s \in NutanixQuiet : IsPlain(s) /\ s.do \notin {"send", "guest", "allocate"}
<1> DEFINE Q(s) == IsPlain(s) /\ s.do \notin {"send", "guest", "allocate"}
<1>1. Q(NX!EnsureConnected) /\ Q(NX!waitForTask) /\ Q(NX!Wait("INTERNAL"))
    BY DEF IsPlain, IsStep, ErrorCode, NX!EnsureConnected, NX!waitForTask, NX!Wait, NX!Step
<1>2. /\ Q(NX!ListClusters) /\ Q(NX!ListHosts) /\ Q(NX!ListSubnets) /\ Q(NX!ListImages) /\ Q(NX!Read("INTERNAL"))
      /\ Q(NX!ClientPing)
    BY DEF IsPlain, IsStep, ErrorCode, NX!ListClusters, NX!ListHosts, NX!ListSubnets, NX!ListImages, NX!ClientPing,
           NX!Read, NX!Step
<1>3. /\ Q(NX!Step("connected", TRUE, "INTERNAL")) /\ Q(NX!Step("connected", FALSE, "INTERNAL"))
      /\ Q(NX!Step("adopt", "", "INTERNAL")) /\ Q(NX!Step("onlyIf", {"ON"}, "INTERNAL"))
      /\ Q(NX!Found("NOT_FOUND")) /\ Q(NX!Step("gather", [vms |-> "fatal"], "INTERNAL"))
    BY DEF IsPlain, IsStep, ErrorCode, NX!Found, NX!Step
<1>4. Q(NX!ClientGetVM)
    BY DEF IsPlain, IsStep, ErrorCode, NX!ClientGetVM, NX!Lookup, NX!Step
<1>5. /\ Q(NX!With(NX!Retried(NX!ClientPing, "connect"), [auth |-> "AUTH_FAILED"]))
      /\ Q(NX!With(NX!ClientGetVM, [notFound |-> "NOT_FOUND"]))
    BY <1>2, <1>4, PlainWith, SameSteps DEF ErrorCode
<1> QED BY <1>1, <1>2, <1>3, <1>4, <1>5 DEF NutanixQuiet

\* Lists of such steps, also tolerant ones, only read.
LEMMA NutanixLists ==
    ASSUME NEW P \in Seq(NutanixQuiet)
    PROVE  Calm(P) /\ Calm(NX!Tolerant(P)) /\ \A x \in 1..Len(P) : Gate(P, x)
BY NutanixQuietSteps, PlainList, CalmTolerant, SameSteps DEF Calm

\* A request of the provider, retried or with an error code of its own.
LEMMA NutanixSends ==
    ASSUME NEW req
    PROVE  LET s == NX!Send(req, "INTERNAL")
               t == NX!With(s, [notFound |-> "NOT_FOUND"])
               u == NX!Retried(s, "operation")
               v == NX!With(u, [notFound |-> "NOT_FOUND"])
           IN  /\ IsPlain(s) /\ s.do = "send" /\ s.arg = req
               /\ IsPlain(t) /\ t.do = "send" /\ t.arg = req
               /\ IsPlain(u) /\ u.do = "send" /\ u.arg = req /\ u.retry = "operation"
               /\ IsPlain(v) /\ v.do = "send" /\ v.arg = req
<1> DEFINE s == NX!Send(req, "INTERNAL")
           f == [notFound |-> "NOT_FOUND"]
           u == NX!Retried(s, "operation")
<1>1. IsPlain(s) /\ s.do = "send" /\ s.arg = req
    BY DEF IsPlain, IsStep, ErrorCode, NX!Send, NX!Step
<1>2. \A c \in DOMAIN f : f[c] \in ErrorCode
    BY DEF ErrorCode
<1> HIDE DEF s, f
<1>3. IsPlain(u) /\ u.do = "send" /\ u.arg = req /\ u.retry = "operation"
    BY <1>1, PlainWith, SameSteps
<1>4. IsPlain(NX!With(s, f)) /\ NX!With(s, f).do = "send" /\ NX!With(s, f).arg = req
    BY <1>1, <1>2, PlainWith, SameSteps
<1> HIDE DEF u
<1>5. IsPlain(NX!With(u, f)) /\ NX!With(u, f).do = "send" /\ NX!With(u, f).arg = req
    BY <1>2, <1>3, PlainWith, SameSteps
<1> QED BY <1>1, <1>3, <1>4, <1>5 DEF s, u, f

\* The operations that only read.
LEMMA NutanixCalm ==
    \A P \in {NX!Connect, NX!Disconnect, NX!Ping, NX!GetVMMetrics, NX!ListSnapshots, NX!ListVMs, NX!ListDataStores,
              NX!GetDataStore, NX!ListNetworks, NX!GetNetwork, NX!ListTemplates, NX!buildTopologyMaps} : Calm(P)
<1>1. /\ Calm(NX!Connect) /\ Calm(NX!Disconnect) /\ Calm(NX!GetVMMetrics) /\ Calm(NX!ListNetworks)
      /\ Calm(NX!ListTemplates)
    <2>1. /\ NX!Connect \in Seq(NutanixQuiet) /\ NX!Disconnect \in Seq(NutanixQuiet)
          /\ NX!GetVMMetrics \in Seq(NutanixQuiet) /\ NX!ListNetworks \in Seq(NutanixQuiet)
          /\ NX!ListTemplates \in Seq(NutanixQuiet)
        BY DEF NutanixQuiet, NX!Connect, NX!Disconnect, NX!GetVMMetrics, NX!ListNetworks, NX!ListTemplates
    <2> QED BY <2>1, NutanixLists
<1>2. Calm(NX!Ping)
    <2>1. /\ IsPlain(NX!EnsureConnected) /\ NX!EnsureConnected.do \notin {"send", "guest", "allocate"}
          /\ IsPlain(NX!Step("connected", FALSE, "INTERNAL")) /\ NX!Step("connected", FALSE, "INTERNAL").do = "connected"
        BY DEF NX!EnsureConnected, NX!Step, IsPlain, IsStep, ErrorCode
    <2>2. /\ IsPlain(NX!ClientPing) /\ NX!ClientPing.do = "read"
          /\ IsPlain(NX!Step("fail", "", "NOT_CONNECTED")) /\ NX!Step("fail", "", "NOT_CONNECTED").do = "fail"
        BY DEF NX!ClientPing, NX!Read, NX!Step, IsPlain, IsStep, ErrorCode
    <2> QED BY <2>1, <2>2, CalmPing DEF NX!Ping
<1>3. /\ << NX!EnsureConnected >> \in Seq(NutanixQuiet) /\ << NX!Read("INTERNAL") >> \in Seq(NutanixQuiet)
      /\ << NX!ListClusters >> \in Seq(NutanixQuiet) /\ << NX!ListHosts >> \in Seq(NutanixQuiet)
      /\ << NX!Found("NOT_FOUND") >> \in Seq(NutanixQuiet)
      /\ << NX!EnsureConnected, NX!Step("gather", [vms |-> "fatal"], "INTERNAL") >> \in Seq(NutanixQuiet)
    BY DEF NutanixQuiet
<1>4. Calm(NX!ListSnapshots) /\ Calm(NX!ListDataStores)
    BY <1>3, NutanixLists, CalmCat DEF NX!ListSnapshots, NX!ListVMSnapshots, NX!ListDataStores
<1>5. Calm(NX!GetDataStore) /\ Calm(NX!GetNetwork)
    BY <1>1, <1>3, <1>4, NutanixLists, CalmCat DEF NX!GetDataStore, NX!GetNetwork
<1>6. Calm(NX!buildTopologyMaps)
    BY <1>3, NutanixLists, CalmCat DEF NX!buildTopologyMaps
<1>7. Calm(NX!ListVMs)
    BY <1>3, <1>6, NutanixLists, CalmCat DEF NX!ListVMs
<1> QED BY <1>1, <1>2, <1>4, <1>5, <1>6, <1>7

\* GetVM of the Nutanix provider reads the VM (nutanix/provider.go).
LEMMA NutanixGetVM == Reading(NX!GetVM)
<1> DEFINE P == << NX!EnsureConnected, NX!With(NX!ClientGetVM, [notFound |-> "NOT_FOUND"]) >>
<1>1. P \in Seq(NutanixQuiet) /\ Len(P) = 2 /\ P[2] = NX!With(NX!ClientGetVM, [notFound |-> "NOT_FOUND"])
    BY DEF NutanixQuiet
<1>2. P[2].do = "lookup"
    <2>1. IsPlain(NX!ClientGetVM) /\ NX!ClientGetVM.do = "lookup"
        BY DEF NX!ClientGetVM, NX!Lookup, NX!Step, IsPlain, IsStep, ErrorCode
    <2> QED BY <2>1, <1>1, PlainWith, SameSteps
<1>3. NX!GetVM = P \o NX!buildTopologyMaps
    BY DEF NX!GetVM
<1> HIDE DEF P
<1>4. Calm(P) /\ Gate(P, 2)
    <2>1. 2 \in 1..Len(P)
        BY <1>1
    <2> QED BY <1>1, <2>1, NutanixLists
<1>5. Reading(P)
    BY <1>2, <1>4 DEF Reading
<1> QED BY <1>3, <1>5, <1>4, NutanixCalm, ReadingCat

\* SyncInventory of the Nutanix provider only reads, and its second step fetches the lists.
LEMMA NutanixSync == Calm(NX!SyncInventory) /\ Gathered(NX!SyncInventory, 2)
<1> DEFINE g == NX!Step("gather", [vms |-> "fatal", stores |-> "empty", networks |-> "empty"], "INTERNAL")
           S == {NX!EnsureConnected, g}
           P == NX!SyncInventory
<1>1. /\ IsPlain(g) /\ g.do = "gather" /\ g.retry = "once" /\ "vms" \in DOMAIN g.arg /\ g.arg["vms"] = "fatal"
      /\ IsPlain(NX!EnsureConnected) /\ NX!EnsureConnected.do = "ensure"
    BY DEF NX!EnsureConnected, NX!Step, IsPlain, IsStep, ErrorCode
<1>2. P \in Seq(S) /\ Len(P) = 2 /\ P[1] = NX!EnsureConnected /\ P[2] = g
    BY DEF NX!SyncInventory
<1> HIDE DEF g, P
<1>3. \A s \in S : IsPlain(s) /\ s.do \notin {"send", "guest", "allocate"}
    BY <1>1
<1> HIDE DEF S
<1>4. Calm(P) /\ Gate(P, 2)
    <2>1. 2 \in 1..Len(P)
        BY <1>2
    <2> QED BY <1>2, <1>3, <2>1, PlainList DEF Calm
<1>5. \A i \in 1..Len(P) : i = 1 \/ i = 2
    BY <1>2
<1>6. Gathered(P, 2)
    BY <1>1, <1>2, <1>4, <1>5 DEF Gathered
<1> QED BY <1>4, <1>6 DEF P

\* The operations that send one request and wait for its task.
LEMMA NutanixRequests ==
    /\ Sound("nutanix", "PowerOn", NX!PowerOn) /\ Sound("nutanix", "PowerOff", NX!PowerOff)
    /\ Sound("nutanix", "Reboot", NX!Reboot) /\ Sound("nutanix", "Suspend", NX!Suspend)
    /\ Sound("nutanix", "Reset", NX!Reset) /\ Sound("nutanix", "CreateSnapshot", NX!CreateSnapshot)
    /\ Sound("nutanix", "DeleteSnapshot", NX!DeleteSnapshot) /\ Sound("nutanix", "RevertSnapshot", NX!RevertSnapshot)
<1>1. NX!waitForTask.do = "wait" /\ NX!Wait("INTERNAL") = NX!waitForTask
    BY DEF NX!waitForTask, NX!Wait, NX!Step
<1>2. ASSUME NEW r, IsPlain(r), r.do = "send", NEW o \in DOMAIN Port!May, o \notin VMAnswers,
             EffectOf(r.arg) \in Port!Promised(o), EffectOf(r.arg) # "new",
             Port!Promised(o) \subseteq Port!May[o],
             NEW P, P = << NX!EnsureConnected, r, NX!waitForTask >>
      PROVE  Sound("nutanix", o, P)
    <2>1. P \in Seq(NutanixQuiet \cup {r}) /\ Len(P) = 3 /\ P[3 - 1] = r /\ P[3] = NX!waitForTask
        BY <1>2 DEF NutanixQuiet
    <2>2. /\ IsProgram(P) /\ Sends(P, {EffectOf(r.arg)}) /\ Ordered(P, 3, {EffectOf(r.arg)})
          /\ Maker("nutanix", P, 0)
        <3>1. 3 \in Nat \ {0, 1} /\ P[3].do = "wait"
            BY <1>1, <2>1
        <3> QED BY <1>2, <2>1, <3>1, NutanixQuietSteps, RequestList
    <2>3. Sends(P, Port!May[o]) /\ Ordered(P, 3, Port!Promised(o))
        BY <1>2, <2>2, SendsCat DEF Ordered
    <2> QED BY <1>2, <2>2, <2>3, SendSound
<1>3. ASSUME NEW a, NEW o \in DOMAIN Port!May, o \notin VMAnswers, EffectOf(a) \in Port!Promised(o),
             EffectOf(a) # "new", Port!Promised(o) \subseteq Port!May[o]
      PROVE  Sound("nutanix", o, NX!powerAction(a))
    <2> DEFINE r == NX!With(NX!Retried(NX!VMPowerAction(a), "operation"), [notFound |-> "NOT_FOUND"])
    <2>1. IsPlain(r) /\ r.do = "send" /\ r.arg = a
        BY NutanixSends DEF NX!VMPowerAction
    <2>2. NX!powerAction(a) = << NX!EnsureConnected, r, NX!waitForTask >>
        BY DEF NX!powerAction
    <2> HIDE DEF r
    <2> QED BY <1>2, <1>3, <2>1, <2>2
<1>4. /\ EffectOf("ON") = "on" /\ EffectOf("OFF") = "off" /\ EffectOf("ACPI_REBOOT") = "booted"
      /\ EffectOf("PAUSE") = "suspended" /\ EffectOf("POWERCYCLE") = "booted" /\ EffectOf("snapshot") = "snapped"
      /\ EffectOf("unsnapshot") = "unsnapped" /\ EffectOf("revert") = "reverted"
    BY DEF EffectOf, PowerEffect
<1>5. \A o \in {"PowerOn", "PowerOff", "Reboot", "Suspend", "Reset", "CreateSnapshot", "DeleteSnapshot", "RevertSnapshot"} :
         o \in DOMAIN Port!May /\ o \notin VMAnswers /\ Port!Promised(o) = Port!May[o]
    BY DEF Port!May, VMAnswers, Port!Promised
<1>6. /\ Port!May["PowerOn"] = {"on"} /\ Port!May["PowerOff"] = {"off"} /\ Port!May["Reboot"] = {"booted", "asked"}
      /\ Port!May["Suspend"] = {"suspended"} /\ Port!May["Reset"] = {"booted"}
      /\ Port!May["CreateSnapshot"] = {"snapped"} /\ Port!May["DeleteSnapshot"] = {"unsnapped"}
      /\ Port!May["RevertSnapshot"] = {"reverted"}
    BY DEF Port!May
<1>7. /\ Sound("nutanix", "PowerOn", NX!PowerOn) /\ Sound("nutanix", "PowerOff", NX!PowerOff)
      /\ Sound("nutanix", "Reboot", NX!Reboot) /\ Sound("nutanix", "Suspend", NX!Suspend)
      /\ Sound("nutanix", "Reset", NX!Reset)
    BY <1>3, <1>4, <1>5, <1>6 DEF NX!PowerOn, NX!PowerOff, NX!Reboot, NX!Suspend, NX!Reset
<1>8. Sound("nutanix", "CreateSnapshot", NX!CreateSnapshot)
    <2> DEFINE r == NX!Retried(NX!CreateVMSnapshot, "operation")
    <2>1. IsPlain(r) /\ r.do = "send" /\ r.arg = "snapshot"
        BY NutanixSends DEF NX!CreateVMSnapshot
    <2>2. NX!CreateSnapshot = << NX!EnsureConnected, r, NX!waitForTask >>
        BY <1>1 DEF NX!CreateSnapshot
    <2> HIDE DEF r
    <2> QED BY <1>2, <1>4, <1>5, <1>6, <2>1, <2>2
<1>9. Sound("nutanix", "DeleteSnapshot", NX!DeleteSnapshot)
    <2> DEFINE r == NX!With(NX!DeleteVMSnapshot, [notFound |-> "NOT_FOUND"])
    <2>1. IsPlain(r) /\ r.do = "send" /\ r.arg = "unsnapshot"
        BY NutanixSends DEF NX!DeleteVMSnapshot
    <2>2. NX!DeleteSnapshot = << NX!EnsureConnected, r, NX!waitForTask >>
        BY DEF NX!DeleteSnapshot
    <2> HIDE DEF r
    <2> QED BY <1>2, <1>4, <1>5, <1>6, <2>1, <2>2
<1>10. Sound("nutanix", "RevertSnapshot", NX!RevertSnapshot)
    <2> DEFINE r == NX!With(NX!RestoreVMSnapshot, [notFound |-> "NOT_FOUND"])
    <2>1. IsPlain(r) /\ r.do = "send" /\ r.arg = "revert"
        BY NutanixSends DEF NX!RestoreVMSnapshot
    <2>2. NX!RevertSnapshot = << NX!EnsureConnected, r, NX!waitForTask >>
        BY DEF NX!RevertSnapshot
    <2> HIDE DEF r
    <2> QED BY <1>2, <1>4, <1>5, <1>6, <2>1, <2>2
<1> QED BY <1>7, <1>8, <1>9, <1>10

\* DeleteVM of the Nutanix provider stops the VM if it is on and then destroys it.
LEMMA NutanixDelete == Sound("nutanix", "DeleteVM", NX!DeleteVM)
<1> DEFINE A == << NX!EnsureConnected >>
           s == NX!VMPowerAction("OFF")
           r == NX!With(NX!ClientDeleteVM, [notFound |-> "NOT_FOUND"])
           Q == << r, NX!waitForTask >>
           B == NX!powerOffIfRunning
<1>1. NX!DeleteVM = A \o Tolerant(B) \o Q
    BY SameSteps DEF NX!DeleteVM
<1>2. A \in Seq(NutanixQuiet)
    BY DEF NutanixQuiet
<1>3. B \in Seq(NutanixQuiet \cup {s}) /\ Len(B) = 4 /\ B[4 - 1] = s /\ B[4] = NX!waitForTask
    BY DEF NutanixQuiet, NX!powerOffIfRunning
<1>4. IsPlain(s) /\ s.do = "send" /\ s.arg = "OFF" /\ EffectOf("OFF") = "off" /\ EffectOf("destroy") = "absent"
    BY NutanixSends DEF NX!VMPowerAction, EffectOf, PowerEffect
<1>5. IsPlain(r) /\ r.do = "send" /\ r.arg = "destroy"
    BY NutanixSends DEF NX!ClientDeleteVM
<1>6. NX!waitForTask.do = "wait"
    BY DEF NX!waitForTask, NX!Wait, NX!Step
<1> HIDE DEF A, s, r, B
<1>7. Q \in Seq(NutanixQuiet \cup {r}) /\ Len(Q) = 2 /\ Q[2 - 1] = r /\ Q[2].do = "wait"
    BY <1>6 DEF NutanixQuiet
<1> HIDE DEF Q
<1>8. Calm(A)
    BY <1>2, NutanixLists
<1>9. 4 \in Nat \ {0, 1} /\ 2 \in Nat \ {0, 1} /\ B[4].do = "wait"
    BY <1>3, <1>6
<1>10. IsProgram(B) /\ Contained(B) /\ Sends(B, {"off"}) /\ Maker("nutanix", B, 0)
    BY <1>3, <1>4, <1>9, NutanixQuietSteps, RequestList
<1>11. IsProgram(Q) /\ Sends(Q, {"absent"}) /\ Ordered(Q, 2, {"absent"}) /\ Maker("nutanix", Q, 0)
    BY <1>4, <1>5, <1>7, <1>9, NutanixQuietSteps, RequestList
<1> QED BY <1>1, <1>8, <1>10, <1>11, DeleteSound

\* Both requests for a new VM are "create", and both are retried.
LEMMA NutanixMakes ==
    /\ Sound("nutanix", "CreateVM", NX!CreateVM)
    /\ \A o \in {"CloneVM", "CloneLinked"} : Sound("nutanix", o, NX!CloneVM)
<1> DEFINE r == NX!Retried(NX!Send("create", "INTERNAL"), "operation")
           W == NX!waitForTaskWithResult
           T == NutanixQuiet \cup {r}
           v == NX!Wait("INTERNAL")
           d == NX!Step("adopt", "", "INTERNAL")
<1>1. EffectOf("create") = "new"
    BY DEF EffectOf, PowerEffect
<1>2. IsPlain(r) /\ r.do = "send" /\ r.arg = "create" /\ r.retry = "operation"
    BY NutanixSends
<1>3. v \in NutanixQuiet /\ d \in NutanixQuiet /\ NX!EnsureConnected \in NutanixQuiet /\ v.do = "wait"
    BY DEF NutanixQuiet, NX!Wait, NX!Step
<1>4. W \in Seq(NutanixQuiet) /\ Len(W) = 2 /\ W[1] = v /\ W[2] = d
    <2>1. W \in Seq(NutanixQuiet)
        BY DEF NutanixQuiet, NX!waitForTaskWithResult
    <2>2. Len(W) = 2 /\ W[1] = v /\ W[2] = d
        BY DEF NX!waitForTaskWithResult
    <2> QED BY <2>1, <2>2
<1>5. NX!CreateVM = << NX!EnsureConnected, NX!pickCluster, r >> \o W \o NX!GetVM
    BY DEF NX!CreateVM, NX!ClientCloneVM, NX!buildVMCreateSpec
<1>6. NX!CloneVM = << NX!EnsureConnected, NX!With(NX!ClientGetVM, [notFound |-> "NOT_FOUND"]), r >> \o W \o NX!GetVM
    BY DEF NX!CloneVM, NX!ClientCloneVM, NX!buildVMCloneSpec
<1>7. NX!pickCluster \in NutanixQuiet /\ NX!With(NX!ClientGetVM, [notFound |-> "NOT_FOUND"]) \in NutanixQuiet
    BY DEF NutanixQuiet, NX!pickCluster
<1> HIDE DEF r, W, v, d
<1>8. ASSUME NEW b \in NutanixQuiet PROVE Making("nutanix", << NX!EnsureConnected, b, r >> \o W)
    <2> DEFINE A == << NX!EnsureConnected, b, r >>  P == A \o W
    <2>1. NX!EnsureConnected \in T /\ b \in T /\ r \in T /\ W \in Seq(T)
        <3>1. NutanixQuiet \subseteq T /\ r \in T
            OBVIOUS
        <3>2. NX!EnsureConnected \in T /\ b \in T
            BY <1>3, <3>1
        <3> HIDE DEF T
        <3>3. W \in Seq(T)
            BY ONLY <1>4, <3>1, Wider
        <3> QED BY ONLY <3>1, <3>2, <3>3
    <2> DEFINE e == NX!EnsureConnected
    <2> HIDE DEF T, e
    <2>2. A \in Seq(T) /\ Len(A) = 3 /\ A[1] = e /\ A[2] = b /\ A[3] = r
        BY <2>1 DEF e
    <2> HIDE DEF A
    <2>3. P \in Seq(T) /\ Len(P) = 5 /\ P[1] = e /\ P[2] = b /\ P[3] = r
        <3>0. W \in Seq(T) /\ A \in Seq(T)
            BY <2>1, <2>2
        <3>1. P \in Seq(T) /\ Len(P) = Len(A) + Len(W) /\ \A i \in 1..Len(A) : P[i] = A[i]
            BY ONLY <3>0, ListCat
        <3> HIDE DEF P
        <3> QED BY <1>4, <2>2, <3>1
    <2>4. P[3 + 1] = W[1] /\ P[3 + 2] = W[2]
        <3>1. W \in Seq(T) /\ A \in Seq(T)
            BY <2>1, <2>2
        <3>2. \A i \in 1..Len(W) : P[Len(A) + i] = W[i]
            BY ONLY <3>1, ListCat
        <3> HIDE DEF P
        <3> QED BY <1>4, <2>2, <3>2
    <2> HIDE DEF P
    <2>5. 4 \in 2..Len(P) /\ P[4 - 1] = r /\ P[4].do = "wait"
        BY <1>3, <1>4, <2>3, <2>4
    <2>6. \A i \in 1..Len(P) : i # 4 - 1 => P[i] \in NutanixQuiet
        <3>1. P[1] \in NutanixQuiet /\ P[2] \in NutanixQuiet /\ P[4] \in NutanixQuiet /\ P[5] \in NutanixQuiet
            BY <1>3, <1>4, <2>3, <2>4 DEF e
        <3> QED BY <2>3, <3>1, Six
    <2>7. P \in Seq(NutanixQuiet \cup {r})
        BY <2>3 DEF T
    <2>8. Making("nutanix", P)
        BY <1>1, <1>2, <2>5, <2>6, <2>7, NutanixQuietSteps, MakeList
    <2> QED BY <2>8 DEF P, A, e
<1>9. Sound("nutanix", "CreateVM", NX!CreateVM)
    <2>1. Making("nutanix", << NX!EnsureConnected, NX!pickCluster, r >> \o W)
        BY <1>7, <1>8
    <2> QED BY <1>5, <2>1, NutanixGetVM, MakeSound
<1>10. ASSUME NEW o \in {"CloneVM", "CloneLinked"} PROVE Sound("nutanix", o, NX!CloneVM)
    <2>1. Making("nutanix", << NX!EnsureConnected, NX!With(NX!ClientGetVM, [notFound |-> "NOT_FOUND"]), r >> \o W)
        BY <1>7, <1>8
    <2> QED BY <1>6, <2>1, NutanixGetVM, MakeSound
<1> QED BY <1>9, <1>10

\* What is asked of the step programs is true of all of Nutanix's.
LEMMA NutanixSound == \A o \in DOMAIN NutanixOps : Sound("nutanix", o, NutanixOps[o])
<1> DEFINE N == {"Connect", "Disconnect", "Ping", "GetVMMetrics", "ListSnapshots", "ListVMs", "ListDataStores",
                 "GetDataStore", "ListNetworks", "GetNetwork", "ListTemplates"}
<1>1. \A o \in N : o \in Port!Reads \ {"GetVM", "SyncInventory"}
    BY DEF Port!Reads
<1>2. \A o \in N : Calm(NutanixOps[o])
    BY NutanixCalm DEF NutanixOps
<1>3. \A o \in N : Sound("nutanix", o, NutanixOps[o])
    <2> HIDE DEF N
    <2> QED BY <1>1, <1>2, QuietSound DEF Calm
<1>4. Sound("nutanix", "GetVM", NutanixOps["GetVM"]) /\ Sound("nutanix", "SyncInventory", NutanixOps["SyncInventory"])
    <2>1. Sound("nutanix", "GetVM", NX!GetVM)
        BY NutanixGetVM, QuietSound DEF Reading, Calm
    <2>2. Sound("nutanix", "SyncInventory", NX!SyncInventory)
        BY NutanixSync, QuietSound DEF Calm
    <2> QED BY <2>1, <2>2 DEF NutanixOps
<1>5. \A o \in {"PowerOn", "PowerOff", "Reboot", "Suspend", "Reset", "CreateSnapshot", "DeleteSnapshot", "RevertSnapshot",
                "DeleteVM", "CreateVM", "CloneVM", "CloneLinked"} : Sound("nutanix", o, NutanixOps[o])
    BY NutanixRequests, NutanixDelete, NutanixMakes DEF NutanixOps
<1>6. DOMAIN NutanixOps = N \cup {"GetVM", "SyncInventory"} \cup
          {"PowerOn", "PowerOff", "Reboot", "Suspend", "Reset", "CreateSnapshot", "DeleteSnapshot", "RevertSnapshot",
           "DeleteVM", "CreateVM", "CloneVM", "CloneLinked"}
    BY DEF NutanixOps
<1> QED BY <1>3, <1>4, <1>5, <1>6

----------------------------------------------------------------------------
(* The operations of vSphere, most of which ESXi has too *)

\* The plain steps of the provider that ask for nothing.
VMwareQuiet ==
    {VW!EnsureConnected, VW!findVM, VW!waitTask, VW!Lookup("INTERNAL"), VW!Lookup("NOT_FOUND"),
     VW!Read("INTERNAL"), VW!Read("NOT_FOUND"), VW!newConnectionManager,
     VW!Step("connected", TRUE, "INTERNAL"), VW!Step("connected", FALSE, "INTERNAL"),
     VW!Step("adopt", "", "INTERNAL"), VW!Step("onlyIf", {"poweredOn"}, "INTERNAL"),
     VW!Step("snapped", "", "INVALID_STATE"), VW!Step("gather", [vms |-> "fatal"], "INTERNAL"),
     VW!assertPowerState({"poweredOff", "suspended"}), VW!assertPowerState({"poweredOn"})}

\* The steps of the vSphere provider that ask for nothing but an answer.
LEMMA VMwareQuietSteps == \A s \in VMwareQuiet : IsPlain(s) /\ s.do \notin {"send", "guest", "allocate"}
<1> DEFINE Q(s) == IsPlain(s) /\ s.do \notin {"send", "guest", "allocate"}
<1>1. Q(VW!EnsureConnected) /\ Q(VW!waitTask) /\ Q(VW!findVM) /\ Q(VW!Lookup("INTERNAL")) /\ Q(VW!Lookup("NOT_FOUND"))
    BY DEF IsPlain, IsStep, ErrorCode, VW!EnsureConnected, VW!waitTask, VW!Wait, VW!findVM, VW!Lookup, VW!Step
<1>2. Q(VW!Read("INTERNAL")) /\ Q(VW!Read("NOT_FOUND")) /\ Q(VW!Read("AUTH_FAILED"))
    BY DEF IsPlain, IsStep, ErrorCode, VW!Read, VW!Step
<1>3. Q(VW!newConnectionManager)
    BY <1>2, PlainWith, SameSteps DEF VW!newConnectionManager
<1>4. /\ Q(VW!Step("connected", TRUE, "INTERNAL")) /\ Q(VW!Step("connected", FALSE, "INTERNAL"))
      /\ Q(VW!Step("adopt", "", "INTERNAL")) /\ Q(VW!Step("onlyIf", {"poweredOn"}, "INTERNAL"))
      /\ Q(VW!Step("snapped", "", "INVALID_STATE")) /\ Q(VW!Step("gather", [vms |-> "fatal"], "INTERNAL"))
    BY DEF IsPlain, IsStep, ErrorCode, VW!Step
<1>5. Q(VW!assertPowerState({"poweredOff", "suspended"})) /\ Q(VW!assertPowerState({"poweredOn"}))
    BY DEF IsPlain, IsStep, ErrorCode, VW!assertPowerState, VW!Step
<1> QED BY <1>1, <1>2, <1>3, <1>4, <1>5 DEF VMwareQuiet

\* Lists of such steps, also tolerant ones, only read.
LEMMA VMwareLists ==
    ASSUME NEW P \in Seq(VMwareQuiet)
    PROVE  Calm(P) /\ Calm(VW!Tolerant(P)) /\ \A x \in 1..Len(P) : Gate(P, x)
BY VMwareQuietSteps, PlainList, CalmTolerant, SameSteps DEF Calm

\* A request of the provider.
LEMMA VMwareSends ==
    ASSUME NEW req
    PROVE  LET s == VW!Send(req, "INTERNAL") IN IsPlain(s) /\ s.do = "send" /\ s.arg = req /\ s.retry = "once"
BY DEF IsPlain, IsStep, ErrorCode, VW!Send, VW!Step

\* The operations that only read.
LEMMA VMwareCalm ==
    \A P \in {VW!Connect, VW!Disconnect, VW!Ping, VW!GetVMMetrics, VW!ListSnapshots, VW!ListVMs, VW!ListDataStores,
              VW!GetDataStore, VW!ListNetworks, VW!GetNetwork, VW!ListTemplates, VW!GetConsoleSession,
              VW!hostResourcePool, VW!buildHostClusterMap} : Calm(P)
<1>1. /\ Calm(VW!Connect) /\ Calm(VW!ListSnapshots) /\ Calm(VW!ListVMs) /\ Calm(VW!ListDataStores)
      /\ Calm(VW!GetDataStore) /\ Calm(VW!ListNetworks) /\ Calm(VW!GetNetwork) /\ Calm(VW!ListTemplates)
      /\ Calm(VW!GetConsoleSession) /\ Calm(VW!hostResourcePool)
    <2>1. /\ VW!Connect \in Seq(VMwareQuiet) /\ VW!ListSnapshots \in Seq(VMwareQuiet)
          /\ VW!ListVMs \in Seq(VMwareQuiet) /\ VW!ListDataStores \in Seq(VMwareQuiet)
          /\ VW!GetDataStore \in Seq(VMwareQuiet)
        BY DEF VMwareQuiet, VW!Connect, VW!ListSnapshots, VW!ListVMs, VW!ListDataStores, VW!GetDataStore
    <2>2. /\ VW!ListNetworks \in Seq(VMwareQuiet) /\ VW!GetNetwork \in Seq(VMwareQuiet)
          /\ VW!ListTemplates \in Seq(VMwareQuiet) /\ VW!GetConsoleSession \in Seq(VMwareQuiet)
          /\ VW!hostResourcePool \in Seq(VMwareQuiet)
        BY DEF VMwareQuiet, VW!ListNetworks, VW!GetNetwork, VW!ListTemplates, VW!GetConsoleSession, VW!hostResourcePool
    <2> QED BY <2>1, <2>2, VMwareLists
<1>2. Calm(VW!Ping)
    <2>1. /\ IsPlain(VW!EnsureConnected) /\ VW!EnsureConnected.do \notin {"send", "guest", "allocate"}
          /\ IsPlain(VW!Step("connected", FALSE, "INTERNAL")) /\ VW!Step("connected", FALSE, "INTERNAL").do = "connected"
        BY DEF VW!EnsureConnected, VW!Step, IsPlain, IsStep, ErrorCode
    <2>2. /\ IsPlain(VW!ping) /\ VW!ping.do = "read"
          /\ IsPlain(VW!Step("fail", "", "NOT_CONNECTED")) /\ VW!Step("fail", "", "NOT_CONNECTED").do = "fail"
        BY DEF VW!ping, VW!Read, VW!Step, IsPlain, IsStep, ErrorCode
    <2> QED BY <2>1, <2>2, CalmPing DEF VW!Ping
<1>3. /\ << VW!Read("INTERNAL") >> \in Seq(VMwareQuiet) /\ << VW!EnsureConnected, VW!findVM >> \in Seq(VMwareQuiet)
      /\ << VW!Step("connected", FALSE, "INTERNAL") >> \in Seq(VMwareQuiet)
      /\ << VW!Read("INTERNAL"), VW!Read("INTERNAL") >> \in Seq(VMwareQuiet)
    BY DEF VMwareQuiet
<1>4. Calm(VW!Disconnect) /\ Calm(VW!GetVMMetrics) /\ Calm(VW!buildHostClusterMap)
    BY <1>3, VMwareLists, CalmCat DEF VW!Disconnect, VW!GetVMMetrics, VW!collectVMMetrics, VW!buildHostClusterMap
<1> QED BY <1>1, <1>2, <1>4

\* GetVM of the vSphere provider reads the VM (vmware/provider.go).
LEMMA VMwareGetVM == Reading(VW!GetVM)
<1>1. VW!GetVM \in Seq(VMwareQuiet) /\ Len(VW!GetVM) = 3 /\ VW!GetVM[2] = VW!findVM /\ VW!findVM.do = "lookup"
    BY DEF VMwareQuiet, VW!GetVM, VW!findVM, VW!Lookup, VW!Step
<1>2. 2 \in 1..Len(VW!GetVM)
    BY <1>1
<1> QED BY <1>1, <1>2, VMwareLists DEF Reading

\* SyncInventory of the vSphere provider only reads, and its second step fetches the lists.
LEMMA VMwareSync == Calm(VW!SyncInventory) /\ Gathered(VW!SyncInventory, 2)
<1> DEFINE g == VW!Step("gather", [vms |-> "fatal", stores |-> "fatal", networks |-> "fatal",
                                   hosts |-> "empty", clusters |-> "empty"], "INTERNAL")
           S == {VW!EnsureConnected, g}
           P == << VW!EnsureConnected, g >>
           Q == << VW!Read("INTERNAL") >>
<1>1. VW!SyncInventory = P \o VW!Tolerant(Q)
    BY DEF VW!SyncInventory, VW!buildHostClusterMap
<1>2. /\ IsPlain(g) /\ g.do = "gather" /\ g.retry = "once" /\ "vms" \in DOMAIN g.arg /\ g.arg["vms"] = "fatal"
      /\ IsPlain(VW!EnsureConnected) /\ VW!EnsureConnected.do = "ensure"
    BY DEF VW!EnsureConnected, VW!Step, IsPlain, IsStep, ErrorCode
<1>3. P \in Seq(S) /\ Len(P) = 2 /\ P[1] = VW!EnsureConnected /\ P[2] = g
    OBVIOUS
<1>4. Q \in Seq(VMwareQuiet) /\ Len(Q) = 1 /\ Q[1] = VW!Read("INTERNAL") /\ VW!Read("INTERNAL").do = "read"
    BY DEF VMwareQuiet, VW!Read, VW!Step
<1> HIDE DEF P, Q, g
<1>5. Calm(P) /\ Gate(P, 2)
    <2>1. \A s \in S : IsPlain(s) /\ s.do \notin {"send", "guest", "allocate"}
        BY <1>2
    <2>2. 2 \in 1..Len(P)
        BY <1>3
    <2> HIDE DEF S
    <2> QED BY <1>3, <2>1, <2>2, PlainList DEF Calm
<1>6. Gathered(P, 2)
    <2>1. \A i \in 1..Len(P) : i = 1 \/ i = 2
        BY <1>3
    <2> QED BY <1>2, <1>3, <1>5, <2>1 DEF Gathered
<1>7. Calm(VW!Tolerant(Q)) /\ \A i \in 1..Len(VW!Tolerant(Q)) : VW!Tolerant(Q)[i].do # "gather"
    <2>1. Calm(Q) /\ \A i \in 1..Len(Q) : i = 1
        BY <1>4, VMwareLists
    <2> QED BY <1>4, <2>1, CalmTolerant, TolerantKeeps, SameSteps DEF Calm
<1> QED BY <1>1, <1>5, <1>6, <1>7, CalmCat, GatheredCat DEF Calm

\* The operations that send one request and wait for its task.
LEMMA VMwareRequests ==
    ASSUME NEW pr
    PROVE  /\ Sound(pr, "PowerOn", VW!PowerOn) /\ Sound(pr, "PowerOff", VW!PowerOff)
           /\ Sound(pr, "Suspend", VW!Suspend) /\ Sound(pr, "Reset", VW!Reset)
           /\ Sound(pr, "CreateSnapshot", VW!CreateSnapshot) /\ Sound(pr, "DeleteSnapshot", VW!DeleteSnapshot)
           /\ Sound(pr, "RevertSnapshot", VW!RevertSnapshot)
<1>1. VW!waitTask.do = "wait" /\ VW!Wait("INTERNAL") = VW!waitTask
    BY DEF VW!waitTask, VW!Wait, VW!Step
<1>2. ASSUME NEW a, NEW o \in DOMAIN Port!May, o \notin VMAnswers,
             EffectOf(a) \in Port!Promised(o), EffectOf(a) # "new", Port!Promised(o) \subseteq Port!May[o],
             NEW n \in Nat \ {0, 1}, NEW P \in Seq(VMwareQuiet \cup {VW!Send(a, "INTERNAL")}), Len(P) = n,
             P[n - 1] = VW!Send(a, "INTERNAL"), P[n] = VW!waitTask
      PROVE  Sound(pr, o, P)
    <2> DEFINE r == VW!Send(a, "INTERNAL")
    <2>1. IsPlain(r) /\ r.do = "send" /\ r.arg = a
        BY VMwareSends
    <2>2. P \in Seq(VMwareQuiet \cup {r}) /\ P[n - 1] = r /\ P[n].do = "wait"
        BY <1>1, <1>2
    <2> HIDE DEF r
    <2>3. IsProgram(P) /\ Sends(P, {EffectOf(a)}) /\ Ordered(P, n, {EffectOf(a)}) /\ Maker(pr, P, 0)
        BY <1>2, <2>1, <2>2, VMwareQuietSteps, RequestList
    <2>4. Sends(P, Port!May[o]) /\ Ordered(P, n, Port!Promised(o))
        BY <1>2, <2>3, SendsCat DEF Ordered
    <2> QED BY <1>2, <2>3, <2>4, SendSound
<1>3. /\ EffectOf("PowerOn") = "on" /\ EffectOf("PowerOff") = "off" /\ EffectOf("Suspend") = "suspended"
      /\ EffectOf("Reset") = "booted" /\ EffectOf("snapshot") = "snapped" /\ EffectOf("unsnapshot") = "unsnapped"
      /\ EffectOf("revert") = "reverted"
    BY DEF EffectOf, PowerEffect
<1>4. \A o \in {"PowerOn", "PowerOff", "Suspend", "Reset", "CreateSnapshot", "DeleteSnapshot", "RevertSnapshot"} :
         o \in DOMAIN Port!May /\ o \notin VMAnswers /\ Port!Promised(o) = Port!May[o]
    BY DEF Port!May, VMAnswers, Port!Promised
<1>5. /\ Port!May["PowerOn"] = {"on"} /\ Port!May["PowerOff"] = {"off"} /\ Port!May["Suspend"] = {"suspended"}
      /\ Port!May["Reset"] = {"booted"} /\ Port!May["CreateSnapshot"] = {"snapped"}
      /\ Port!May["DeleteSnapshot"] = {"unsnapped"} /\ Port!May["RevertSnapshot"] = {"reverted"}
    BY DEF Port!May
<1>6. 5 \in Nat \ {0, 1} /\ 4 \in Nat \ {0, 1}
    OBVIOUS
<1>7. ASSUME NEW a, NEW s \in VMwareQuiet,
             NEW P, P = << VW!EnsureConnected, VW!findVM, s, VW!Send(a, "INTERNAL"), VW!waitTask >>
      PROVE  /\ P \in Seq(VMwareQuiet \cup {VW!Send(a, "INTERNAL")}) /\ Len(P) = 5
             /\ P[5 - 1] = VW!Send(a, "INTERNAL") /\ P[5] = VW!waitTask
    <2>1. VW!EnsureConnected \in VMwareQuiet /\ VW!findVM \in VMwareQuiet /\ VW!waitTask \in VMwareQuiet
        BY DEF VMwareQuiet
    <2> QED BY <1>7, <2>1
<1>8. ASSUME NEW a, NEW P, P = << VW!EnsureConnected, VW!findVM, VW!Send(a, "INTERNAL"), VW!waitTask >>
      PROVE  /\ P \in Seq(VMwareQuiet \cup {VW!Send(a, "INTERNAL")}) /\ Len(P) = 4
             /\ P[4 - 1] = VW!Send(a, "INTERNAL") /\ P[4] = VW!waitTask
    <2>1. VW!EnsureConnected \in VMwareQuiet /\ VW!findVM \in VMwareQuiet /\ VW!waitTask \in VMwareQuiet
        BY DEF VMwareQuiet
    <2> QED BY <1>8, <2>1
<1>9. VW!assertPowerState({"poweredOff", "suspended"}) \in VMwareQuiet /\ VW!assertPowerState({"poweredOn"}) \in VMwareQuiet
    BY DEF VMwareQuiet
<1>10. ASSUME NEW a, NEW s \in VMwareQuiet, NEW o \in DOMAIN Port!May, o \notin VMAnswers,
              EffectOf(a) \in Port!Promised(o), EffectOf(a) # "new", Port!Promised(o) \subseteq Port!May[o]
       PROVE  Sound(pr, o, << VW!EnsureConnected, VW!findVM, s, VW!Send(a, "INTERNAL"), VW!waitTask >>)
    <2> DEFINE P == << VW!EnsureConnected, VW!findVM, s, VW!Send(a, "INTERNAL"), VW!waitTask >>
    <2>1. /\ P \in Seq(VMwareQuiet \cup {VW!Send(a, "INTERNAL")}) /\ Len(P) = 5
          /\ P[5 - 1] = VW!Send(a, "INTERNAL") /\ P[5] = VW!waitTask
        BY <1>7
    <2> HIDE DEF P
    <2>2. Sound(pr, o, P)
        BY <1>2, <1>6, <1>10, <2>1
    <2> QED BY <2>2 DEF P
<1>11. ASSUME NEW a, NEW o \in DOMAIN Port!May, o \notin VMAnswers,
              EffectOf(a) \in Port!Promised(o), EffectOf(a) # "new", Port!Promised(o) \subseteq Port!May[o]
       PROVE  Sound(pr, o, << VW!EnsureConnected, VW!findVM, VW!Send(a, "INTERNAL"), VW!waitTask >>)
    <2> DEFINE P == << VW!EnsureConnected, VW!findVM, VW!Send(a, "INTERNAL"), VW!waitTask >>
    <2>1. /\ P \in Seq(VMwareQuiet \cup {VW!Send(a, "INTERNAL")}) /\ Len(P) = 4
          /\ P[4 - 1] = VW!Send(a, "INTERNAL") /\ P[4] = VW!waitTask
        BY <1>8
    <2> HIDE DEF P
    <2>2. Sound(pr, o, P)
        BY <1>2, <1>6, <1>11, <2>1
    <2> QED BY <2>2 DEF P
<1>12. Sound(pr, "PowerOn", VW!PowerOn)
    BY <1>3, <1>4, <1>5, <1>9, <1>10 DEF VW!PowerOn
<1>13. Sound(pr, "PowerOff", VW!PowerOff) /\ Sound(pr, "Suspend", VW!Suspend) /\ Sound(pr, "Reset", VW!Reset)
    BY <1>3, <1>4, <1>5, <1>9, <1>10 DEF VW!PowerOff, VW!Suspend, VW!Reset
<1>14. Sound(pr, "CreateSnapshot", VW!CreateSnapshot)
    BY <1>1, <1>3, <1>4, <1>5, <1>11 DEF VW!CreateSnapshot
<1>15. Sound(pr, "DeleteSnapshot", VW!DeleteSnapshot) /\ Sound(pr, "RevertSnapshot", VW!RevertSnapshot)
    BY <1>3, <1>4, <1>5, <1>11 DEF VW!DeleteSnapshot, VW!RevertSnapshot
<1> QED BY <1>12, <1>13, <1>14, <1>15

\* A reboot that the guest refuses becomes a reset.
LEMMA VMwareReboot == ASSUME NEW pr PROVE Sound(pr, "Reboot", VW!Reboot)
<1> DEFINE e == VW!EnsureConnected  f == VW!findVM  a == VW!assertPowerState({"poweredOn"})
           g == [VW!Step("guest", "RebootGuest", "INTERNAL") EXCEPT !.ok = 3, !.err = 1]
           r == VW!Send("Reset", "INTERNAL")  v == VW!waitTask
           P == << e, f, a, g, r, v >>
<1>1. /\ IsPlain(e) /\ e.do = "ensure" /\ IsPlain(f) /\ f.do = "lookup" /\ IsPlain(a) /\ a.do = "assert"
      /\ IsPlain(r) /\ r.do = "send" /\ r.arg = "Reset" /\ IsPlain(v) /\ v.do = "wait"
    BY DEF IsPlain, IsStep, ErrorCode, VW!EnsureConnected, VW!waitTask, VW!Wait, VW!findVM, VW!Lookup,
           VW!assertPowerState, VW!Send, VW!Step
<1>2. IsStep(g) /\ g.do = "guest" /\ g.ok = 3 /\ g.err = 1
    <2> DEFINE s == VW!Step("guest", "RebootGuest", "INTERNAL")  t == [s EXCEPT !.ok = 3]
    <2>1. t = [do |-> "guest", arg |-> "RebootGuest", code |-> "INTERNAL", special |-> [c \in {} |-> ""], retry |-> "once",
               ok |-> 3, err |-> 0] /\ "INTERNAL" \in ErrorCode
        BY DEF VW!Step, ErrorCode
    <2>2. g = [t EXCEPT !.err = 1]
        BY DEF VW!Step
    <2> HIDE DEF t, g
    <2>3. g = [do |-> "guest", arg |-> "RebootGuest", code |-> "INTERNAL", special |-> [c \in {} |-> ""], retry |-> "once",
               ok |-> 3, err |-> 1]
        BY <2>1, <2>2
    <2> QED BY <2>1, <2>3 DEF IsStep
<1>3. VW!Reboot = P
    BY DEF VW!Reboot
<1> HIDE DEF e, f, a, g, r, v
<1>4. /\ Len(P) = 6 /\ P = [i \in 1..6 |-> P[i]] /\ P[1] = e /\ P[2] = f /\ P[3] = a /\ P[4] = g /\ P[5] = r
      /\ P[6] = v
    OBVIOUS
<1> HIDE DEF P
<1>5. IsProgram(P)
    BY <1>1, <1>2, <1>4, Six DEF IsProgram, IsPlain
<1>6. EffectOf("Reset") = "booted"
    BY DEF EffectOf, PowerEffect
<1>7. /\ "Reboot" \in Port!Op /\ "Reboot" \in DOMAIN Port!May /\ Port!May["Reboot"] = {"booted", "asked"}
      /\ Port!Promised("Reboot") = {"booted", "asked"} /\ "Reboot" \notin VMAnswers
    BY DEF Port!Op, Port!Reads, Port!May, Port!Promised, VMAnswers
<1>8. \A i \in 1..Len(P) : P[i].do = "send" => i = 5 /\ P[i].arg = "Reset"
    BY <1>1, <1>2, <1>4, Six
<1>9. \A i \in 1..Len(P) : P[i].do # "allocate"
    BY <1>1, <1>2, <1>4, Six
<1>10. Maker(pr, P, 0)
    BY <1>4, <1>6, <1>8, <1>9 DEF Maker
<1>11. Delivery(P, 6, {"booted", "asked"}, {i \in Nat : i > 6})
    <2> DEFINE D == {i \in Nat : i > 6}
    <2>1. 1 \notin D /\ 5 \notin D /\ (\A i \in 1..6 : i + 1 \in D => i = 6) /\ \A i \in Nat : i > Len(P) => i \in D
        BY <1>4
    <2>2. \A i \in 1..Len(P) : i # 4 => P[i].ok = 1 /\ P[i].err = 0
        BY <1>1, <1>4, Six DEF IsPlain
    <2>3. P[4].ok = 3 /\ P[4].err = 1 /\ P[4].do = "guest"
        BY <1>2, <1>4
    <2>4. P[6].do = "wait" /\ P[6 - 1].do = "send" /\ EffectOf(P[6 - 1].arg) \in {"booted", "asked"}
        BY <1>1, <1>4, <1>6
    <2>5. ASSUME NEW i \in 1..Len(P)
          PROVE  /\ i # 6 - 1 => i + P[i].ok # 6
                 /\ P[i].err > 0 => i + P[i].err # 6
                 /\ i \notin D => /\ P[i].err > 0 => i + P[i].err \notin D
                                  /\ i = 6 \/ P[i].do \in {"fail", "guest"} \/ i + P[i].ok \notin D
        BY <1>4, <2>1, <2>2, <2>3
    <2> HIDE DEF D
    <2> DEFINE w == 6
    <2>6. /\ w > 1 /\ P[w].do = "wait" /\ P[w - 1].do = "send" /\ EffectOf(P[w - 1].arg) \in {"booted", "asked"}
          /\ \A i \in 1..Len(P) :
                /\ i # w - 1 => i + P[i].ok # w
                /\ P[i].err > 0 => i + P[i].err # w
                /\ i \notin D => /\ P[i].err > 0 => i + P[i].err \notin D
                                 /\ i = w \/ P[i].do \in {"fail", "guest"} \/ i + P[i].ok \notin D
        BY <2>4, <2>5
    <2> HIDE DEF w
    <2>7. Delivery(P, w, {"booted", "asked"}, D)
        BY <2>1, <2>6 DEF Delivery
    <2> QED BY <2>7 DEF w, D
<1>12. \A i \in 1..Len(P) : P[i].do = "send" => EffectOf(P[i].arg) \in Port!May["Reboot"]
    BY <1>6, <1>7, <1>8
<1>13. Sound(pr, "Reboot", P)
    BY <1>5, <1>7, <1>10, <1>11, <1>12 DEF Sound
<1> QED BY <1>3, <1>13

\* A deletion, after the VM that is on has been switched off.
LEMMA VMwareDelete == ASSUME NEW pr PROVE Sound(pr, "DeleteVM", VW!DeleteVM)
<1> DEFINE A == << VW!EnsureConnected, VW!findVM >>
           r == VW!Send("PowerOff", "INTERNAL")  s == VW!Send("destroy", "INTERNAL")
           l == VW!Lookup("INTERNAL")  y == VW!Step("onlyIf", {"poweredOn"}, "INTERNAL")  v == VW!waitTask
           B == << l, y, r, v >>
           Q == << s, v >>
<1>1. IsPlain(r) /\ r.do = "send" /\ r.arg = "PowerOff" /\ IsPlain(s) /\ s.do = "send" /\ s.arg = "destroy"
    BY VMwareSends
<1>2. EffectOf("PowerOff") = "off" /\ EffectOf("destroy") = "absent"
    BY DEF EffectOf, PowerEffect
<1>3. A \in Seq(VMwareQuiet) /\ l \in VMwareQuiet /\ y \in VMwareQuiet /\ v \in VMwareQuiet /\ v.do = "wait"
    BY DEF VMwareQuiet, VW!waitTask, VW!Wait, VW!Step
<1>4. VW!DeleteVM = A \o Tolerant(B) \o Q
    BY SameSteps DEF VW!DeleteVM
<1> HIDE DEF A, r, s, l, y, v
<1>5. B \in Seq(VMwareQuiet \cup {r}) /\ Len(B) = 4 /\ B[4 - 1] = r /\ B[4] = v
    BY <1>3
<1>6. Q \in Seq(VMwareQuiet \cup {s}) /\ Len(Q) = 2 /\ Q[2 - 1] = s /\ Q[2] = v
    BY <1>3
<1> HIDE DEF B, Q
<1>7. 4 \in Nat \ {0, 1} /\ 2 \in Nat \ {0, 1}
    OBVIOUS
<1>8. IsProgram(B) /\ Contained(B) /\ Sends(B, {"off"}) /\ Maker(pr, B, 0)
    BY <1>1, <1>2, <1>3, <1>5, <1>7, VMwareQuietSteps, RequestList
<1>9. IsProgram(Q) /\ Sends(Q, {"absent"}) /\ Ordered(Q, 2, {"absent"}) /\ Maker(pr, Q, 0)
    BY <1>1, <1>2, <1>3, <1>6, <1>7, VMwareQuietSteps, RequestList
<1>10. Calm(A)
    BY <1>3, VMwareLists
<1> QED BY <1>4, <1>8, <1>9, <1>10, DeleteSound

\* The operations that have a VM made.
LEMMA VMwareMakes ==
    ASSUME NEW pr \in {"vmware", "esxi"}, NEW fromTemplate \in BOOLEAN
    PROVE  /\ Sound(pr, "CreateVM", VW!CreateVM(fromTemplate)) /\ Sound(pr, "CloneVM", VW!CloneVM)
           /\ Sound(pr, "CloneLinked", VW!CloneLinked)
<1> DEFINE e == VW!EnsureConnected  i == VW!Read("INTERNAL")  n == VW!Read("NOT_FOUND")
           l == VW!Lookup("NOT_FOUND")  v == VW!Wait("INTERNAL")  d == VW!Step("adopt", "", "INTERNAL")
           x == VW!Step("snapped", "", "INVALID_STATE")
<1>1. /\ e \in VMwareQuiet /\ i \in VMwareQuiet /\ n \in VMwareQuiet /\ l \in VMwareQuiet /\ v \in VMwareQuiet
      /\ d \in VMwareQuiet /\ x \in VMwareQuiet /\ v.do = "wait"
    BY DEF VMwareQuiet, VW!waitTask, VW!Wait, VW!Step
<1>2. EffectOf("create") = "new" /\ EffectOf("clone") = "new"
    BY DEF EffectOf, PowerEffect
<1>3. ASSUME NEW a \in {"create", "clone"} PROVE Making(pr, << VW!Send(a, "INTERNAL"), v, d >>)
    <2> DEFINE r == VW!Send(a, "INTERNAL")  P == << r, v, d >>
    <2>1. IsPlain(r) /\ r.do = "send" /\ r.retry = "once" /\ EffectOf(r.arg) = "new"
        BY <1>2, VMwareSends
    <2> HIDE DEF r, e, i, n, l, v, d, x
    <2>2. P \in Seq(VMwareQuiet \cup {r}) /\ Len(P) = 3 /\ P[2 - 1] = r /\ P[2] = v /\ P[3] = d
        BY <1>1
    <2> HIDE DEF P
    <2>3. 2 \in 2..Len(P) /\ pr # "proxmox" /\ \A k \in 1..Len(P) : k # 2 - 1 => P[k] \in VMwareQuiet
        BY <1>1, <2>2
    <2>4. Making(pr, P)
        BY <1>1, <2>1, <2>2, <2>3, VMwareQuietSteps, MakeList
    <2> QED BY <2>4 DEF P, r, v, d, e, i, n, l, x
<1> DEFINE C == << VW!Send("create", "INTERNAL"), v, d >>  L == << VW!Send("clone", "INTERNAL"), v, d >>
<1>4. Sound(pr, "CreateVM", VW!CreateVM(TRUE))
    <2> DEFINE A == << e, i >>  B == << n, i >>  T == VW!Tolerant(<<i>>)
    <2>1. Calm(A) /\ Calm(B) /\ Calm(T)
        <3>1. A \in Seq(VMwareQuiet) /\ B \in Seq(VMwareQuiet) /\ <<i>> \in Seq(VMwareQuiet)
            <4> HIDE DEF e, i, n, l, v, d, x
            <4> QED BY <1>1
        <3> QED BY <3>1, VMwareLists
    <2>2. VW!CreateVM(TRUE) = (A \o ((B \o T) \o C)) \o VW!GetVM
        BY DEF VW!CreateVM, VW!cloneFromTemplate
    <2>3. Making(pr, C)
        BY <1>3
    <2> HIDE DEF A, B, T, C
    <2>4. Calm(B \o T)
        BY <2>1, CalmCat
    <2>5. Making(pr, A \o ((B \o T) \o C))
        BY <2>1, <2>3, <2>4, MakingCat
    <2> QED BY <2>2, <2>5, VMwareGetVM, MakeSound
<1>5. Sound(pr, "CreateVM", VW!CreateVM(FALSE))
    <2> DEFINE A == << e, i >>  B == << i, i >>
    <2>1. Calm(A) /\ Calm(B)
        <3>1. A \in Seq(VMwareQuiet) /\ B \in Seq(VMwareQuiet)
            <4> HIDE DEF e, i, n, l, v, d, x
            <4> QED BY <1>1
        <3> QED BY <3>1, VMwareLists
    <2>2. VW!CreateVM(FALSE) = (A \o (B \o C)) \o VW!GetVM
        <3>1. \A p, q, r, s, u : << p, q, r, s, u >> = << p, q >> \o << r, s, u >>
            OBVIOUS
        <3>2. VW!createBlankVM = << i, i, VW!Send("create", "INTERNAL"), v, d >>
            BY DEF VW!createBlankVM
        <3>3. << i, i, VW!Send("create", "INTERNAL"), v, d >> = B \o C
            <4> HIDE DEF e, i, n, l, v, d, x
            <4> QED BY <3>1
        <3> QED BY <3>2, <3>3 DEF VW!CreateVM
    <2>3. Making(pr, C)
        BY <1>3
    <2> HIDE DEF A, B, C
    <2>4. Making(pr, A \o (B \o C))
        BY <2>1, <2>3, MakingCat
    <2> QED BY <2>2, <2>4, VMwareGetVM, MakeSound
<1>6. Sound(pr, "CloneVM", VW!CloneVM)
    <2> DEFINE A == << e, i, l, i >>  H == VW!hostResourcePool  T == VW!Tolerant(<<i>>)
    <2>1. Calm(A) /\ Calm(H) /\ Calm(T)
        <3>1. A \in Seq(VMwareQuiet) /\ <<i>> \in Seq(VMwareQuiet)
            <4> HIDE DEF e, i, n, l, v, d, x
            <4> QED BY <1>1
        <3> QED BY <3>1, VMwareLists, VMwareCalm
    <2>2. VW!CloneVM = (((A \o H) \o T) \o L) \o VW!GetVM
        BY DEF VW!CloneVM
    <2>3. Making(pr, L)
        BY <1>3
    <2> HIDE DEF A, H, T, L
    <2>4. Calm((A \o H) \o T)
        BY <2>1, CalmCat
    <2>5. Making(pr, ((A \o H) \o T) \o L)
        BY <2>3, <2>4, MakingCat
    <2> QED BY <2>2, <2>5, VMwareGetVM, MakeSound
<1>7. Sound(pr, "CloneLinked", VW!CloneLinked)
    <2> DEFINE A == << e, i, l, i >>  H == VW!hostResourcePool  B == <<x>>
    <2>1. Calm(A) /\ Calm(H) /\ Calm(B)
        <3>1. A \in Seq(VMwareQuiet) /\ B \in Seq(VMwareQuiet)
            <4> HIDE DEF e, i, n, l, v, d, x
            <4> QED BY <1>1
        <3> QED BY <3>1, VMwareLists, VMwareCalm
    <2>2. VW!CloneLinked = ((A \o H) \o (B \o L)) \o VW!GetVM
        <3>1. \A p, q, r, s : << p, q, r, s >> = << p >> \o << q, r, s >>
            OBVIOUS
        <3>2. << x, VW!Send("clone", "INTERNAL"), v, d >> = B \o L
            BY <3>1
        <3> QED BY <3>2 DEF VW!CloneLinked
    <2>3. Making(pr, L)
        BY <1>3
    <2> HIDE DEF A, H, B, L
    <2>4. Calm(A \o H)
        BY <2>1, CalmCat
    <2>5. Making(pr, (A \o H) \o (B \o L))
        BY <2>1, <2>3, <2>4, MakingCat
    <2> QED BY <2>2, <2>5, VMwareGetVM, MakeSound
<1> QED BY <1>4, <1>5, <1>6, <1>7


\* What is asked of the step programs is true of all of vSphere's.
LEMMA VMwareSound ==
    ASSUME NEW pr \in {"vmware", "esxi"}, NEW t \in BOOLEAN
    PROVE  \A o \in DOMAIN VMwareOps(t) : Sound(pr, o, VMwareOps(t)[o])
<1> DEFINE N == {"Connect", "Disconnect", "Ping", "GetVMMetrics", "ListSnapshots", "ListVMs", "ListDataStores",
                 "GetDataStore", "ListNetworks", "GetNetwork", "ListTemplates", "GetConsoleSession"}
           M == {"PowerOn", "PowerOff", "Reboot", "Suspend", "Reset", "CreateSnapshot", "DeleteSnapshot",
                 "RevertSnapshot", "DeleteVM", "CreateVM", "CloneVM", "CloneLinked"}
<1>1. \A o \in N : o \in Port!Reads \ {"GetVM", "SyncInventory"}
    BY DEF Port!Reads
<1>2. \A o \in N : Calm(VMwareOps(t)[o])
    BY VMwareCalm DEF VMwareOps
<1>3. \A o \in N : Sound(pr, o, VMwareOps(t)[o])
    <2> HIDE DEF N
    <2> QED BY <1>1, <1>2, QuietSound DEF Calm
<1>4. Sound(pr, "GetVM", VMwareOps(t)["GetVM"]) /\ Sound(pr, "SyncInventory", VMwareOps(t)["SyncInventory"])
    <2>1. Sound(pr, "GetVM", VW!GetVM)
        BY VMwareGetVM, QuietSound DEF Reading, Calm
    <2>2. Sound(pr, "SyncInventory", VW!SyncInventory)
        BY VMwareSync, QuietSound DEF Calm
    <2> QED BY <2>1, <2>2 DEF VMwareOps
<1>5. \A o \in M : Sound(pr, o, VMwareOps(t)[o])
    BY VMwareRequests, VMwareReboot, VMwareDelete, VMwareMakes DEF VMwareOps
<1>6. DOMAIN VMwareOps(t) = N \cup {"GetVM", "SyncInventory"} \cup M
    BY DEF VMwareOps
<1> QED BY <1>3, <1>4, <1>5, <1>6


----------------------------------------------------------------------------
(* The operations of ESXi *)

\* Positions within the groups of a loop.
LEMMA Groups ==
    ASSUME NEW n \in {3, 4}, NEW k \in Nat, NEW i \in 1..n * k
    PROVE  LET j == ((i - 1) % n) + 1 IN j \in 1..n /\ i + n - j <= n * k /\ i \in Nat
<1>1. CASE n = 3
    BY <1>1
<1>2. CASE n = 4
    BY <1>2
<1> QED BY <1>1, <1>2

\* The positions of group d.
LEMMA GroupAt ==
    ASSUME NEW d \in Nat \ {0}
    PROVE  /\ \A j \in 1..4 : /\ (4 * (d - 1) + j + 4 - 1) \div 4 = d
                              /\ ((4 * (d - 1) + j - 1) % 4) + 1 = j
           /\ \A j \in 1..3 : /\ (3 * (d - 1) + j + 3 - 1) \div 3 = d
                              /\ ((3 * (d - 1) + j - 1) % 3) + 1 = j
OBVIOUS

\* The loop that copies the disks.
LEMMA CopySteps ==
    /\ IsProgram(EX!copyDisks) /\ Len(EX!copyDisks) = 4 * Disks
    /\ \A i \in 1..4 * Disks : LET s == EX!copyDisks[i]
                               IN  /\ IsPlain(s) /\ s.do \in {"disk", "send", "wait", "copied"}
                                   /\ s.do = "send" => s.arg = "copyDisk"
    /\ \A d \in 1..Disks : /\ EX!copyDisks[4 * (d - 1) + 1].do = "disk" /\ EX!copyDisks[4 * (d - 1) + 1].arg = d
                           /\ EX!copyDisks[4 * (d - 1) + 2].do = "send" /\ EX!copyDisks[4 * (d - 1) + 3].do = "wait"
                           /\ EX!copyDisks[4 * (d - 1) + 4].do = "copied" /\ EX!copyDisks[4 * (d - 1) + 4].arg = d
<1> DEFINE C == EX!copyDisks
<1>1. Disks \in Nat
    BY BoundsAssumption
<1>2. C = [i \in 1..4 * Disks |-> EX!copyDisk((i + 4 - 1) \div 4)[((i - 1) % 4) + 1]]
    <2>1. \A i \in 1..4 * Disks : (i + 4 - 1) \div 4 \in 1..Disks
        BY <1>1
    <2>2. C = [i \in 1..4 * Disks |-> [d \in 1..Disks |-> EX!copyDisk(d)][(i + 4 - 1) \div 4][((i - 1) % 4) + 1]]
        BY DEF EX!copyDisks, EX!ForEachDisk
    <2> QED BY <2>1, <2>2
<1>3. ASSUME NEW d, NEW j \in 1..4
      PROVE  LET s == EX!copyDisk(d)[j]
             IN  /\ IsPlain(s) /\ s.do \in {"disk", "send", "wait", "copied"}
                 /\ s.do = "send" => s.arg = "copyDisk"
                 /\ s.do = << "disk", "send", "wait", "copied" >>[j] /\ (j = 1 \/ j = 4 => s.arg = d)
    <2> DEFINE a == EX!Step("disk", d, "INTERNAL")  b == EX!Send("copyDisk", "INTERNAL")  v == EX!Wait("INTERNAL")
               e == EX!Step("copied", d, "INTERNAL")
    <2>1. /\ IsPlain(a) /\ a.do = "disk" /\ a.arg = d /\ e.arg = d /\ IsPlain(b) /\ b.do = "send" /\ b.arg = "copyDisk"
          /\ IsPlain(v) /\ v.do = "wait" /\ IsPlain(e) /\ e.do = "copied"
        BY DEF EX!Step, EX!Send, EX!Wait, IsPlain, IsStep, ErrorCode
    <2>2. EX!copyDisk(d) = << a, b, v, e >>
        BY DEF EX!copyDisk
    <2> HIDE DEF a, b, v, e
    <2>3. j = 1 \/ j = 2 \/ j = 3 \/ j = 4
        OBVIOUS
    <2> QED BY <2>1, <2>2, <2>3
<1> HIDE DEF C
<1>4. C = [i \in 1..4 * Disks |-> C[i]] /\ Len(C) = 4 * Disks /\ 4 * Disks \in Nat
    BY <1>1, <1>2
<1>5. ASSUME NEW i \in 1..4 * Disks
      PROVE  /\ IsPlain(C[i]) /\ C[i].do \in {"disk", "send", "wait", "copied"}
             /\ C[i].do = "send" => C[i].arg = "copyDisk"
    <2> DEFINE j == ((i - 1) % 4) + 1
    <2>1. j \in 1..4
        BY <1>1, Groups
    <2>2. C[i] = EX!copyDisk((i + 4 - 1) \div 4)[j]
        BY <1>2
    <2> HIDE DEF j
    <2> QED BY <1>3, <2>1, <2>2
<1>6. IsProgram(C)
    BY <1>4, <1>5 DEF IsProgram, IsPlain
<1>7. ASSUME NEW d \in 1..Disks
      PROVE  /\ C[4 * (d - 1) + 1].do = "disk" /\ C[4 * (d - 1) + 1].arg = d
             /\ C[4 * (d - 1) + 2].do = "send" /\ C[4 * (d - 1) + 3].do = "wait"
             /\ C[4 * (d - 1) + 4].do = "copied" /\ C[4 * (d - 1) + 4].arg = d
    <2>1. ASSUME NEW j \in 1..4 PROVE C[4 * (d - 1) + j] = EX!copyDisk(d)[j]
        <3> DEFINE i == 4 * (d - 1) + j
        <3>1. i \in 1..4 * Disks /\ d \in Nat \ {0}
            BY <1>1
        <3>2. (i + 4 - 1) \div 4 = d /\ ((i - 1) % 4) + 1 = j
            BY <3>1, GroupAt
        <3> HIDE DEF i
        <3> QED BY <1>2, <3>1, <3>2 DEF i
    <2>2. 1 \in 1..4 /\ 2 \in 1..4 /\ 3 \in 1..4 /\ 4 \in 1..4
        OBVIOUS
    <2>3. \A j \in 1..4 : /\ C[4 * (d - 1) + j].do = << "disk", "send", "wait", "copied" >>[j]
                          /\ j = 1 \/ j = 4 => C[4 * (d - 1) + j].arg = d
        BY <1>3, <2>1
    <2> HIDE DEF C
    <2> QED BY <2>2, <2>3
<1> QED BY <1>4, <1>5, <1>6, <1>7 DEF C

\* The loop that deletes what has been copied.
LEMMA CleanupSteps ==
    /\ IsProgram(EX!cleanupDisks) /\ Len(EX!cleanupDisks) = 3 * Disks
    /\ \A i \in 1..3 * Disks : LET s == EX!cleanupDisks[i]
                               IN  /\ s.ok = 1 /\ i + s.err <= 3 * Disks + 1 /\ s.do \in {"isCopied", "send", "wait"}
                                   /\ s.do = "send" => s.arg = "deleteDisk"
    /\ \A d \in 1..Disks, j \in 1..3 : LET s == EX!cleanupDisks[3 * (d - 1) + j]
                                      IN  /\ s.do = << "isCopied", "send", "wait" >>[j] /\ s.err = 4 - j
                                          /\ j = 1 => s.arg = d
<1> DEFINE C == EX!cleanupDisks
<1>1. Disks \in Nat
    BY BoundsAssumption
<1>2. C = [i \in 1..3 * Disks |-> EX!cleanupDisk((i + 3 - 1) \div 3)[((i - 1) % 3) + 1]]
    <2>1. \A i \in 1..3 * Disks : (i + 3 - 1) \div 3 \in 1..Disks
        BY <1>1
    <2>2. C = [i \in 1..3 * Disks |-> [d \in 1..Disks |-> EX!cleanupDisk(d)][(i + 3 - 1) \div 3][((i - 1) % 3) + 1]]
        BY DEF EX!cleanupDisks, EX!ForEachDisk
    <2> QED BY <2>1, <2>2
<1>3. ASSUME NEW d, NEW j \in 1..3
      PROVE  LET s == EX!cleanupDisk(d)[j]
             IN  /\ IsStep(s) /\ s.ok = 1 /\ s.err = 4 - j /\ s.do \in {"isCopied", "send", "wait"}
                 /\ s.do = "send" => s.arg = "deleteDisk"
                 /\ s.do = << "isCopied", "send", "wait" >>[j] /\ (j = 1 => s.arg = d)
    <2> DEFINE a == EX!Step("isCopied", d, "INTERNAL")  b == EX!Send("deleteDisk", "INTERNAL")  v == EX!Wait("INTERNAL")
               G == << a, b, v >>
    <2>1. /\ IsPlain(a) /\ a.do = "isCopied" /\ a.arg = d /\ IsPlain(b) /\ b.do = "send" /\ b.arg = "deleteDisk"
          /\ IsPlain(v) /\ v.do = "wait"
        BY DEF EX!Step, EX!Send, EX!Wait, IsPlain, IsStep, ErrorCode
    <2>2. EX!cleanupDisk(d) = Tolerant(G)
        BY SameSteps DEF EX!cleanupDisk
    <2> HIDE DEF a, b, v
    <2>3. Len(G) = 3 /\ G \in Seq({a, b, v}) /\ G[1] = a /\ G[2] = b /\ G[3] = v
        OBVIOUS
    <2>4. j = 1 \/ j = 2 \/ j = 3
        OBVIOUS
    <2> DEFINE S == {a, b, v}
    <2>5. (\A s \in S : IsPlain(s)) /\ G \in Seq(S)
        BY <2>1, <2>3
    <2> HIDE DEF G, S
    <2>6. IsProgram(G) /\ Contained(G)
        BY <2>5, PlainList
    <2>7. /\ IsProgram(Tolerant(G)) /\ Len(Tolerant(G)) = 3 /\ Tolerant(G)[j].do = G[j].do
          /\ Tolerant(G)[j].arg = G[j].arg /\ Tolerant(G)[j].ok = G[j].ok
        BY <2>3, <2>6, TolerantKeeps
    <2>8. Tolerant(G)[j].err = 4 - j
        <3>1. Tolerant(G)[j] = [G[j] EXCEPT !.err = 4 - j] /\ IsStep(G[j])
            BY <2>3, <2>6 DEF Tolerant, IsProgram
        <3> QED BY <3>1 DEF IsStep
    <2>9. IsStep(Tolerant(G)[j])
        BY <2>7 DEF IsProgram
    <2> QED BY <2>1, <2>2, <2>3, <2>4, <2>7, <2>8, <2>9 DEF IsPlain
<1> HIDE DEF C
<1>4. C = [i \in 1..3 * Disks |-> C[i]] /\ Len(C) = 3 * Disks /\ 3 * Disks \in Nat
    BY <1>1, <1>2
<1>5. ASSUME NEW i \in 1..3 * Disks
      PROVE  /\ IsStep(C[i]) /\ C[i].ok = 1 /\ i + C[i].err <= 3 * Disks + 1 /\ C[i].do \in {"isCopied", "send", "wait"}
             /\ C[i].do = "send" => C[i].arg = "deleteDisk"
    <2> DEFINE j == ((i - 1) % 3) + 1
    <2>1. j \in 1..3 /\ i + 3 - j <= 3 * Disks /\ i \in Nat
        BY <1>1, Groups
    <2>2. C[i] = EX!cleanupDisk((i + 3 - 1) \div 3)[j]
        BY <1>2
    <2> HIDE DEF j
    <2>3. IsStep(C[i]) /\ C[i].ok = 1 /\ C[i].err = 4 - j /\ C[i].do \in {"isCopied", "send", "wait"}
        BY <1>3, <2>1, <2>2
    <2>4. C[i].do = "send" => C[i].arg = "deleteDisk"
        BY <1>3, <2>1, <2>2
    <2> QED BY <1>1, <2>1, <2>3, <2>4
<1>6. IsProgram(C)
    BY <1>4, <1>5 DEF IsProgram
<1>7. ASSUME NEW d \in 1..Disks, NEW j \in 1..3
      PROVE  LET s == C[3 * (d - 1) + j]
             IN  s.do = << "isCopied", "send", "wait" >>[j] /\ s.err = 4 - j /\ (j = 1 => s.arg = d)
    <2> DEFINE i == 3 * (d - 1) + j
    <2>1. i \in 1..3 * Disks /\ d \in Nat \ {0}
        BY <1>1
    <2>2. (i + 3 - 1) \div 3 = d /\ ((i - 1) % 3) + 1 = j
        BY <2>1, GroupAt
    <2> HIDE DEF i
    <2>3. C[i] = EX!cleanupDisk(d)[j]
        BY <1>2, <2>1, <2>2
    <2> HIDE DEF C
    <2> QED BY <1>3, <2>3 DEF i
<1> QED BY <1>4, <1>5, <1>6, <1>7 DEF C

\* A group whose errors lead behind it.
LEMMA OnErrorKeeps ==
    ASSUME NEW G, IsProgram(G), NEW b \in Nat
    PROVE  LET T == EX!OnErrorTo(G, b)
           IN  /\ IsProgram(T) /\ Len(T) = Len(G)
               /\ \A i \in 1..Len(G) : /\ T[i].do = G[i].do /\ T[i].arg = G[i].arg /\ T[i].retry = G[i].retry
                                       /\ T[i].ok = G[i].ok /\ i + T[i].err = Len(G) + 1 + b
<1> DEFINE T == EX!OnErrorTo(G, b)
<1>1. Len(T) = Len(G) /\ Len(G) \in Nat /\ T = [i \in 1..Len(G) |-> T[i]]
    BY DEF EX!OnErrorTo, IsProgram
<1>2. ASSUME NEW i \in 1..Len(G)
      PROVE  /\ T[i].do = G[i].do /\ T[i].arg = G[i].arg /\ T[i].retry = G[i].retry
             /\ T[i].ok = G[i].ok /\ i + T[i].err = Len(G) + 1 + b /\ IsStep(T[i])
    <2>1. IsStep(G[i]) /\ T[i] = [G[i] EXCEPT !.err = Len(G) + 1 + b - i]
        BY DEF EX!OnErrorTo, IsProgram
    <2> DEFINE z == Len(G) + 1 + b - i
    <2>2. z \in Nat /\ i + z = Len(G) + 1 + b /\ T[i] = [G[i] EXCEPT !.err = z]
        BY <1>1, <2>1
    <2> HIDE DEF T, z
    <2> QED BY <2>1, <2>2 DEF IsStep
<1> HIDE DEF T
<1>3. IsProgram(T)
    BY <1>1, <1>2 DEF IsProgram
<1> QED BY <1>1, <1>2, <1>3 DEF T

\* The registration of the clone.
LEMMA RegisterSteps ==
    LET R == EX!registerVM
    IN  /\ IsProgram(R) /\ Len(R) = 5 /\ \A i \in 1..5 : IsPlain(R[i])
        /\ R[1].do = "read" /\ R[2].do = "read" /\ R[3].do = "read"
        /\ R[4].do = "send" /\ R[4].arg = "register" /\ R[4].retry = "once" /\ R[5].do = "wait"
<1> DEFINE r == EX!Read("INTERNAL")  q == VW!Read("INTERNAL")  s == EX!Send("register", "INTERNAL")
           v == EX!Wait("INTERNAL")  S == {r, q, s, v}  R == << r, q, q, s, v >>
<1>1. /\ IsPlain(r) /\ r.do = "read" /\ IsPlain(q) /\ q.do = "read" /\ IsPlain(v) /\ v.do = "wait"
      /\ IsPlain(s) /\ s.do = "send" /\ s.arg = "register" /\ s.retry = "once"
    BY DEF EX!Read, EX!Send, EX!Wait, EX!Step, VW!Read, VW!Step, IsPlain, IsStep, ErrorCode
<1>2. EX!registerVM = << r >> \o << q, q >> \o << s, v >>
    <2>1. EX!VMware!hostResourcePool = << q, q >>
        BY DEF EX!VMware!hostResourcePool, EX!VMware!Read, EX!VMware!Step, VW!Read, VW!Step
    <2> HIDE DEF r, q, v
    <2> QED BY <2>1 DEF EX!registerVM, EX!buildCloneConfigSpec, r, v
<1> HIDE DEF r, q, s, v
<1>3. EX!registerVM = R
    <2>1. \A x, y, z : << x, y, z >> = << x >> \o << y, z >>
        OBVIOUS
    <2>3. << r >> \o << q, q >> = << r, q, q >>
        BY <2>1
    <2>4. R = << r, q, q >> \o << s, v >>
        OBVIOUS
    <2> HIDE DEF R
    <2> QED BY <1>2, <2>3, <2>4
<1>4. R \in Seq(S) /\ Len(R) = 5 /\ R[1] = r /\ R[2] = q /\ R[3] = q /\ R[4] = s /\ R[5] = v
    OBVIOUS
<1>5. \A x \in S : IsPlain(x)
    BY <1>1
<1> HIDE DEF R, S
<1>6. IsProgram(R)
    BY <1>4, <1>5, PlainList
<1>7. \A i \in 1..5 : IsPlain(R[i])
    <2>1. \A i \in 1..5 : i = 1 \/ i = 2 \/ i = 3 \/ i = 4 \/ i = 5
        OBVIOUS
    <2> QED BY <1>4, <1>5, <2>1 DEF S
<1> QED BY <1>1, <1>3, <1>4, <1>6, <1>7

\* The read of the clone, whose success skips what follows.
LEMMA GetCloneSteps ==
    ASSUME NEW n \in Nat \ {0}
    PROVE  LET G == EX!getClone(n)
           IN  /\ IsProgram(G) /\ Len(G) = 4
               /\ \A i \in 1..4 : G[i].do \in {"adopt", "ensure", "lookup"} /\ G[i].err = 0
               /\ G[1].ok = 1 /\ G[2].ok = 1 /\ G[3].ok = 1 /\ G[4].ok = n
<1> DEFINE a == EX!Step("adopt", "", "INTERNAL")  e == VW!EnsureConnected  f == VW!findVM
           l == VW!Lookup("INTERNAL")  k == [l EXCEPT !.ok = n]  G == << a, e, f, k >>
<1>1. /\ IsPlain(a) /\ a.do = "adopt" /\ IsPlain(e) /\ e.do = "ensure" /\ IsPlain(f) /\ f.do = "lookup"
      /\ IsPlain(l) /\ l.do = "lookup"
    BY DEF EX!Step, VW!EnsureConnected, VW!findVM, VW!Lookup, VW!Step, IsPlain, IsStep, ErrorCode
<1>2. EX!VMware!GetVM = << e, f, l >>
    BY DEF EX!VMware!GetVM, EX!VMware!EnsureConnected, EX!VMware!findVM, EX!VMware!Lookup, EX!VMware!Step,
           VW!EnsureConnected, VW!findVM, VW!Lookup, VW!Step
<1> HIDE DEF a, e, f, l
<1>3. IsStep(k) /\ k.do = "lookup" /\ k.ok = n /\ k.err = 0
    BY <1>1 DEF IsPlain, IsStep
<1> HIDE DEF k
<1>4. EX!getClone(n) = G
    <2>1. [<< e, f, l >> EXCEPT ![3].ok = n] = << e, f, k >>
        BY DEF k
    <2>2. EX!getClone(n) = << a >> \o << e, f, k >>
        BY <1>2, <2>1 DEF EX!getClone, a
    <2>3. \A x, y, z, u : << x, y, z, u >> = << x >> \o << y, z, u >>
        OBVIOUS
    <2> QED BY <2>2, <2>3
<1>5. Len(G) = 4 /\ G = [i \in 1..4 |-> G[i]] /\ G[1] = a /\ G[2] = e /\ G[3] = f /\ G[4] = k
    OBVIOUS
<1> HIDE DEF G
<1>6. \A i \in 1..4 : i = 1 \/ i = 2 \/ i = 3 \/ i = 4
    OBVIOUS
<1>7. \A i \in 1..4 : IsStep(G[i]) /\ G[i].do \in {"adopt", "ensure", "lookup"} /\ G[i].err = 0
    BY <1>1, <1>3, <1>5, <1>6 DEF IsPlain
<1>8. IsProgram(G)
    BY <1>5, <1>7 DEF IsProgram
<1> QED BY <1>1, <1>3, <1>4, <1>5, <1>7, <1>8 DEF IsPlain


\* A part of a program within the whole: where its steps are.
LEMMA Within ==
    ASSUME NEW P, NEW Q, IsProgram(P), IsProgram(Q)
    PROVE  /\ IsProgram(P \o Q) /\ Len(P \o Q) = Len(P) + Len(Q) /\ Len(P) \in Nat /\ Len(Q) \in Nat
           /\ \A i \in 1..Len(P) : (P \o Q)[i] = P[i]
           /\ \A i \in Len(P) + 1..Len(P) + Len(Q) : i - Len(P) \in 1..Len(Q) /\ (P \o Q)[i] = Q[i - Len(P)]
<1>1. Len(P) \in Nat /\ Len(Q) \in Nat
    BY DEF IsProgram
<1>2. /\ IsProgram(P \o Q) /\ Len(P \o Q) = Len(P) + Len(Q)
      /\ \A i \in 1..Len(P) : (P \o Q)[i] = P[i]
      /\ \A i \in 1..Len(Q) : (P \o Q)[Len(P) + i] = Q[i]
    BY Cat
<1> DEFINE n == Len(P)  k == Len(Q)  R == P \o Q
<1> HIDE DEF n, k, R
<1>3. ASSUME NEW i \in n + 1..n + k PROVE i - n \in 1..k /\ n + (i - n) = i
    BY <1>1 DEF n, k
<1>4. ASSUME NEW i \in n + 1..n + k PROVE R[i] = Q[i - n]
    BY <1>2, <1>3 DEF R, n, k
<1> QED BY <1>1, <1>2, <1>3, <1>4 DEF R, n, k

\* The clone by copied disks: where its steps are and where they lead.  The registration is waited for at w.
LEMMA CloneSteps ==
    LET P == EX!CloneVM  w == 4 * Disks + 9  z == 7 * Disks + 14
    IN  /\ Disks \in Nat /\ w \in Nat /\ z \in Nat /\ IsProgram(P) /\ Len(P) = z
        /\ \A i \in 1..4 : P[i].ok = 1 /\ i + P[i].err <= 5 /\ P[i].do \in {"ensure", "lookup", "read"}
        /\ P[1].err = 0 /\ P[2].err = 0 /\ P[2].do = "lookup"
        /\ \A i \in 5..w : /\ P[i].ok = 1 /\ i + P[i].err = w + 5
                           /\ P[i].do \in {"disk", "send", "wait", "copied", "read"}
                           /\ P[i].do = "send" => i = w - 1 \/ P[i].arg = "copyDisk"
        /\ P[w - 1].do = "send" /\ P[w - 1].arg = "register" /\ P[w - 1].retry = "once" /\ P[w].do = "wait"
        /\ \A i \in w + 1..w + 4 : /\ P[i].do \in {"adopt", "ensure", "lookup"} /\ P[i].err = 0
                                   /\ P[i].ok = (IF i = w + 4 THEN 3 * Disks + 2 ELSE 1)
        /\ \A i \in w + 5..z - 1 : /\ P[i].ok = 1 /\ i + P[i].err <= z /\ P[i].do \in {"isCopied", "send", "wait"}
                                   /\ P[i].do = "send" => P[i].arg = "deleteDisk"
        /\ P[z].do = "fail" /\ P[z].ok = 1 /\ P[z].err = 0
        /\ \A i \in 1..4 * Disks : P[4 + i].do = EX!copyDisks[i].do /\ P[4 + i].arg = EX!copyDisks[i].arg
        /\ \A i \in w - 4..w - 2 : P[i].do = "read"
        /\ \A i \in 1..3 * Disks : P[w + 4 + i] = EX!cleanupDisks[i]
<1> DEFINE A == << EX!EnsureConnected, EX!Lookup("NOT_FOUND") >> \o EX!resolveSourceDatastore
                \o EX!Tolerant(<<EX!Read("INTERNAL")>>)
           G == EX!copyDisks \o EX!registerVM
           K == EX!OnErrorTo(G, 4)
           C == EX!getClone(3 * Disks + 2)
           X == EX!cleanupDisks
           F == << EX!Step("fail", "", "INTERNAL") >>
           P == (((A \o K) \o C) \o X) \o F
           w == 4 * Disks + 9
           z == 7 * Disks + 14
<1>1. Disks \in Nat /\ w \in Nat /\ z \in Nat /\ 3 * Disks + 2 \in Nat \ {0} /\ 3 * Disks \in Nat /\ 4 * Disks \in Nat
    BY BoundsAssumption
<1>2. EX!CloneVM = P
    BY CleanupSteps DEF EX!CloneVM
<1>3. /\ IsProgram(A) /\ Len(A) = 4
      /\ \A i \in 1..4 : A[i].ok = 1 /\ i + A[i].err <= 5 /\ A[i].do \in {"ensure", "lookup", "read"}
      /\ A[1].err = 0 /\ A[2].err = 0 /\ A[2].do = "lookup"
    <2> DEFINE e == EX!EnsureConnected  l == EX!Lookup("NOT_FOUND")  r == EX!Read("INTERNAL")
               B == << e, l, r >>  S == {e, l, r}  T == Tolerant(<<r>>)
    <2>1. /\ IsPlain(e) /\ e.do = "ensure" /\ IsPlain(l) /\ l.do = "lookup" /\ IsPlain(r) /\ r.do = "read"
        BY DEF EX!EnsureConnected, EX!Lookup, EX!Read, EX!Step, IsPlain, IsStep, ErrorCode
    <2>2. A = << e, l >> \o << r >> \o T
        BY SameSteps DEF EX!resolveSourceDatastore
    <2> HIDE DEF e, l, r, A
    <2>3. B = << e, l >> \o << r >>
        OBVIOUS
    <2>4. B \in Seq(S) /\ Len(B) = 3 /\ B[1] = e /\ B[2] = l /\ B[3] = r
        OBVIOUS
    <2>5. << r >> \in Seq(S) /\ Len(<<r>>) = 1 /\ <<r>>[1] = r
        OBVIOUS
    <2>6. \A s \in S : IsPlain(s)
        BY <2>1
    <2> DEFINE R == << r >>
    <2> HIDE DEF S, B
    <2>7. IsProgram(B) /\ IsProgram(R) /\ Contained(R)
        BY <2>4, <2>5, <2>6, PlainList
    <2>8. IsProgram(T) /\ Len(T) = 1 /\ T[1].do = "read" /\ T[1].ok = 1 /\ T[1].err = 1
        <3>1. IsProgram(T) /\ Len(T) = 1 /\ T[1].do = r.do /\ T[1].ok = r.ok
            BY <2>5, <2>7, TolerantKeeps
        <3>2. T[1] = [r EXCEPT !.err = 1]
            BY <2>5 DEF Tolerant
        <3> QED BY <2>1, <3>1, <3>2 DEF IsPlain, IsStep
    <2> HIDE DEF T
    <2>9. A = B \o T
        BY <2>2, <2>3
    <2>10. IsProgram(A) /\ Len(A) = 4 /\ A[1] = e /\ A[2] = l /\ A[3] = r /\ A[4] = T[1]
        <3>1. 1 \in 1..3 /\ 2 \in 1..3 /\ 3 \in 1..3 /\ 1 \in 1..1
            OBVIOUS
        <3>2. IsProgram(A) /\ Len(A) = 3 + 1 /\ (\A i \in 1..3 : A[i] = B[i]) /\ A[3 + 1] = T[1]
            <4>0. IsProgram(B) /\ IsProgram(T)
                BY <2>7, <2>8
            <4>1. /\ IsProgram(B \o T) /\ Len(B \o T) = Len(B) + Len(T)
                  /\ \A i \in 1..Len(B) : (B \o T)[i] = B[i]
                  /\ \A i \in 1..Len(T) : (B \o T)[Len(B) + i] = T[i]
                BY <4>0, Cat
            <4>2. Len(B) = 3 /\ Len(T) = 1
                BY <2>4, <2>8
            <4> QED BY <2>9, <3>1, <4>1, <4>2
        <3> QED BY <2>4, <3>1, <3>2
    <2>11. \A i \in 1..4 : i = 1 \/ i = 2 \/ i = 3 \/ i = 4
        OBVIOUS
    <2>12. /\ A[1].err = 0 /\ A[1].ok = 1 /\ A[2].err = 0 /\ A[2].ok = 1 /\ A[3].err = 0 /\ A[3].ok = 1 /\ A[4].err = 1
           /\ A[4].ok = 1
        BY <2>1, <2>8, <2>10 DEF IsPlain
    <2>13. A[1].do = "ensure" /\ A[2].do = "lookup" /\ A[3].do = "read" /\ A[4].do = "read"
        BY <2>1, <2>8, <2>10
    <2> QED BY <2>10, <2>11, <2>12, <2>13
<1>4. /\ IsProgram(G) /\ Len(G) = 4 * Disks + 5
      /\ \A i \in 1..4 * Disks : /\ G[i].ok = 1 /\ G[i].do \in {"disk", "send", "wait", "copied"}
                                 /\ G[i].do = "send" => G[i].arg = "copyDisk"
      /\ \A i \in 4 * Disks + 1..4 * Disks + 5 :
             /\ G[i].ok = 1
             /\ G[i].do = (IF i = 4 * Disks + 4 THEN "send" ELSE IF i = 4 * Disks + 5 THEN "wait" ELSE "read")
             /\ i = 4 * Disks + 4 => G[i].arg = "register" /\ G[i].retry = "once"
      /\ \A i \in 1..4 * Disks : G[i] = EX!copyDisks[i]
    <2> DEFINE M == EX!copyDisks  R == EX!registerVM  n == 4 * Disks
    <2>1. /\ IsProgram(M) /\ Len(M) = n /\ IsProgram(R) /\ Len(R) = 5
          /\ \A i \in 1..n : /\ M[i].ok = 1 /\ M[i].do \in {"disk", "send", "wait", "copied"}
                             /\ M[i].do = "send" => M[i].arg = "copyDisk"
          /\ \A i \in 1..5 : R[i].ok = 1
          /\ R[1].do = "read" /\ R[2].do = "read" /\ R[3].do = "read"
          /\ R[4].do = "send" /\ R[4].arg = "register" /\ R[4].retry = "once" /\ R[5].do = "wait"
        BY CopySteps, RegisterSteps DEF IsPlain
    <2> HIDE DEF M, R, n
    <2>2. /\ IsProgram(M \o R) /\ Len(M \o R) = n + 5 /\ n \in Nat
          /\ \A i \in 1..n : (M \o R)[i] = M[i]
          /\ \A i \in n + 1..n + 5 : i - n \in 1..5 /\ (M \o R)[i] = R[i - n]
        <3>0. IsProgram(M) /\ IsProgram(R)
            BY <2>1
        <3>1. /\ IsProgram(M \o R) /\ Len(M \o R) = Len(M) + Len(R) /\ Len(M) \in Nat
              /\ \A i \in 1..Len(M) : (M \o R)[i] = M[i]
              /\ \A i \in Len(M) + 1..Len(M) + Len(R) : i - Len(M) \in 1..Len(R) /\ (M \o R)[i] = R[i - Len(M)]
            BY <3>0, Within
        <3>2. Len(M) = n /\ Len(R) = 5
            BY <2>1
        <3> QED BY <3>1, <3>2
    <2> DEFINE H == M \o R
    <2> HIDE DEF H
    <2>3. \A i \in n + 1..n + 5 : i = n + 1 \/ i = n + 2 \/ i = n + 3 \/ i = n + 4 \/ i = n + 5
        BY <2>2
    <2>4. H[n + 1] = R[1] /\ H[n + 2] = R[2] /\ H[n + 3] = R[3] /\ H[n + 4] = R[4] /\ H[n + 5] = R[5]
        <3>1. IsProgram(M) /\ IsProgram(R)
            BY <2>1
        <3>2. \A i \in 1..Len(R) : H[Len(M) + i] = R[i]
            BY <3>1, Cat DEF H
        <3>3. Len(M) = n /\ Len(R) = 5
            BY <2>1
        <3> QED BY <3>2, <3>3
    <2>5. \A i \in n + 1..n + 5 : /\ H[i].ok = 1
                                  /\ H[i].do = (IF i = n + 4 THEN "send" ELSE IF i = n + 5 THEN "wait" ELSE "read")
                                  /\ i = n + 4 => H[i].arg = "register" /\ H[i].retry = "once"
        <3> SUFFICES ASSUME NEW i \in n + 1..n + 5
                     PROVE  /\ H[i].ok = 1
                            /\ H[i].do = (IF i = n + 4 THEN "send" ELSE IF i = n + 5 THEN "wait" ELSE "read")
                            /\ i = n + 4 => H[i].arg = "register" /\ H[i].retry = "once"
            OBVIOUS
        <3>1. n \in Nat
            BY <2>2
        <3>2. CASE i \in {n + 1, n + 2, n + 3}
            BY ONLY <2>1, <2>4, <3>1, <3>2
        <3>3. CASE i = n + 4
            BY ONLY <2>1, <2>4, <3>1, <3>3
        <3>4. CASE i = n + 5
            BY ONLY <2>1, <2>4, <3>1, <3>4
        <3> QED BY <2>3, <3>2, <3>3, <3>4
    <2>6. \A i \in 1..n : /\ H[i].ok = 1 /\ H[i].do \in {"disk", "send", "wait", "copied"}
                          /\ H[i].do = "send" => H[i].arg = "copyDisk"
        BY <2>1, <2>2 DEF H
    <2>7. IsProgram(H) /\ Len(H) = n + 5
        BY <2>2 DEF H
    <2>8. G = H
        BY DEF H, M, R
    <2> HIDE DEF G
    <2>9. IsProgram(G) /\ Len(G) = n + 5
        BY <2>7, <2>8
    <2>10. \A i \in 1..n : /\ G[i].ok = 1 /\ G[i].do \in {"disk", "send", "wait", "copied"}
                           /\ G[i].do = "send" => G[i].arg = "copyDisk"
        BY <2>6, <2>8
    <2>11. \A i \in n + 1..n + 5 : /\ G[i].ok = 1
                                   /\ G[i].do = (IF i = n + 4 THEN "send" ELSE IF i = n + 5 THEN "wait" ELSE "read")
                                   /\ i = n + 4 => G[i].arg = "register" /\ G[i].retry = "once"
        BY <2>5, <2>8
    <2>12. n = 4 * Disks
        BY DEF n
    <2>13. \A i \in 1..n : G[i] = M[i]
        BY <2>2, <2>8 DEF H
    <2> QED BY <2>9, <2>10, <2>11, <2>12, <2>13 DEF M
<1> HIDE DEF A, G
<1>5. /\ IsProgram(K) /\ Len(K) = 4 * Disks + 5
      /\ \A i \in 1..4 * Disks + 5 : /\ K[i].do = G[i].do /\ K[i].arg = G[i].arg /\ K[i].retry = G[i].retry
                                     /\ K[i].ok = G[i].ok /\ i + K[i].err = 4 * Disks + 5 + 1 + 4
    BY <1>4, OnErrorKeeps
<1>6. /\ IsProgram(C) /\ Len(C) = 4
      /\ \A i \in 1..4 : C[i].do \in {"adopt", "ensure", "lookup"} /\ C[i].err = 0
      /\ C[1].ok = 1 /\ C[2].ok = 1 /\ C[3].ok = 1 /\ C[4].ok = 3 * Disks + 2
    BY <1>1, GetCloneSteps
<1>7. /\ IsProgram(X) /\ Len(X) = 3 * Disks
      /\ \A i \in 1..3 * Disks : /\ X[i].ok = 1 /\ i + X[i].err <= 3 * Disks + 1 /\ X[i].do \in {"isCopied", "send", "wait"}
                                 /\ X[i].do = "send" => X[i].arg = "deleteDisk"
    BY CleanupSteps
<1>8. IsProgram(F) /\ Len(F) = 1 /\ F[1].do = "fail" /\ F[1].ok = 1 /\ F[1].err = 0
    <2> DEFINE f == EX!Step("fail", "", "INTERNAL")  S == {f}
    <2>1. IsPlain(f) /\ f.do = "fail"
        BY DEF EX!Step, IsPlain, IsStep, ErrorCode
    <2> HIDE DEF f
    <2>2. F \in Seq(S) /\ Len(F) = 1 /\ F[1] = f
        BY DEF f
    <2>3. \A s \in S : IsPlain(s)
        BY <2>1
    <2> HIDE DEF F, S
    <2> QED BY <2>1, <2>2, <2>3, PlainList DEF IsPlain
<1> HIDE DEF K, C, X, F, w, z
<1> DEFINE R == A \o K  T == R \o C  U == T \o X
<1>9. w = 4 * Disks + 9 /\ z = w + 5 + 3 * Disks /\ w + 5 + 3 * Disks = w + 4 + 3 * Disks + 1
    BY <1>1 DEF w, z
<1>10. /\ IsProgram(R) /\ Len(R) = w /\ (\A i \in 1..4 : R[i] = A[i])
       /\ \A i \in 5..w : i - 4 \in 1..4 * Disks + 5 /\ R[i] = K[i - 4]
    <2>1. IsProgram(A) /\ IsProgram(K)
        BY <1>3, <1>5
    <2>2. /\ IsProgram(R) /\ Len(R) = Len(A) + Len(K)
          /\ \A i \in 1..Len(A) : R[i] = A[i]
          /\ \A i \in Len(A) + 1..Len(A) + Len(K) : i - Len(A) \in 1..Len(K) /\ R[i] = K[i - Len(A)]
        BY <2>1, Within
    <2> HIDE DEF R
    <2>3. Len(A) = 4 /\ Len(K) = 4 * Disks + 5 /\ 4 + (4 * Disks + 5) = w
        BY <1>1, <1>3, <1>5, <1>9
    <2>4. Len(A) + 1 = 5 /\ Len(A) + Len(K) = w
        BY ONLY <2>3
    <2>5. IsProgram(R) /\ Len(R) = w
        BY ONLY <2>2, <2>4
    <2>6. \A i \in 1..4 : R[i] = A[i]
        BY ONLY <2>2, <2>3
    <2>7. \A i \in 5..w : i - 4 \in 1..4 * Disks + 5 /\ R[i] = K[i - 4]
        BY ONLY <2>2, <2>3, <2>4
    <2> QED BY ONLY <2>5, <2>6, <2>7
<1>11. /\ IsProgram(T) /\ Len(T) = w + 4 /\ (\A i \in 1..w : T[i] = R[i])
       /\ \A i \in w + 1..w + 4 : i - w \in 1..4 /\ T[i] = C[i - w]
    <2> HIDE DEF R
    <2>1. IsProgram(R) /\ IsProgram(C)
        BY <1>6, <1>10
    <2>2. /\ IsProgram(T) /\ Len(T) = Len(R) + Len(C)
          /\ \A i \in 1..Len(R) : T[i] = R[i]
          /\ \A i \in Len(R) + 1..Len(R) + Len(C) : i - Len(R) \in 1..Len(C) /\ T[i] = C[i - Len(R)]
        BY <2>1, Within
    <2> HIDE DEF T
    <2>3. Len(R) = w /\ Len(C) = 4
        BY <1>6, <1>10
    <2> QED BY <1>1, <2>2, <2>3
<1>12. /\ IsProgram(U) /\ Len(U) = w + 4 + 3 * Disks /\ (\A i \in 1..w + 4 : U[i] = T[i])
       /\ \A i \in w + 5..w + 4 + 3 * Disks : i - (w + 4) \in 1..3 * Disks /\ U[i] = X[i - (w + 4)]
    <2> HIDE DEF T
    <2>1. IsProgram(T) /\ IsProgram(X)
        BY <1>7, <1>11
    <2>2. /\ IsProgram(U) /\ Len(U) = Len(T) + Len(X)
          /\ \A i \in 1..Len(T) : U[i] = T[i]
          /\ \A i \in Len(T) + 1..Len(T) + Len(X) : i - Len(T) \in 1..Len(X) /\ U[i] = X[i - Len(T)]
        BY <2>1, Within
    <2> HIDE DEF U
    <2>3. Len(T) = w + 4 /\ Len(X) = 3 * Disks /\ w + 4 + 1 = w + 5
        BY <1>1, <1>7, <1>11
    <2> QED BY <1>1, <2>2, <2>3
<1>13. IsProgram(P) /\ Len(P) = z /\ (\A i \in 1..z - 1 : P[i] = U[i]) /\ P[z] = F[1]
    <2> HIDE DEF U
    <2>1. IsProgram(U) /\ IsProgram(F)
        BY <1>8, <1>12
    <2>2. /\ IsProgram(P) /\ Len(P) = Len(U) + Len(F)
          /\ \A i \in 1..Len(U) : P[i] = U[i]
          /\ \A i \in 1..Len(F) : P[Len(U) + i] = F[i]
        BY <2>1, Cat DEF U
    <2> HIDE DEF P
    <2>3. Len(U) = z - 1 /\ Len(F) = 1 /\ z - 1 + 1 = z
        <3>1. w \in Nat /\ 3 * Disks \in Nat
            BY <1>1 DEF w
        <3>2. w + 4 + 3 * Disks = z - 1 /\ z - 1 + 1 = z
            BY <1>9, <3>1
        <3> QED BY <1>8, <1>12, <3>2
    <2> QED BY <2>2, <2>3
<1> HIDE DEF R, T, U, P
<1>14. \A i \in 1..4 : P[i] = A[i]
    <2>1. \A i \in 1..4 : i \in 1..w /\ i \in 1..w + 4 /\ i \in 1..z - 1
        BY <1>1, <1>9
    <2> QED BY <2>1, <1>10, <1>11, <1>12, <1>13
<1>15. ASSUME NEW i \in 5..w
       PROVE  /\ i - 4 \in 1..4 * Disks + 5 /\ P[i] = K[i - 4] /\ P[i].do = G[i - 4].do /\ P[i].arg = G[i - 4].arg
              /\ P[i].retry = G[i - 4].retry /\ P[i].ok = G[i - 4].ok /\ i + P[i].err = w + 5
    <2>1. i \in 1..w /\ i \in 1..w + 4 /\ i \in 1..z - 1
        BY <1>1, <1>9
    <2>2. i - 4 \in 1..4 * Disks + 5 /\ P[i] = K[i - 4]
        BY <2>1, <1>10, <1>11, <1>12, <1>13
    <2>3. IsStep(P[i])
        BY <1>13, <2>1 DEF IsProgram
    <2>4. P[i].err \in Nat /\ i - 4 + P[i].err = 4 * Disks + 5 + 1 + 4
        BY <1>5, <2>2, <2>3 DEF IsStep
    <2>5. i + P[i].err = w + 5
        BY <1>1, <1>9, <2>4
    <2> QED BY <1>5, <2>2, <2>5
<1>16. ASSUME NEW i \in 5..w
       PROVE  /\ P[i].ok = 1 /\ P[i].do \in {"disk", "send", "wait", "copied", "read"}
              /\ P[i].do = "send" => i = w - 1 \/ P[i].arg = "copyDisk"
              /\ i = w - 1 => P[i].do = "send" /\ P[i].arg = "register" /\ P[i].retry = "once"
              /\ i = w => P[i].do = "wait"
    <2> DEFINE j == i - 4
    <2>1. /\ j \in Int /\ (i = w - 1 <=> j = 4 * Disks + 4) /\ (i = w <=> j = 4 * Disks + 5)
          /\ j \in 1..4 * Disks \/ j \in 4 * Disks + 1..4 * Disks + 5
        BY <1>1, <1>9, <1>15
    <2>2. /\ P[i].do = G[j].do /\ P[i].arg = G[j].arg /\ P[i].retry = G[j].retry /\ P[i].ok = G[j].ok
        BY <1>15
    <2> HIDE DEF j
    <2>3. CASE j \in 1..4 * Disks
        BY <1>1, <1>4, <2>1, <2>2, <2>3
    <2>4. CASE j \in 4 * Disks + 1..4 * Disks + 5
        <3>1. 4 * Disks + 4 # 4 * Disks + 5
            BY <1>1
        <3> QED BY <1>4, <2>1, <2>2, <2>4, <3>1
    <2> QED BY <2>1, <2>3, <2>4
<1>17. w - 1 \in 5..w /\ w \in 5..w /\ w # w - 1
    BY <1>1, <1>9
<1>18. ASSUME NEW i \in w + 1..w + 4
       PROVE  /\ P[i].do \in {"adopt", "ensure", "lookup"} /\ P[i].err = 0
              /\ P[i].ok = (IF i = w + 4 THEN 3 * Disks + 2 ELSE 1)
    <2>1. i \in 1..w + 4 /\ i \in 1..z - 1 /\ i - w \in 1..4
        BY <1>1, <1>9
    <2>2. P[i] = C[i - w]
        BY <2>1, <1>11, <1>12, <1>13
    <2>3. i - w = 1 \/ i - w = 2 \/ i - w = 3 \/ i - w = 4
        BY <2>1
    <2>4. i - w = 4 <=> i = w + 4
        BY <1>1
    <2> QED BY <1>6, <2>1, <2>2, <2>3, <2>4
<1>19. ASSUME NEW i \in w + 5..z - 1
       PROVE  /\ P[i].ok = 1 /\ i + P[i].err <= z /\ P[i].do \in {"isCopied", "send", "wait"}
              /\ P[i].do = "send" => P[i].arg = "deleteDisk"
    <2>1. i \in w + 5..w + 4 + 3 * Disks /\ i - (w + 4) \in 1..3 * Disks /\ i \in 1..z
        BY <1>1, <1>9
    <2>2. P[i] = X[i - (w + 4)]
        BY <2>1, <1>12, <1>13
    <2>3. IsStep(P[i])
        BY <1>13, <2>1 DEF IsProgram
    <2>4. P[i].err \in Nat /\ i - (w + 4) + P[i].err <= 3 * Disks + 1
        BY <1>7, <2>1, <2>2, <2>3 DEF IsStep
    <2>5. i + P[i].err <= z
        BY <1>1, <1>9, <2>4
    <2> QED BY <1>7, <2>1, <2>2, <2>5
<1>20. /\ P[1] = A[1] /\ P[2] = A[2] /\ 1 \in 1..4 /\ 2 \in 1..4
    BY <1>14
<1>21. /\ \A i \in 1..4 : P[i].ok = 1 /\ i + P[i].err <= 5 /\ P[i].do \in {"ensure", "lookup", "read"}
       /\ P[1].err = 0 /\ P[2].err = 0 /\ P[2].do = "lookup"
    BY <1>3, <1>14, <1>20
<1>22. P[z].do = "fail" /\ P[z].ok = 1 /\ P[z].err = 0
    BY <1>8, <1>13
<1>23. \A i \in 5..w : /\ P[i].ok = 1 /\ i + P[i].err = w + 5
                       /\ P[i].do \in {"disk", "send", "wait", "copied", "read"}
                       /\ P[i].do = "send" => i = w - 1 \/ P[i].arg = "copyDisk"
    BY <1>15, <1>16
<1>24. P[w - 1].do = "send" /\ P[w - 1].arg = "register" /\ P[w - 1].retry = "once" /\ P[w].do = "wait"
    BY <1>16, <1>17
<1>25. /\ \A i \in w + 1..w + 4 : /\ P[i].do \in {"adopt", "ensure", "lookup"} /\ P[i].err = 0
                                  /\ P[i].ok = (IF i = w + 4 THEN 3 * Disks + 2 ELSE 1)
       /\ \A i \in w + 5..z - 1 : /\ P[i].ok = 1 /\ i + P[i].err <= z /\ P[i].do \in {"isCopied", "send", "wait"}
                                  /\ P[i].do = "send" => P[i].arg = "deleteDisk"
    BY <1>18, <1>19
<1>26. IsProgram(P) /\ Len(P) = z
    BY <1>13
<1>27. Disks \in Nat /\ w \in Nat /\ z \in Nat
    BY <1>1
<1> DEFINE V == EX!CloneVM
<1>28. V = P
    BY <1>2
<1> HIDE DEF V
<1>29. ASSUME NEW i \in 1..4 * Disks
       PROVE  P[4 + i].do = EX!copyDisks[i].do /\ P[4 + i].arg = EX!copyDisks[i].arg
    <2>1. 4 + i \in 5..w /\ (4 + i) - 4 = i
        BY <1>1, <1>9
    <2>2. P[4 + i].do = G[i].do /\ P[4 + i].arg = G[i].arg
        BY <1>15, <2>1
    <2> QED BY <1>4, <2>2
<1>30. ASSUME NEW i \in w - 4..w - 2 PROVE P[i].do = "read"
    <2>1. /\ i \in 5..w /\ i - 4 \in 4 * Disks + 1..4 * Disks + 5
          /\ i - 4 # 4 * Disks + 4 /\ i - 4 # 4 * Disks + 5
        BY <1>1, <1>9
    <2>2. P[i].do = G[i - 4].do
        BY <1>15, <2>1
    <2> QED BY <1>4, <2>1, <2>2
<1>31. ASSUME NEW i \in 1..3 * Disks PROVE P[w + 4 + i] = EX!cleanupDisks[i]
    <2>1. w + 4 + i \in w + 5..w + 4 + 3 * Disks /\ (w + 4 + i) - (w + 4) = i /\ w + 4 + i \in 1..z - 1
        BY <1>1, <1>9
    <2> QED BY <1>12, <1>13, <2>1 DEF X
<1> QED BY <1>21, <1>22, <1>23, <1>24, <1>25, <1>26, <1>27, <1>28, <1>29, <1>30, <1>31 DEF w, z, V

\* The clone is reported only after the registration of the new VM has been waited for.
LEMMA ESXiClone == Sound("esxi", "CloneVM", EX!CloneVM)
<1> DEFINE P == EX!CloneVM  w == 4 * Disks + 9  z == 7 * Disks + 14
           D == {i \in Nat : (i > w /\ i < w + 5) \/ i > z}
<1>1. /\ Disks \in Nat /\ w \in Nat /\ z \in Nat /\ w > 8 /\ z >= w + 5 /\ z = w + 4 + 3 * Disks + 1 /\ 3 * Disks \in Nat
    BY CloneSteps
<1>2. /\ IsProgram(P) /\ Len(P) = z
      /\ \A i \in 1..4 : P[i].ok = 1 /\ i + P[i].err <= 5 /\ P[i].do \in {"ensure", "lookup", "read"}
      /\ P[1].err = 0 /\ P[2].err = 0 /\ P[2].do = "lookup"
      /\ P[z].do = "fail" /\ P[z].ok = 1 /\ P[z].err = 0
    BY CloneSteps
<1>3. /\ \A i \in 5..w : /\ P[i].ok = 1 /\ i + P[i].err = w + 5
                         /\ P[i].do \in {"disk", "send", "wait", "copied", "read"}
                         /\ P[i].do = "send" => i = w - 1 \/ P[i].arg = "copyDisk"
      /\ P[w - 1].do = "send" /\ P[w - 1].arg = "register" /\ P[w - 1].retry = "once" /\ P[w].do = "wait"
    BY CloneSteps
<1>4. /\ \A i \in w + 1..w + 4 : /\ P[i].do \in {"adopt", "ensure", "lookup"} /\ P[i].err = 0
                                 /\ P[i].ok = (IF i = w + 4 THEN 3 * Disks + 2 ELSE 1)
      /\ \A i \in w + 5..z - 1 : /\ P[i].ok = 1 /\ i + P[i].err <= z /\ P[i].do \in {"isCopied", "send", "wait"}
                                 /\ P[i].do = "send" => P[i].arg = "deleteDisk"
    BY CloneSteps
<1> HIDE DEF P, w, z
<1>5. \A i \in 1..Len(P) : i \in 1..4 \/ i \in 5..w \/ i \in w + 1..w + 4 \/ i \in w + 5..z - 1 \/ i = z
    <2>1. Len(P) = z /\ w \in Nat /\ z \in Nat /\ w > 8 /\ z >= w + 5
        BY <1>1, <1>2
    <2> QED BY ONLY <2>1
<1>6. \A i \in 1..Len(P) : i \in Nat /\ P[i].err \in Nat
    BY <1>1, <1>2 DEF IsProgram, IsStep
<1>7. EffectOf("register") = "new" /\ EffectOf("copyDisk") = "copied" /\ EffectOf("deleteDisk") = "scrubbed"
    BY DEF EffectOf, PowerEffect
<1>8. \A i \in 1..Len(P) : P[i].do \notin {"guest", "allocate"}
    BY <1>2, <1>3, <1>4, <1>5
<1>9. \A i \in 1..Len(P) : P[i].do = "send" => i = w - 1 \/ P[i].arg \in {"copyDisk", "deleteDisk"}
    BY <1>2, <1>3, <1>4, <1>5
<1>10. /\ "CloneVM" \in Port!Op /\ "CloneVM" \in DOMAIN Port!May /\ Port!May["CloneVM"] = {"new", "copied", "scrubbed"}
       /\ Port!Promised("CloneVM") = {"new"}
    BY DEF Port!Op, Port!Reads, Port!May, Port!Promised
<1>11. w - 1 \in Nat /\ Maker("esxi", P, w - 1)
    <2>1. \A i \in 1..Len(P) : P[i].do = "send" /\ EffectOf(P[i].arg) = "new" => i = w - 1
        BY <1>7, <1>9
    <2> DEFINE m == w - 1
    <2>2. m \in Nat /\ P[m].retry = "once" /\ (\A i \in 1..Len(P) : P[i].do = "send" /\ EffectOf(P[i].arg) = "new" => i = m)
        BY <1>1, <1>3, <2>1
    <2>3. \A i \in 1..Len(P) : P[i].do # "allocate"
        BY <1>8
    <2> HIDE DEF m
    <2>4. Maker("esxi", P, m)
        BY <2>2, <2>3 DEF Maker
    <2> QED BY <2>2, <2>4 DEF m
<1>12. Delivery(P, w, {"new"}, D)
    <2>1. 1 \notin D /\ (\A i \in Nat : i > Len(P) => i \in D) /\ w + 5 \notin D /\ 5 \notin D /\ w > 1
        BY <1>1, <1>2
    <2>2. P[w].do = "wait" /\ P[w - 1].do = "send" /\ EffectOf(P[w - 1].arg) \in {"new"}
        BY <1>3, <1>7
    <2>3. ASSUME NEW i \in 1..Len(P)
          PROVE  /\ i # w - 1 => i + P[i].ok # w
                 /\ P[i].err > 0 => i + P[i].err # w
                 /\ i \notin D => /\ P[i].err > 0 => i + P[i].err \notin D
                                  /\ i = w \/ P[i].do \in {"fail", "guest"} \/ i + P[i].ok \notin D
        <3>1. CASE i \in 1..4
            <4>1. P[i].ok = 1 /\ i + P[i].err <= 5
                BY <1>2, <3>1
            <4>2. P[i].err \in Nat /\ i \in Nat /\ i <= 4
                BY <1>6, <3>1
            <4>3. /\ i + P[i].ok \in Nat /\ i + P[i].ok <= 5
                  /\ i + P[i].err \in Nat /\ i + P[i].err <= 5
                BY ONLY <4>1, <4>2
            <4>4. \A k \in Nat : k <= 5 => k # w /\ k \notin D
                BY <1>1
            <4> QED BY ONLY <4>3, <4>4
        <3>2. CASE i \in 5..w
            BY <1>1, <1>3, <1>6, <3>2
        <3>3. CASE i \in w + 1..w + 4
            <4>1. i \in D /\ P[i].err = 0 /\ P[i].ok > 0 /\ P[i].ok \in Nat /\ i > w
                BY <1>1, <1>4, <3>3
            <4>2. w \in Nat /\ i \in Nat
                BY <1>1, <1>6
            <4>3. i + P[i].ok # w /\ ~(P[i].err > 0)
                BY ONLY <4>1, <4>2
            <4> QED BY ONLY <4>1, <4>3
        <3>4. CASE i \in w + 5..z - 1
            <4>1. P[i].ok = 1 /\ i + P[i].err <= z /\ i > w + 4 /\ i + 1 <= z
                BY <1>1, <1>4, <3>4
            <4>2. P[i].err \in Nat /\ i \in Nat /\ w \in Nat /\ z \in Nat
                BY <1>1, <1>6
            <4>3. /\ i + P[i].ok \in Nat /\ i + P[i].ok > w + 4 /\ i + P[i].ok <= z
                  /\ i + P[i].err \in Nat /\ i + P[i].err > w + 4
                BY ONLY <4>1, <4>2
            <4>4. \A k \in Nat : k > w + 4 /\ k <= z => k # w /\ k \notin D
                BY ONLY <4>2
            <4> QED BY ONLY <4>1, <4>3, <4>4
        <3>5. CASE i = z
            BY <1>1, <1>2, <3>5
        <3> QED BY <1>5, <3>1, <3>2, <3>3, <3>4, <3>5
    <2> HIDE DEF D
    <2> QED BY <2>1, <2>2, <2>3 DEF Delivery
<1> DEFINE X == {i \in Nat : i > 2}
<1>13. Looked(P, X)
    <2>1. 1 \notin X /\ \A i \in Nat : i > Len(P) => i \in X
        BY <1>1, <1>2
    <2>2. \A i \in 1..Len(P) \ X : i = 1 \/ i = 2
        BY <1>1, <1>2
    <2>3. P[1].ok = 1 /\ P[2].ok = 1 /\ 2 \notin X
        BY <1>2
    <2> HIDE DEF X
    <2> QED BY <1>2, <2>1, <2>2, <2>3 DEF Looked
<1>14. \A i \in 1..Len(P) : P[i].do = "send" => EffectOf(P[i].arg) \in Port!May["CloneVM"]
    <2>1. P[w - 1].arg = "register"
        BY <1>3
    <2> QED BY <1>7, <1>9, <1>10, <2>1
<1>15. D \in SUBSET Nat /\ X \in SUBSET Nat
    OBVIOUS
<1> HIDE DEF D, X
<1>16. \E y \in Nat, E \in SUBSET Nat : Delivery(P, y, Port!Promised("CloneVM"), E)
    BY <1>1, <1>10, <1>12, <1>15
<1>17. \E m \in Nat : Maker("esxi", P, m)
    BY <1>11
<1>18. \E E \in SUBSET Nat : Looked(P, E)
    BY <1>13, <1>15
<1>19. IsProgram(P) /\ \A i \in 1..Len(P) : P[i].do # "guest"
    BY <1>2, <1>8
<1>20. Sound("esxi", "CloneVM", P)
    BY <1>10, <1>14, <1>16, <1>17, <1>18, <1>19 DEF Sound
<1> QED BY <1>20 DEF P

\* The other operations that ESXi replaces.
LEMMA ESXiOthers ==
    /\ Sound("esxi", "Connect", EX!Connect) /\ Sound("esxi", "CloneLinked", EX!CloneLinked)
    /\ Sound("esxi", "SyncInventory", EX!SyncInventory) /\ Sound("esxi", "GetConsoleSession", EX!GetConsoleSession)
<1>1. "Connect" \in Port!Reads \ {"GetVM", "SyncInventory"} /\ "GetConsoleSession" \in Port!Reads \ {"GetVM", "SyncInventory"}
    BY DEF Port!Reads
<1>2. Sound("esxi", "Connect", EX!Connect)
    <2>1. EX!Connect = VW!Connect
        BY DEF EX!Connect, EX!VMware!Connect, EX!VMware!newConnectionManager, EX!VMware!Retried, EX!VMware!Read,
               EX!VMware!Step, VW!Connect, VW!newConnectionManager, VW!Retried, VW!Read, VW!Step
    <2> QED BY <1>1, <2>1, VMwareCalm, QuietSound DEF Calm
<1> DEFINE e == EX!EnsureConnected  l == EX!Lookup("INTERNAL")  f == EX!Step("fail", "", "UNSUPPORTED")
           g == EX!Step("gather", [vms |-> "fatal", stores |-> "empty", networks |-> "empty", hosts |-> "empty"], "INTERNAL")
           S == {e, l, f, g}
<1>3. /\ IsPlain(e) /\ e.do = "ensure" /\ IsPlain(l) /\ l.do = "lookup" /\ IsPlain(f) /\ f.do = "fail"
      /\ IsPlain(g) /\ g.do = "gather" /\ g.retry = "once" /\ "vms" \in DOMAIN g.arg /\ g.arg["vms"] = "fatal"
    BY DEF EX!EnsureConnected, EX!Lookup, EX!Step, IsPlain, IsStep, ErrorCode
<1>4. EX!GetConsoleSession = << e, l >> /\ EX!CloneLinked = << e, f >> /\ EX!SyncInventory = << e, g >>
    BY DEF EX!GetConsoleSession, EX!CloneLinked, EX!SyncInventory
<1> HIDE DEF e, l, f, g
<1>5. \A s \in S : IsPlain(s) /\ s.do \notin {"send", "guest", "allocate"}
    BY <1>3
<1>6. ASSUME NEW s \in {l, f, g}
      PROVE  << e, s >> \in Seq(S) /\ Len(<< e, s >>) = 2 /\ << e, s >>[1] = e /\ << e, s >>[2] = s
    OBVIOUS
<1>7. ASSUME NEW s \in {l, f, g} PROVE Calm(<< e, s >>) /\ Gate(<< e, s >>, 2)
    <2> DEFINE P == << e, s >>
    <2>1. P \in Seq(S) /\ 2 \in 1..Len(P)
        BY <1>6
    <2> HIDE DEF P, S
    <2>2. Calm(P) /\ Gate(P, 2)
        BY <1>5, <2>1, PlainList DEF Calm
    <2> QED BY <2>2 DEF P
<1> HIDE DEF S
<1>8. Sound("esxi", "GetConsoleSession", EX!GetConsoleSession)
    <2>1. Calm(EX!GetConsoleSession)
        BY <1>4, <1>7
    <2> QED BY <1>1, <2>1, QuietSound DEF Calm
<1>9. Sound("esxi", "SyncInventory", EX!SyncInventory)
    <2> DEFINE P == EX!SyncInventory
    <2>1. Calm(P) /\ Gate(P, 2) /\ Len(P) = 2 /\ P[1] = e /\ P[2] = g
        BY <1>4, <1>6, <1>7
    <2> HIDE DEF P
    <2>2. \A i \in 1..Len(P) : i = 1 \/ i = 2
        BY <2>1
    <2>3. Gathered(P, 2)
        BY <1>3, <2>1, <2>2 DEF Gathered
    <2>4. Sound("esxi", "SyncInventory", P)
        BY <2>1, <2>3, QuietSound DEF Calm
    <2> QED BY <2>4 DEF P
<1>10. Sound("esxi", "CloneLinked", EX!CloneLinked)
    <2> DEFINE P == EX!CloneLinked  D == {i \in Nat : i > 2}
    <2>1. Calm(P) /\ IsProgram(P) /\ Quiet(P) /\ Len(P) = 2 /\ P[1] = e /\ P[2] = f
        BY <1>4, <1>6, <1>7 DEF Calm
    <2> HIDE DEF P
    <2>2. \A i \in 1..Len(P) : i = 1 \/ i = 2
        BY <2>1
    <2>3. /\ P[1].ok = 1 /\ P[1].err = 0 /\ P[2].do = "fail" /\ P[2].ok = 1 /\ P[2].err = 0
        BY <1>3, <2>1 DEF IsPlain
    <2>4. 1 \notin D /\ 2 \notin D /\ \A i \in Nat : i > Len(P) => i \in D
        BY <2>1
    <2>5. D \in SUBSET Nat
        OBVIOUS
    <2> HIDE DEF D
    <2>6. Delivery(P, 0, Port!Promised("CloneLinked"), D)
        <3>1. 0 \notin 1..Len(P)
            BY <2>1
        <3>2. \A i \in 1..Len(P) : i + P[i].ok # 0
            BY <2>2, <2>3
        <3> QED BY <2>2, <2>3, <2>4, <3>1, <3>2 DEF Delivery
    <2>7. Looked(P, D)
        BY <2>2, <2>3, <2>4 DEF Looked
    <2>8. Maker("esxi", P, 0)
        BY <2>1, MakerCat
    <2>9. "CloneLinked" \in Port!Op /\ "CloneLinked" \in DOMAIN Port!May
        BY DEF Port!Op, Port!May
    <2>10. \A i \in 1..Len(P) : P[i].do \notin {"send", "guest"}
        BY <2>1 DEF Quiet
    <2>11. Sound("esxi", "CloneLinked", P)
        BY <2>1, <2>5, <2>6, <2>7, <2>8, <2>9, <2>10 DEF Sound
    <2> QED BY <2>11 DEF P
<1> QED BY <1>2, <1>8, <1>9, <1>10

\* What is asked of the step programs is true of all of ESXi's.
LEMMA ESXiSound == \A o \in DOMAIN ESXiOps : Sound("esxi", o, ESXiOps[o])
<1> DEFINE V == VMwareOps(FALSE)
           R == {"Connect", "CloneVM", "CloneLinked", "SyncInventory", "GetConsoleSession"}
<1>1. DOMAIN ESXiOps = DOMAIN V /\ R \subseteq DOMAIN V
    BY DEF ESXiOps, VMwareOps
<1>2. /\ ESXiOps["Connect"] = EX!Connect /\ ESXiOps["CloneVM"] = EX!CloneVM /\ ESXiOps["CloneLinked"] = EX!CloneLinked
      /\ ESXiOps["SyncInventory"] = EX!SyncInventory /\ ESXiOps["GetConsoleSession"] = EX!GetConsoleSession
    BY DEF ESXiOps, VMwareOps
<1>3. \A o \in DOMAIN V \ R : ESXiOps[o] = V[o]
    BY DEF ESXiOps
<1>4. \A o \in R : Sound("esxi", o, ESXiOps[o])
    BY <1>2, ESXiClone, ESXiOthers
<1>5. \A o \in DOMAIN V : Sound("esxi", o, V[o])
    BY VMwareSound
<1> HIDE DEF V, R
<1> QED BY <1>1, <1>3, <1>4, <1>5

\* What is asked of the step programs is true of every operation of every provider.
LEMMA ProgramsSound ==
    \A pr \in Provider : pr \in DOMAIN Operations /\ \A o \in DOMAIN Operations[pr] : Sound(pr, o, Operations[pr][o])
<1>1. /\ DOMAIN Operations = {"proxmox", "nutanix", "vmware", "esxi"}
      /\ Operations["proxmox"] = ProxmoxOps /\ Operations["nutanix"] = NutanixOps
      /\ Operations["vmware"] = VMwareOps(TRUE) /\ Operations["esxi"] = ESXiOps
    BY DEF Operations
<1>2. \A o \in DOMAIN VMwareOps(TRUE) : Sound("vmware", o, VMwareOps(TRUE)[o])
    BY VMwareSound
<1> QED BY <1>1, <1>2, ProxmoxSound, NutanixSound, ESXiSound, BoundsAssumption


----------------------------------------------------------------------------
(* What a step of a running operation does *)

\* An entry of the list of remote tasks.
IsTask(t) == t = [call |-> t.call, req |-> t.req, disk |-> t.disk, st |-> t.st, vm |-> t.vm]

\* The values of the variables that the proofs need to know; where control is in a running operation.
TypeInv ==
    /\ prov \in Provider
    /\ ops \in Seq(DOMAIN Operations[prov])
    /\ pc \in Nat /\ attempt \in Nat \ {0}
    /\ result \in {"idle", "running", "ok"} \cup ErrorCode
    /\ (result # "idle" => Len(ops) > 0) /\ (result = "running" => pc > 0)
    /\ Len(tasks) \in Nat /\ tasks = [i \in 1..Len(tasks) |-> tasks[i]]
    /\ \A i \in 1..Len(tasks) : IsTask(tasks[i]) /\ tasks[i].call \in 1..Len(ops)

\* Control goes n steps on, stays for another attempt, or the operation returns an error.
Goes(n) == pc' = pc + n /\ attempt' = 1 /\ result' = result
Stays   == pc' = pc /\ attempt' = attempt + 1 /\ attempt < Policy(Cur.retry).maxAttempts /\ result' = result
           /\ Policy(Cur.retry).shouldRetry # {}
Ends    == pc' = 0 /\ attempt' = 1 /\ result' \in ErrorCode

\* What follows a failed step.
Fails == Stays \/ (Cur.err > 0 /\ Goes(Cur.err)) \/ (Cur.err = 0 /\ Ends)

\* The kinds of steps a running operation takes, apart from its return, and what each kind changes.
Others == <<seen, pending, missing, snap, power, held, stay>>
Keeps  == UNCHANGED <<task, fresh, tasks, asked, Others>>

FailKind     == Fails /\ Keeps
PlainKind    == /\ Goes(Cur.ok) /\ Keeps
                /\ Cur.do \notin {"send", "guest", "wait", "fail", "lookup", "allocate", "gather"}
SendKind     == /\ Cur.do = "send" /\ tasks' = Append(tasks, NewTask(Cur.arg))
                /\ (Goes(Cur.ok) /\ task' = Len(tasks) + 1) \/ (Fails /\ task' = task)
                /\ UNCHANGED <<fresh, asked, Others>>
GuestKind    == Cur.do = "guest" /\ Goes(Cur.ok) /\ asked' = asked \cup {Len(ops)} /\ UNCHANGED <<task, fresh, tasks, Others>>
WaitKind     == Cur.do = "wait" /\ Goes(Cur.ok) /\ tasks[task].st = "done" /\ Keeps
LookupKind   == /\ Cur.do = "lookup" /\ Goes(Cur.ok) /\ Exists(target)
                /\ seen' = [vm |-> target, native |-> Native[prov][power[target]], status |-> Status(Native[prov][power[target]])]
                /\ UNCHANGED <<task, fresh, tasks, asked, pending, missing, snap, power, held, stay>>
AllocateKind == /\ Cur.do = "allocate" /\ Goes(Cur.ok) /\ fresh' \in VM
                /\ UNCHANGED <<task, tasks, asked, Others>>
GatherKind   == /\ Gather \/ (\E l \in pending : Fetch(l))
                /\ UNCHANGED <<control, task, fresh, tasks, asked, seen, power, held, stay>>
CollectKind  == /\ Cur.do = "gather" /\ Goes(Cur.ok) /\ pending = {} /\ (missing # {} \/ snap # {})
                /\ \A l \in missing : Cur.arg[l] # "fatal"
                /\ Keeps

\* The step of an operation that has returned leaves all else as it is.
ReturnKind == /\ pc > Len(Program) /\ result' = "ok" /\ pc' = 0 /\ attempt' = attempt /\ Keeps

\* The running operation takes one of these steps.
StepKind == /\ result = "running" /\ ops' = ops /\ prov' = prov
            /\ \/ ReturnKind
               \/ /\ pc <= Len(Program)
                  /\ \/ FailKind \/ PlainKind \/ SendKind \/ GuestKind \/ WaitKind \/ LookupKind \/ AllocateKind
                     \/ GatherKind \/ CollectKind

\* The program of a running operation has the properties of its provider's programs.
LEMMA ProgramSound ==
    ASSUME TypeInv, Len(ops) > 0
    PROVE  /\ Last \in DOMAIN Operations[prov] /\ Sound(prov, Last, Program) /\ IsProgram(Program)
           /\ Len(Program) \in Nat /\ \A i \in 1..Len(Program) : IsStep(Program[i])
<1>1. Last \in DOMAIN Operations[prov] /\ prov \in Provider
    BY DEF TypeInv, Last
<1>2. Sound(prov, Last, Program)
    BY <1>1, ProgramsSound DEF Program, Last
<1> QED BY <1>1, <1>2 DEF Sound, IsProgram

\* A step that fails is repeated, goes on elsewhere or ends the operation with an error.
LEMMA FailMoves ==
    ASSUME TypeInv, result = "running", pc <= Len(Program), NEW class, FailWith(class)
    PROVE  Fails /\ ops' = ops
<1>1. pc \in 1..Len(Program) /\ IsStep(Cur)
    BY ProgramSound DEF TypeInv, Cur
<1>2. Cur.code \in ErrorCode /\ (class \in DOMAIN Cur.special => Cur.special[class] \in ErrorCode)
    BY <1>1 DEF IsStep
<1> DEFINE p == Policy(Cur.retry)
<1>3. CASE class \in p.shouldRetry /\ attempt < p.maxAttempts /\ ~ctxDone
    BY <1>3 DEF FailWith, Fails, Stays
<1>4. CASE ~(class \in p.shouldRetry /\ attempt < p.maxAttempts /\ ~ctxDone)
    <2>1. Cur.err \in Nat
        BY <1>1 DEF IsStep
    <2> HIDE DEF p
    <2> QED BY <1>2, <1>4, <2>1 DEF FailWith, Fails, Goes, Ends, p
<1> QED BY <1>3, <1>4

\* Every step of a running operation is of one of these kinds.
LEMMA StepKinds == ASSUME TypeInv, Steps PROVE StepKind
<1> USE DEF session, local, remote, env, Others, Keeps
<1>1. ASSUME NEW d, At(d) PROVE result = "running" /\ pc <= Len(Program) /\ Cur.do = d
    BY <1>1 DEF At, Cur
<1>2. ASSUME NEW d, At(d), NEW class, FailWith(class) PROVE Fails /\ ops' = ops
    BY <1>1, <1>2, FailMoves
<1>3. ASSUME Advance PROVE Goes(Cur.ok) /\ ops' = ops
    BY <1>3 DEF Advance, Goes
<1>4. ASSUME NEW d \in {"ensure", "parse", "token", "connected", "onlyIf", "adopt", "disk", "copied", "isCopied", "found",
                        "read", "assert", "snapped"}, At(d), Advance, prov' = prov, Keeps
      PROVE  StepKind
    <2>1. Goes(Cur.ok) /\ ops' = ops
        BY <1>3, <1>4
    <2>2. result = "running" /\ pc <= Len(Program) /\ Cur.do = d
        BY <1>1, <1>4
    <2>3. PlainKind
        BY <1>4, <2>1, <2>2 DEF PlainKind
    <2> QED BY <1>4, <2>1, <2>2, <2>3 DEF StepKind
<1>5. ASSUME NEW d, At(d), NEW class, FailWith(class), prov' = prov, Keeps PROVE StepKind
    <2>1. Fails /\ ops' = ops /\ result = "running" /\ pc <= Len(Program)
        BY <1>1, <1>2, <1>5
    <2> QED BY <1>5, <2>1 DEF StepKind, FailKind
<1>6. CASE Ensure
    BY <1>4, <1>5, <1>6 DEF Ensure
<1>7. CASE Parse
    BY <1>4, <1>7 DEF Parse
<1>8. CASE SetConnected
    BY <1>4, <1>8 DEF SetConnected
<1>9. CASE Fail
    BY <1>5, <1>9 DEF Fail
<1>10. CASE OnlyIf
    BY <1>4, <1>5, <1>10 DEF OnlyIf
<1>11. CASE Adopt
    BY <1>4, <1>11 DEF Adopt
<1>12. CASE Disk \/ Copied \/ IsCopied
    BY <1>4, <1>5, <1>12 DEF Disk, Copied, IsCopied
<1>13. CASE Find
    BY <1>4, <1>5, <1>13 DEF Find
<1>14. CASE ReadOK
    BY <1>4, <1>14 DEF ReadOK
<1>15. CASE Allocate
    <2>1. Goes(Cur.ok) /\ ops' = ops /\ result = "running" /\ pc <= Len(Program) /\ Cur.do = "allocate"
        BY <1>1, <1>3, <1>15 DEF Allocate
    <2>2. fresh' \in VM /\ UNCHANGED <<prov, task, tasks, asked, Others>>
        BY <1>15 DEF Allocate
    <2> QED BY <2>1, <2>2 DEF StepKind, AllocateKind
<1>16. CASE LookupOK
    <2>1. Goes(Cur.ok) /\ ops' = ops /\ result = "running" /\ pc <= Len(Program) /\ Cur.do = "lookup"
        BY <1>1, <1>3, <1>16 DEF LookupOK
    <2>2. LookupKind /\ prov' = prov
        BY <1>16, <2>1 DEF LookupOK, LookupKind
    <2> QED BY <2>1, <2>2 DEF StepKind
<1>17. CASE AssertState
    BY <1>4, <1>5, <1>17 DEF AssertState
<1>18. CASE CurrentSnapshot
    BY <1>4, <1>5, <1>18 DEF CurrentSnapshot
<1>19. CASE ReadFails
    <2>1. PICK d \in {"read", "lookup", "allocate"} : At(d)
        BY <1>19 DEF ReadFails
    <2>2. PICK class : FailWith(class)
        BY <1>19 DEF ReadFails
    <2>3. prov' = prov /\ Keeps
        BY <1>19 DEF ReadFails
    <2> QED BY <1>5, <2>1, <2>2, <2>3
<1>20. CASE StateUnread
    <2>1. prov' = prov /\ Keeps
        BY <1>20 DEF StateUnread
    <2> QED BY <1>4, <1>5, <1>20, <2>1 DEF StateUnread
<1>21. CASE Gather \/ \E l \in pending : Fetch(l)
    <2>1. result = "running" /\ pc <= Len(Program)
        BY <1>1, <1>21 DEF Gather, Fetch
    <2>2. UNCHANGED <<prov, control, task, fresh, tasks, asked, seen, power, held, stay>>
        BY <1>21 DEF Gather, Fetch, control
    <2> QED BY <1>21, <2>1, <2>2 DEF StepKind, GatherKind, control
<1>22. CASE Collect
    <2>1. CASE \E l \in missing : Cur.arg[l] = "fatal"
        BY <1>5, <1>22, <2>1 DEF Collect
    <2>2. CASE ~\E l \in missing : Cur.arg[l] = "fatal"
        <3>1. result = "running" /\ pc <= Len(Program) /\ Cur.do = "gather" /\ Goes(Cur.ok) /\ ops' = ops
            BY <1>1, <1>3, <1>22, <2>2 DEF Collect
        <3>2. CollectKind /\ prov' = prov
            BY <1>22, <2>2, <3>1 DEF Collect, CollectKind
        <3> QED BY <3>1, <3>2 DEF StepKind
    <2> QED BY <2>1, <2>2
<1>23. CASE SendOK
    <2>1. Goes(Cur.ok) /\ ops' = ops /\ result = "running" /\ pc <= Len(Program) /\ Cur.do = "send"
        BY <1>1, <1>3, <1>23 DEF SendOK
    <2>2. SendKind /\ prov' = prov
        BY <1>23, <2>1 DEF SendOK, SendKind
    <2> QED BY <2>1, <2>2 DEF StepKind
<1>24. CASE SendRefused
    BY <1>5, <1>24 DEF SendRefused
<1>25. CASE SendFails
    BY <1>5, <1>25 DEF SendFails
<1>26. CASE ReplyLost
    <2>1. result = "running" /\ pc <= Len(Program) /\ Cur.do = "send" /\ Fails /\ ops' = ops
        BY <1>1, <1>2, <1>26 DEF ReplyLost
    <2>2. SendKind /\ prov' = prov
        BY <1>26, <2>1 DEF ReplyLost, SendKind
    <2> QED BY <2>1, <2>2 DEF StepKind
<1>27. CASE AskGuest
    <2>1. CASE Exists(target) /\ power[target] = "on"
        <3>1. result = "running" /\ pc <= Len(Program) /\ Cur.do = "guest" /\ Goes(Cur.ok) /\ ops' = ops
            BY <1>1, <1>3, <1>27, <2>1 DEF AskGuest
        <3>2. GuestKind /\ prov' = prov
            BY <1>27, <2>1, <3>1 DEF AskGuest, GuestKind
        <3> QED BY <3>1, <3>2 DEF StepKind
    <2>2. CASE ~(Exists(target) /\ power[target] = "on")
        BY <1>5, <1>27, <2>2 DEF AskGuest
    <2> QED BY <2>1, <2>2
<1>28. CASE GuestRefuses
    BY <1>5, <1>28 DEF GuestRefuses
<1>29. CASE WaitEnds
    <2>1. CASE tasks[task].st = "done"
        <3>1. result = "running" /\ pc <= Len(Program) /\ Cur.do = "wait" /\ Goes(Cur.ok) /\ ops' = ops
            BY <1>1, <1>3, <1>29, <2>1 DEF WaitEnds
        <3>2. WaitKind /\ prov' = prov
            BY <1>29, <2>1, <3>1 DEF WaitEnds, WaitKind
        <3> QED BY <3>1, <3>2 DEF StepKind
    <2>2. CASE tasks[task].st # "done"
        BY <1>5, <1>29, <2>2 DEF WaitEnds
    <2> QED BY <2>1, <2>2
<1>30. CASE WaitGivesUp
    BY <1>5, <1>30 DEF WaitGivesUp
<1>31. CASE Return
    <2>1. ReturnKind /\ prov' = prov /\ ops' = ops /\ result = "running"
        BY <1>31 DEF Return, ReturnKind
    <2> QED BY <2>1 DEF StepKind
<1> QED BY <1>6, <1>7, <1>8, <1>9, <1>10, <1>11, <1>12, <1>13, <1>14, <1>15, <1>16, <1>17, <1>18, <1>19, <1>20, <1>21,
           <1>22, <1>23, <1>24, <1>25, <1>26, <1>27, <1>28, <1>29, <1>30, <1>31 DEF Steps


----------------------------------------------------------------------------
(* What else happens *)

\* The variables of the provider, which the hypervisor does not touch.
Ours == <<prov, ops, pc, attempt, result, task, fresh, seen, pending, missing, snap>>

\* The power states of the hypervisor's VMs.
PowerState == {"on", "off", "suspended", "absent"}
Switched == \E v \in VM, p \in PowerState : SetPower(v, p)

\* A task ends; a new VM gets its ID by then.
EndKind == \E i \in 1..Len(tasks) : \E st \in {"done", "failed"}, vm \in VM \cup {tasks[i].vm} :
             /\ tasks[i].st = "running"
             /\ vm = tasks[i].vm \/ (MakesVM(tasks[i].req) /\ tasks[i].vm = 0)
             /\ tasks' = [tasks EXCEPT ![i] = [call |-> tasks[i].call, req |-> tasks[i].req, disk |-> tasks[i].disk,
                                               st |-> st, vm |-> vm]]
             /\ Switched \/ UNCHANGED <<power, held, stay>>
             /\ UNCHANGED <<Ours, asked>>

\* A VM changes by other hands, or nothing that concerns the calls.
OtherKind == (Switched \/ UNCHANGED <<power, held, stay>>) /\ UNCHANGED <<Ours, tasks, asked>>

\* The entries of a longer list of tasks.
LEMMA Appended ==
    ASSUME NEW s, Len(s) \in Nat, s = [i \in 1..Len(s) |-> s[i]], NEW x
    PROVE  /\ Len(Append(s, x)) = Len(s) + 1
           /\ Append(s, x) = [i \in 1..Len(s) + 1 |-> Append(s, x)[i]]
           /\ \A i \in 1..Len(s) : Append(s, x)[i] = s[i]
           /\ Append(s, x)[Len(s) + 1] = x
<1> DEFINE S == {s[i] : i \in 1..Len(s)} \cup {x}  r == Append(s, x)
<1>1. s \in Seq(S) /\ x \in S
    <2>1. \A i \in 1..Len(s) : s[i] \in S
        OBVIOUS
    <2> HIDE DEF S
    <2>2. [i \in 1..Len(s) |-> s[i]] \in Seq(S)
        BY <2>1
    <2>3. x \in S
        BY DEF S
    <2> QED BY <2>2, <2>3
<1> HIDE DEF S
<1>2. r \in Seq(S) /\ Len(r) = Len(s) + 1 /\ (\A i \in 1..Len(s) : r[i] = s[i]) /\ r[Len(s) + 1] = x
    BY <1>1
<1>3. r = [i \in 1..Len(r) |-> r[i]]
    <2> HIDE DEF r
    <2> QED BY <1>2, Listed
<1> QED BY <1>2, <1>3

\* Every action is a call, a step of the running operation, the end of a task or a change by other hands.
LEMMA NextKinds ==
    ASSUME TypeInv, [Next]_vars
    PROVE  (\E o \in DOMAIN Operations[prov] : Call(o)) \/ StepKind \/ EndKind \/ OtherKind
<1> USE DEF session, control, local, remote, env, Ours
<1>1. CASE UNCHANGED vars
    BY <1>1 DEF vars, OtherKind
<1>2. CASE Steps
    BY <1>2, StepKinds
<1>3. CASE Expire
    BY <1>3 DEF Expire, OtherKind
<1>4. DOMAIN tasks = 1..Len(tasks) /\ \A i \in 1..Len(tasks) : IsTask(tasks[i])
    BY DEF TypeInv
<1>5. ASSUME NEW i \in DOMAIN tasks, Succeed(i) PROVE EndKind
    <2> DEFINE t == tasks[i]
    <2>1. t = [call |-> t.call, req |-> t.req, disk |-> t.disk, st |-> t.st, vm |-> t.vm] /\ i \in 1..Len(tasks)
        BY <1>4 DEF IsTask
    <2>2. t.st = "running" /\ UNCHANGED <<Ours, asked>>
        BY <1>5 DEF Succeed
    <2>0. /\ MakesVM(t.req) => t.req \notin DOMAIN PowerEffect /\ ~Untouching(t.req)
          /\ t.req \in DOMAIN PowerEffect => ~Untouching(t.req) /\ PowerEffect[t.req] \in PowerState
        BY DEF MakesVM, EffectOf, PowerEffect, Untouching, PowerState
    <2>3. CASE MakesVM(t.req)
        <3>1. PICK v \in VM : /\ t.vm # 0 => v = t.vm
                              /\ SetPower(v, "off") /\ tasks' = [tasks EXCEPT ![i].st = "done", ![i].vm = v]
            BY <1>5, <2>0, <2>3 DEF Succeed
        <3>2. tasks' = [tasks EXCEPT ![i] = [call |-> t.call, req |-> t.req, disk |-> t.disk, st |-> "done", vm |-> v]]
            <4> DEFINE u == [t EXCEPT !.st = "done"]
            <4>1. u = [call |-> t.call, req |-> t.req, disk |-> t.disk, st |-> "done", vm |-> t.vm]
                BY <2>1
            <4>2. tasks' = [tasks EXCEPT ![i] = [u EXCEPT !.vm = v]]
                BY <3>1
            <4> HIDE DEF u
            <4>3. [u EXCEPT !.vm = v] = [call |-> t.call, req |-> t.req, disk |-> t.disk, st |-> "done", vm |-> v]
                BY <4>1
            <4> QED BY <4>2, <4>3
        <3>3. Switched
            BY <3>1 DEF Switched, PowerState
        <3>4. v = t.vm \/ t.vm = 0
            BY <3>1
        <3> HIDE DEF t
        <3>5. \E st \in {"done", "failed"}, vm \in VM \cup {t.vm} :
                 /\ vm = t.vm \/ (MakesVM(t.req) /\ t.vm = 0)
                 /\ tasks' = [tasks EXCEPT ![i] = [call |-> t.call, req |-> t.req, disk |-> t.disk, st |-> st, vm |-> vm]]
            BY <2>3, <3>2, <3>4
        <3> QED BY <2>1, <2>2, <3>3, <3>5 DEF EndKind, t
    <2>4. CASE ~MakesVM(t.req)
        <3>1. tasks' = [tasks EXCEPT ![i].st = "done"]
            BY <1>5, <2>4 DEF Succeed
        <3>2. Switched \/ UNCHANGED <<power, held, stay>>
            <4>1. CASE t.req \in DOMAIN PowerEffect
                <5>1. Exists(t.vm) /\ SetPower(t.vm, PowerEffect[t.req])
                    BY <1>5, <2>0, <2>4, <4>1 DEF Succeed
                <5>2. t.vm \in VM /\ PowerEffect[t.req] \in PowerState
                    BY <2>0, <4>1, <5>1 DEF Exists
                <5> QED BY <5>1, <5>2 DEF Switched
            <4>2. CASE t.req \notin DOMAIN PowerEffect
                BY <1>5, <2>4, <4>2 DEF Succeed
            <4> QED BY <4>1, <4>2
        <3>3. tasks' = [tasks EXCEPT ![i] = [call |-> t.call, req |-> t.req, disk |-> t.disk, st |-> "done", vm |-> t.vm]]
            <4> DEFINE u == [t EXCEPT !.st = "done"]
            <4>1. u = [call |-> t.call, req |-> t.req, disk |-> t.disk, st |-> "done", vm |-> t.vm]
                BY <2>1
            <4>2. tasks' = [tasks EXCEPT ![i] = u]
                BY <3>1
            <4> QED BY <4>1, <4>2
        <3> HIDE DEF t
        <3>4. \E st \in {"done", "failed"}, vm \in VM \cup {t.vm} :
                 /\ vm = t.vm \/ (MakesVM(t.req) /\ t.vm = 0)
                 /\ tasks' = [tasks EXCEPT ![i] = [call |-> t.call, req |-> t.req, disk |-> t.disk, st |-> st, vm |-> vm]]
            BY <3>3
        <3> QED BY <2>1, <2>2, <3>2, <3>4 DEF EndKind, t
    <2> QED BY <2>3, <2>4
<1>6. ASSUME NEW i \in DOMAIN tasks, TaskFails(i) PROVE EndKind
    <2> DEFINE t == tasks[i]
    <2>1. t = [call |-> t.call, req |-> t.req, disk |-> t.disk, st |-> t.st, vm |-> t.vm] /\ i \in 1..Len(tasks)
        BY <1>4 DEF IsTask
    <2>2. t.st = "running" /\ UNCHANGED <<Ours, asked, power, held, stay>> /\ tasks' = [tasks EXCEPT ![i].st = "failed"]
        BY <1>6 DEF TaskFails
    <2>3. tasks' = [tasks EXCEPT ![i] = [call |-> t.call, req |-> t.req, disk |-> t.disk, st |-> "failed", vm |-> t.vm]]
        <3> DEFINE u == [t EXCEPT !.st = "failed"]
        <3>1. u = [call |-> t.call, req |-> t.req, disk |-> t.disk, st |-> "failed", vm |-> t.vm]
            BY <2>1
        <3>2. tasks' = [tasks EXCEPT ![i] = u]
            BY <2>2
        <3> QED BY <3>1, <3>2
    <2> HIDE DEF t
    <2>4. \E st \in {"done", "failed"}, vm \in VM \cup {t.vm} :
             /\ vm = t.vm \/ (MakesVM(t.req) /\ t.vm = 0)
             /\ tasks' = [tasks EXCEPT ![i] = [call |-> t.call, req |-> t.req, disk |-> t.disk, st |-> st, vm |-> vm]]
        BY <2>3
    <2> QED BY <2>1, <2>2, <2>4 DEF EndKind, t
<1>7. ASSUME NEW v \in VM, NEW p \in PowerState, Admin(v, p) PROVE OtherKind
    BY <1>7 DEF Admin, OtherKind, Switched
<1>8. CASE Done
    BY <1>8 DEF Done, OtherKind, vars
<1> QED BY <1>1, <1>2, <1>3, <1>5, <1>6, <1>7, <1>8 DEF Next, PowerState


\* No step leads out of the types.
LEMMA TypeStep == ASSUME TypeInv, [Next]_vars PROVE TypeInv'
<1>1. /\ prov \in Provider /\ ops \in Seq(DOMAIN Operations[prov]) /\ Len(ops) \in Nat /\ pc \in Nat /\ attempt \in Nat \ {0}
      /\ result \in {"idle", "running", "ok"} \cup ErrorCode
      /\ (result # "idle" => Len(ops) > 0) /\ (result = "running" => pc > 0)
      /\ Len(tasks) \in Nat /\ tasks = [i \in 1..Len(tasks) |-> tasks[i]]
      /\ \A i \in 1..Len(tasks) : IsTask(tasks[i]) /\ tasks[i].call \in 1..Len(ops)
    BY DEF TypeInv
<1>2. ASSUME NEW o \in DOMAIN Operations[prov], Call(o) PROVE TypeInv'
    <2>1. /\ ops' = Append(ops, o) /\ pc' = 1 /\ attempt' = 1 /\ result' = "running" /\ prov' = prov /\ tasks' = tasks
        BY <1>2 DEF Call, session
    <2>2. ops' \in Seq(DOMAIN Operations[prov]') /\ Len(ops') = Len(ops) + 1
        BY <1>1, <2>1
    <2>3. \A i \in 1..Len(tasks) : tasks[i].call \in 1..Len(ops')
        BY <1>1, <2>2
    <2> QED BY <1>1, <2>1, <2>2, <2>3 DEF TypeInv, IsTask
<1>3. ASSUME StepKind, pc <= Len(Program) PROVE pc' \in Nat /\ attempt' \in Nat \ {0} /\ result' \in {"running"} \cup ErrorCode /\ (result' = "running" => pc' > 0)
    <2>1. result = "running" /\ pc \in 1..Len(Program) /\ IsStep(Cur)
        BY <1>1, <1>3, ProgramSound DEF StepKind, Cur
    <2>2. Cur.ok \in Nat \ {0} /\ Cur.err \in Nat
        BY <2>1 DEF IsStep
    <2>3. "running" \notin ErrorCode
        BY DEF ErrorCode
    <2>4. CASE Goes(Cur.ok) \/ Stays \/ (Cur.err > 0 /\ Goes(Cur.err))
        <3>1. CASE Goes(Cur.ok)
            BY <1>1, <2>1, <2>2, <3>1 DEF Goes
        <3>2. CASE Stays
            BY <1>1, <2>1, <3>2 DEF Stays
        <3>3. CASE Cur.err > 0 /\ Goes(Cur.err)
            BY <1>1, <2>1, <2>2, <3>3 DEF Goes
        <3> QED BY <2>4, <3>1, <3>2, <3>3
    <2>5. CASE Ends
        BY <2>3, <2>5 DEF Ends
    <2>6. CASE GatherKind
        BY <1>1, <2>1, <2>6 DEF GatherKind, control
    <2>7. Goes(Cur.ok) \/ Fails \/ GatherKind
        BY <1>1, <1>3, <2>1 DEF StepKind, FailKind, PlainKind, SendKind, GuestKind, WaitKind, LookupKind, AllocateKind, CollectKind, ReturnKind
    <2> QED BY <2>4, <2>5, <2>6, <2>7 DEF Fails
<1>4. ASSUME StepKind PROVE TypeInv'
    <2>1. prov' = prov /\ ops' = ops /\ result = "running"
        BY <1>4 DEF StepKind
    <2>2. pc' \in Nat /\ attempt' \in Nat \ {0} /\ result' \in {"idle", "running", "ok"} \cup ErrorCode /\ (result' = "running" => pc' > 0)
        <3>1. CASE ReturnKind
            BY <1>1, <3>1 DEF ReturnKind
        <3>2. CASE ~ReturnKind
            <4>1. pc <= Len(Program)
                BY <1>4, <3>2 DEF StepKind
            <4> QED BY <1>3, <1>4, <4>1
        <3> QED BY <3>1, <3>2
    <2>3. tasks' = tasks \/ \E req : tasks' = Append(tasks, NewTask(req))
        BY <1>4 DEF StepKind, ReturnKind, FailKind, PlainKind, SendKind, GuestKind, WaitKind, LookupKind, AllocateKind, GatherKind, CollectKind, Keeps, Others
    <2>4. CASE tasks' = tasks
        BY <1>1, <2>1, <2>2, <2>4 DEF TypeInv, IsTask
    <2>5. ASSUME NEW req, tasks' = Append(tasks, NewTask(req)) PROVE TypeInv'
        <3> DEFINE t == NewTask(req)
        <3>1. t = [call |-> t.call, req |-> t.req, disk |-> t.disk, st |-> t.st, vm |-> t.vm] /\ t.call = Len(ops)
            BY DEF NewTask
        <3> HIDE DEF t
        <3>2. /\ Len(tasks') = Len(tasks) + 1
              /\ tasks' = [i \in 1..Len(tasks) + 1 |-> tasks'[i]]
              /\ \A i \in 1..Len(tasks) : tasks'[i] = tasks[i]
              /\ tasks'[Len(tasks) + 1] = t
            BY <1>1, <2>5, Appended DEF t
        <3>3. \A i \in 1..Len(tasks) + 1 : i \in 1..Len(tasks) \/ i = Len(tasks) + 1
            BY <1>1
        <3>4. \A i \in 1..Len(tasks') : IsTask(tasks'[i]) /\ tasks'[i].call \in 1..Len(ops)
            BY <1>1, <2>1, <3>1, <3>2, <3>3 DEF IsTask
        <3> QED BY <1>1, <2>1, <2>2, <3>2, <3>4 DEF TypeInv, IsTask
    <2> QED BY <2>3, <2>4, <2>5
<1>5. ASSUME EndKind PROVE TypeInv'
    <2>1. UNCHANGED <<prov, ops, pc, attempt, result>>
        BY <1>5 DEF EndKind, Ours
    <2>2. PICK i \in 1..Len(tasks) : \E st, vm :
             tasks' = [tasks EXCEPT ![i] = [call |-> tasks[i].call, req |-> tasks[i].req, disk |-> tasks[i].disk, st |-> st, vm |-> vm]]
        BY <1>5 DEF EndKind
    <2>8. PICK st, vm :
             tasks' = [tasks EXCEPT ![i] = [call |-> tasks[i].call, req |-> tasks[i].req, disk |-> tasks[i].disk, st |-> st, vm |-> vm]]
        BY <2>2
    <2> DEFINE t == [call |-> tasks[i].call, req |-> tasks[i].req, disk |-> tasks[i].disk, st |-> st, vm |-> vm]
    <2>3. IsTask(t) /\ t.call = tasks[i].call
        BY DEF IsTask
    <2> HIDE DEF t
    <2>4. tasks' = [j \in 1..Len(tasks) |-> IF j = i THEN t ELSE tasks[j]]
        BY <1>1, <2>8 DEF t
    <2>5. Len(tasks') = Len(tasks)
        BY <1>1, <2>4
    <2>6. \A j \in 1..Len(tasks) : IsTask(tasks'[j]) /\ tasks'[j].call \in 1..Len(ops)
        BY <1>1, <2>3, <2>4
    <2>7. tasks' = [j \in 1..Len(tasks') |-> tasks'[j]]
        BY <2>4, <2>5
    <2> QED BY <1>1, <2>1, <2>5, <2>6, <2>7 DEF TypeInv, IsTask
<1>6. ASSUME OtherKind PROVE TypeInv'
    BY <1>1, <1>6 DEF TypeInv, IsTask, OtherKind, Ours
<1> QED BY <1>2, <1>4, <1>5, <1>6, NextKinds

\* The values of the variables: a call runs a program of its provider, control stays at a step of it, an error
\* is one the callers know, and every task belongs to a call (provider.go of the four packages).
THEOREM TypesKept == Spec => []TypeInv
<1>1. ASSUME Init PROVE TypeInv
    BY <1>1 DEF Init, TypeInv
<1> QED BY <1>1, TypeStep, PTL DEF Spec



----------------------------------------------------------------------------
(* The contract of port.Provider *)

\* What the tasks, the effects and the calls keep in a step.
TasksGrow ==
    /\ Len(tasks) <= Len(tasks')
    /\ \A i \in 1..Len(tasks) : /\ tasks'[i].call = tasks[i].call /\ tasks'[i].req = tasks[i].req
                                /\ tasks[i].st = "done" => tasks'[i].st = "done"
                                /\ tasks[i].vm # 0 \/ ~MakesVM(tasks[i].req) => tasks'[i].vm = tasks[i].vm

CallsGrow == /\ Len(ops) <= Len(ops') /\ \A k \in 1..Len(ops) : ops'[k] = ops[k]
             /\ asked \subseteq asked'

\* A step of the running operation adds at most one task, which has not ended.
LEMMA StepTasks ==
    ASSUME TypeInv, StepKind
    PROVE  \/ tasks' = tasks /\ ~SendKind
           \/ /\ SendKind /\ pc <= Len(Program) /\ tasks' = Append(tasks, NewTask(Cur.arg))
              /\ Len(tasks') = Len(tasks) + 1 /\ tasks'[Len(tasks) + 1] = NewTask(Cur.arg)
              /\ \A i \in 1..Len(tasks) : tasks'[i] = tasks[i]
<1>1. CASE SendKind /\ pc <= Len(Program)
    <2>1. tasks' = Append(tasks, NewTask(Cur.arg))
        BY <1>1 DEF SendKind
    <2>2. Len(tasks) \in Nat /\ tasks = [i \in 1..Len(tasks) |-> tasks[i]]
        BY DEF TypeInv
    <2> DEFINE t == NewTask(Cur.arg)
    <2> HIDE DEF t
    <2>3. Len(tasks') = Len(tasks) + 1 /\ tasks'[Len(tasks) + 1] = t /\ \A i \in 1..Len(tasks) : tasks'[i] = tasks[i]
        BY <2>1, <2>2, Appended DEF t
    <2> QED BY <1>1, <2>1, <2>3 DEF t
<1>2. CASE ~(SendKind /\ pc <= Len(Program))
    <2>1. tasks' = tasks
        BY <1>2 DEF StepKind, ReturnKind, FailKind, PlainKind, GuestKind, WaitKind, LookupKind, AllocateKind, GatherKind,
                    CollectKind, Keeps, Others
    <2>2. tasks' # Append(tasks, NewTask(Cur.arg))
        <3>1. Len(tasks) \in Nat /\ tasks = [i \in 1..Len(tasks) |-> tasks[i]]
            BY DEF TypeInv
        <3> DEFINE t == NewTask(Cur.arg)
        <3> HIDE DEF t
        <3> DEFINE r == Append(tasks, t)
        <3>2. Len(r) = Len(tasks) + 1
            BY <3>1, Appended
        <3> HIDE DEF r
        <3>3. tasks # r
            BY <3>1, <3>2
        <3> QED BY <2>1, <3>3 DEF t, r
    <2> QED BY <2>1, <2>2 DEF SendKind
<1> QED BY <1>1, <1>2

\* The end of a task changes nothing but its state and, when it has made a VM, the VM it is about.
LEMMA EndTasks ==
    ASSUME TypeInv, EndKind
    PROVE  /\ Len(tasks') = Len(tasks) /\ UNCHANGED <<Ours, asked>>
           /\ \E i \in 1..Len(tasks) : \E vm \in VM \cup {tasks[i].vm} :
                 /\ tasks[i].st = "running" /\ (vm = tasks[i].vm \/ (MakesVM(tasks[i].req) /\ tasks[i].vm = 0))
                 /\ tasks'[i].call = tasks[i].call /\ tasks'[i].req = tasks[i].req /\ tasks'[i].disk = tasks[i].disk
                 /\ tasks'[i].st \in {"done", "failed"} /\ tasks'[i].vm = vm
                 /\ \A j \in 1..Len(tasks) \ {i} : tasks'[j] = tasks[j]
<1>1. PICK i \in 1..Len(tasks) : \E st \in {"done", "failed"}, vm \in VM \cup {tasks[i].vm} :
             /\ tasks[i].st = "running"
             /\ vm = tasks[i].vm \/ (MakesVM(tasks[i].req) /\ tasks[i].vm = 0)
             /\ tasks' = [tasks EXCEPT ![i] = [call |-> tasks[i].call, req |-> tasks[i].req, disk |-> tasks[i].disk,
                                               st |-> st, vm |-> vm]]
             /\ UNCHANGED <<Ours, asked>>
    BY DEF EndKind
<1>2. PICK st \in {"done", "failed"}, vm \in VM \cup {tasks[i].vm} :
             /\ tasks[i].st = "running"
             /\ vm = tasks[i].vm \/ (MakesVM(tasks[i].req) /\ tasks[i].vm = 0)
             /\ tasks' = [tasks EXCEPT ![i] = [call |-> tasks[i].call, req |-> tasks[i].req, disk |-> tasks[i].disk,
                                               st |-> st, vm |-> vm]]
             /\ UNCHANGED <<Ours, asked>>
    BY <1>1
<1> DEFINE t == [call |-> tasks[i].call, req |-> tasks[i].req, disk |-> tasks[i].disk, st |-> st, vm |-> vm]
<1>3. t.call = tasks[i].call /\ t.req = tasks[i].req /\ t.disk = tasks[i].disk /\ t.st = st /\ t.vm = vm
    OBVIOUS
<1>4. tasks = [j \in 1..Len(tasks) |-> tasks[j]] /\ Len(tasks) \in Nat
    BY DEF TypeInv
<1> HIDE DEF t
<1>5. tasks' = [j \in 1..Len(tasks) |-> IF j = i THEN t ELSE tasks[j]]
    BY <1>2, <1>4 DEF t
<1>6. Len(tasks') = Len(tasks) /\ tasks'[i] = t /\ \A j \in 1..Len(tasks) \ {i} : tasks'[j] = tasks[j]
    BY <1>4, <1>5
<1> QED BY <1>2, <1>3, <1>6

\* Tasks are never forgotten, never become another call's and never end twice; calls are never forgotten.
LEMMA Grows == ASSUME TypeInv, [Next]_vars PROVE TasksGrow /\ CallsGrow
<1>1. ops \in Seq(DOMAIN Operations[prov]) /\ Len(ops) \in Nat /\ Len(tasks) \in Nat
    BY DEF TypeInv
<1>2. ASSUME NEW o \in DOMAIN Operations[prov], Call(o) PROVE TasksGrow /\ CallsGrow
    <2>1. ops' = Append(ops, o) /\ tasks' = tasks /\ asked' = asked
        BY <1>2 DEF Call
    <2> QED BY <1>1, <2>1 DEF TasksGrow, CallsGrow
<1>3. ASSUME StepKind PROVE TasksGrow /\ CallsGrow
    <2>1. ops' = ops /\ asked \subseteq asked'
        BY <1>3 DEF StepKind, ReturnKind, FailKind, PlainKind, SendKind, GuestKind, WaitKind, LookupKind, AllocateKind,
                    GatherKind, CollectKind, Keeps, Others
    <2>2. TasksGrow
        BY <1>1, <1>3, StepTasks DEF TasksGrow
    <2> QED BY <1>1, <2>1, <2>2 DEF CallsGrow
<1>4. ASSUME EndKind PROVE TasksGrow /\ CallsGrow
    <2>1. CallsGrow
        BY <1>1, <1>4, EndTasks DEF CallsGrow, Ours
    <2>2. PICK i \in 1..Len(tasks) : \E vm :
                 /\ tasks[i].st = "running" /\ (vm = tasks[i].vm \/ (MakesVM(tasks[i].req) /\ tasks[i].vm = 0))
                 /\ tasks'[i].call = tasks[i].call /\ tasks'[i].req = tasks[i].req
                 /\ tasks'[i].vm = vm
                 /\ \A j \in 1..Len(tasks) \ {i} : tasks'[j] = tasks[j]
        BY <1>4, EndTasks
    <2>3. Len(tasks') = Len(tasks)
        BY <1>4, EndTasks
    <2> QED BY <1>1, <2>1, <2>2, <2>3 DEF TasksGrow
<1>5. ASSUME OtherKind PROVE TasksGrow /\ CallsGrow
    BY <1>1, <1>5 DEF OtherKind, Ours, TasksGrow, CallsGrow
<1> QED BY <1>2, <1>3, <1>4, <1>5, NextKinds


\* Every accepted request has an effect its operation may have, and only a reboot asks the guest.
MayInv ==
    /\ \A i \in 1..Len(tasks) : LET o == ops[tasks[i].call] IN o \in DOMAIN Port!May /\ EffectOf(tasks[i].req) \in Port!May[o]
    /\ \A k \in asked : k \in 1..Len(ops) /\ ops[k] = "Reboot"

\* Control is where a delivery is awaited only with a task that delivers, and past it only when something
\* promised has happened.
DeliveryInv ==
    result = "running" /\ Last \in DOMAIN Port!May =>
        \A w \in Nat, D \in SUBSET Nat : Delivery(Program, w, Port!Promised(Last), D) =>
            /\ pc = w /\ w \in 1..Len(Program) =>
                 task \in 1..Len(tasks) /\ tasks[task].call = Len(ops) /\ EffectOf(tasks[task].req) \in Port!Promised(Last)
            /\ pc \in D => \E e \in Port!Promised(Last) : <<Len(ops), e>> \in Effects

\* What has happened has happened.
LEMMA EffectsStay == ASSUME TypeInv, [Next]_vars PROVE Effects \subseteq Effects'
<1>1. DOMAIN tasks = 1..Len(tasks) /\ DOMAIN tasks' = 1..Len(tasks') /\ Len(tasks) \in Nat /\ Len(tasks') \in Nat
    <2>1. TypeInv'
        BY TypeStep
    <2> QED BY <2>1 DEF TypeInv
<1>2. TasksGrow /\ CallsGrow
    BY Grows
<1>3. asked \subseteq asked'
    BY <1>2 DEF CallsGrow
<1>4. ASSUME NEW i \in DOMAIN tasks, tasks[i].st = "done"
      PROVE  i \in DOMAIN tasks' /\ tasks'[i].st = "done" /\ tasks'[i].call = tasks[i].call /\ tasks'[i].req = tasks[i].req
    BY <1>1, <1>2, <1>4 DEF TasksGrow
<1>5. ASSUME NEW i \in DOMAIN tasks, tasks[i].st = "done"
      PROVE  <<tasks[i].call, EffectOf(tasks[i].req)>> \in Effects'
    <2>1. <<tasks'[i].call, EffectOf(tasks'[i].req)>> \in Effects'
        BY <1>4, <1>5 DEF Effects
    <2> QED BY <1>4, <1>5, <2>1
<1>6. \A k \in asked : <<k, "asked">> \in Effects'
    BY <1>3 DEF Effects
<1> QED BY <1>5, <1>6 DEF Effects

\* Requests are only sent by operations that may have their effect.
LEMMA MayStep == ASSUME TypeInv, MayInv, [Next]_vars PROVE MayInv'
<1>1. TasksGrow /\ CallsGrow /\ Len(tasks) \in Nat /\ Len(ops) \in Nat
    BY Grows DEF TypeInv
<1>2. ASSUME NEW i \in 1..Len(tasks)
      PROVE  /\ ops'[tasks'[i].call] \in DOMAIN Port!May
             /\ EffectOf(tasks'[i].req) \in Port!May[ops'[tasks'[i].call]]
    <2>1. tasks[i].call \in 1..Len(ops) /\ tasks'[i].call = tasks[i].call /\ tasks'[i].req = tasks[i].req
        BY <1>1 DEF TasksGrow, TypeInv
    <2>2. ops'[tasks[i].call] = ops[tasks[i].call]
        BY <1>1, <2>1 DEF CallsGrow
    <2> QED BY <2>1, <2>2 DEF MayInv
<1>3. \A k \in asked : k \in 1..Len(ops') /\ ops'[k] = "Reboot"
    <2>1. TypeInv'
        BY TypeStep
    <2>2. Len(ops') \in Nat
        BY <2>1 DEF TypeInv
    <2> QED BY <1>1, <2>2 DEF CallsGrow, MayInv
<1>4. CASE Len(tasks') = Len(tasks) /\ asked' = asked
    BY <1>2, <1>3, <1>4 DEF MayInv
<1>5. CASE StepKind
    <2>1. ops' = ops /\ result = "running"
        BY <1>5 DEF StepKind
    <2>2. Len(ops) > 0 /\ Last = ops[Len(ops)] /\ Len(ops) \in Nat /\ pc \in Nat /\ pc > 0
        BY <2>1 DEF TypeInv, Last
    <2>3. Sound(prov, Last, Program) /\ Len(Program) \in Nat
        BY <2>2, ProgramSound
    <2>4. CASE SendKind /\ pc <= Len(Program)
        <3>1. Last \in DOMAIN Port!May /\ EffectOf(Cur.arg) \in Port!May[Last]
            BY <2>2, <2>3, <2>4 DEF Sound, SendKind, Cur
        <3>2. /\ Len(tasks') = Len(tasks) + 1 /\ tasks'[Len(tasks) + 1] = NewTask(Cur.arg) /\ asked' = asked
            BY <1>5, <2>4, StepTasks DEF SendKind
        <3>3. NewTask(Cur.arg).call = Len(ops) /\ NewTask(Cur.arg).req = Cur.arg
            BY DEF NewTask
        <3>4. \A i \in 1..Len(tasks') : i \in 1..Len(tasks) \/ i = Len(tasks) + 1
            BY <1>1, <3>2
        <3>5. \A i \in 1..Len(tasks') : /\ ops'[tasks'[i].call] \in DOMAIN Port!May
                                        /\ EffectOf(tasks'[i].req) \in Port!May[ops'[tasks'[i].call]]
            BY <1>2, <2>1, <2>2, <3>1, <3>2, <3>3, <3>4
        <3> QED BY <1>3, <3>2, <3>5 DEF MayInv
    <2>5. CASE ~(SendKind /\ pc <= Len(Program))
        <3>1. tasks' = tasks
            BY <1>5, <2>5, StepTasks
        <3>2. CASE GuestKind /\ pc <= Len(Program)
            <4>1. Last = "Reboot" /\ asked' = asked \cup {Len(ops)}
                BY <2>2, <2>3, <3>2 DEF Sound, GuestKind, Cur
            <4>2. Len(ops) \in 1..Len(ops') /\ ops'[Len(ops)] = "Reboot"
                BY <2>1, <2>2, <4>1
            <4>3. \A k \in asked' : k \in 1..Len(ops') /\ ops'[k] = "Reboot"
                BY <1>3, <4>1, <4>2
            <4> QED BY <1>2, <3>1, <4>3 DEF MayInv
        <3>3. CASE ~(GuestKind /\ pc <= Len(Program))
            <4>1. asked' = asked
                BY <1>5, <3>3 DEF StepKind, ReturnKind, FailKind, PlainKind, SendKind, WaitKind, LookupKind, AllocateKind,
                                  GatherKind, CollectKind, Keeps, Others
            <4> QED BY <1>4, <3>1, <4>1
        <3> QED BY <3>2, <3>3
    <2> QED BY <2>4, <2>5
<1>6. ASSUME NEW o, Call(o) PROVE Len(tasks') = Len(tasks) /\ asked' = asked
    BY <1>6 DEF Call
<1>7. CASE EndKind
    BY <1>4, <1>7, EndTasks
<1>8. CASE OtherKind
    BY <1>4, <1>8 DEF OtherKind
<1> QED BY <1>4, <1>5, <1>6, <1>7, <1>8, NextKinds


\* Where a step of the running operation can lead.
LEMMA Moves ==
    ASSUME TypeInv, StepKind, result' = "running"
    PROVE  /\ pc \in 1..Len(Program) /\ IsStep(Cur)
           /\ \/ pc' = pc /\ task' = task /\ (Stays \/ (attempt' = attempt /\ tasks' = tasks))
              \/ Cur.err > 0 /\ pc' = pc + Cur.err /\ task' = task /\ attempt' = 1
              \/ /\ pc' = pc + Cur.ok /\ attempt' = 1
                 /\ \/ SendKind /\ task' = Len(tasks) + 1
                    \/ PlainKind \/ GuestKind \/ WaitKind \/ LookupKind \/ AllocateKind \/ CollectKind
<1>1. pc > 0 /\ pc \in Nat /\ Len(ops) > 0 /\ result = "running"
    BY DEF TypeInv, StepKind
<1>2. Len(Program) \in Nat /\ \A i \in 1..Len(Program) : IsStep(Program[i])
    BY <1>1, ProgramSound
<1>3. "running" \notin ErrorCode
    BY DEF ErrorCode
<1>4. ~ReturnKind /\ ~Ends
    BY <1>3 DEF ReturnKind, Ends
<1>5. pc \in 1..Len(Program) /\ IsStep(Cur)
    BY <1>1, <1>2, <1>4 DEF StepKind, Cur
<1>6. ASSUME Fails, task' = task
      PROVE  \/ pc' = pc /\ task' = task /\ (Stays \/ (attempt' = attempt /\ tasks' = tasks))
             \/ Cur.err > 0 /\ pc' = pc + Cur.err /\ task' = task /\ attempt' = 1
    BY <1>4, <1>6 DEF Fails, Stays, Goes
<1>7. CASE FailKind
    BY <1>5, <1>6, <1>7 DEF FailKind, Keeps
<1>8. CASE SendKind
    BY <1>5, <1>6, <1>8 DEF SendKind, Goes
<1>9. CASE PlainKind \/ GuestKind \/ WaitKind \/ LookupKind \/ AllocateKind \/ CollectKind
    BY <1>5, <1>9 DEF PlainKind, GuestKind, WaitKind, LookupKind, AllocateKind, CollectKind, Goes
<1>10. CASE GatherKind
    BY <1>5, <1>10 DEF GatherKind, control
<1> QED BY <1>4, <1>7, <1>8, <1>9, <1>10 DEF StepKind

\* A delivery is awaited with the right task, and passed only when something promised has happened.
LEMMA DeliveryStep == ASSUME TypeInv, MayInv, DeliveryInv, [Next]_vars PROVE DeliveryInv'
<1> SUFFICES ASSUME result' = "running", Last' \in DOMAIN Port!May, NEW w \in Nat, NEW D \in SUBSET Nat,
                    Delivery(Program', w, Port!Promised(Last'), D)
             PROVE  /\ pc' = w /\ w \in 1..Len(Program') =>
                         /\ task' \in 1..Len(tasks') /\ tasks'[task'].call = Len(ops')
                         /\ EffectOf(tasks'[task'].req) \in Port!Promised(Last')
                    /\ pc' \in D => \E e \in Port!Promised(Last') : <<Len(ops'), e>> \in Effects'
    BY DEF DeliveryInv, Port!May, Port!Promised
<1>1. TypeInv' /\ Effects \subseteq Effects' /\ TasksGrow /\ Len(tasks) \in Nat /\ Len(ops) \in Nat
    BY TypeStep, EffectsStay, Grows DEF TypeInv
<1>2. CASE result = "running" /\ UNCHANGED <<ops, prov>>
    <2> DEFINE P == Program  E == Port!Promised(Last)
    <2>1. Program' = P /\ Last' = Last /\ Len(ops') = Len(ops) /\ Delivery(P, w, E, D) /\ Last \in DOMAIN Port!May
        BY <1>2 DEF Program, Last, Port!Promised, Port!May
    <2>2. /\ pc = w /\ w \in 1..Len(P) => task \in 1..Len(tasks) /\ tasks[task].call = Len(ops) /\ EffectOf(tasks[task].req) \in E
          /\ pc \in D => \E e \in E : <<Len(ops), e>> \in Effects
        BY <1>2, <2>1 DEF DeliveryInv
    <2>3. ASSUME pc' = pc, task' = task
          PROVE  /\ pc' = w /\ w \in 1..Len(P) =>
                      task' \in 1..Len(tasks') /\ tasks'[task'].call = Len(ops) /\ EffectOf(tasks'[task'].req) \in E
                 /\ pc' \in D => \E e \in E : <<Len(ops), e>> \in Effects'
        <3>1. Len(tasks') \in Nat
            BY <1>1 DEF TypeInv
        <3> HIDE DEF P, E
        <3> QED BY <1>1, <2>2, <2>3, <3>1 DEF TasksGrow
    <2>4. CASE StepKind
        <3>1. Len(P) \in Nat /\ Len(ops) > 0 /\ Sound(prov, Last, P)
            BY <1>2, ProgramSound DEF TypeInv
        <3>2. CASE pc' = pc /\ task' = task
            BY <2>1, <2>3, <3>2
        <3>3. CASE Cur.err > 0 /\ pc' = pc + Cur.err /\ pc \in 1..Len(P)
            <4>1. Cur = P[pc]
                BY DEF Cur
            <4> HIDE DEF P, E
            <4>2. pc' # w /\ (pc' \in D => pc \in D)
                BY <2>1, <3>3, <4>1 DEF Delivery
            <4>3. pc' \in D => \E e \in E : <<Len(ops), e>> \in Effects'
                BY <1>1, <2>2, <4>2
            <4> QED BY <2>1, <4>2, <4>3 DEF P, E
        <3>4. CASE /\ pc' = pc + Cur.ok /\ pc \in 1..Len(P)
                   /\ \/ SendKind /\ task' = Len(tasks) + 1
                      \/ PlainKind \/ GuestKind \/ WaitKind \/ LookupKind \/ AllocateKind \/ CollectKind
            <4>1. Cur = P[pc]
                BY DEF Cur
            <4>2. ASSUME pc' = w, w \in 1..Len(P)
                  PROVE  task' \in 1..Len(tasks') /\ tasks'[task'].call = Len(ops) /\ EffectOf(tasks'[task'].req) \in E
                <5> HIDE DEF P, E
                <5>1. pc = w - 1 /\ Cur.do = "send" /\ EffectOf(Cur.arg) \in E
                    BY <2>1, <3>4, <4>1, <4>2 DEF Delivery
                <5>2. SendKind /\ task' = Len(tasks) + 1
                    BY <3>4, <5>1 DEF PlainKind, GuestKind, WaitKind, LookupKind, AllocateKind, CollectKind
                <5>3. Len(tasks') = Len(tasks) + 1 /\ tasks'[Len(tasks) + 1] = NewTask(Cur.arg)
                    BY <2>4, <5>2, StepTasks
                <5>4. NewTask(Cur.arg).call = Len(ops) /\ NewTask(Cur.arg).req = Cur.arg
                    BY DEF NewTask
                <5> QED BY <1>1, <5>1, <5>2, <5>3, <5>4
            <4>3. ASSUME pc' \in D PROVE \E e \in E : <<Len(ops), e>> \in Effects'
                <5>1. CASE pc \in D
                    BY <1>1, <2>2, <5>1
                <5>2. CASE pc \notin D
                    <6> HIDE DEF P, E
                    <6>1. (pc = w /\ Cur.do = "wait") \/ Cur.do \in {"fail", "guest"}
                        BY <2>1, <3>4, <4>1, <4>3, <5>2 DEF Delivery
                    <6>2. CASE pc = w /\ Cur.do = "wait"
                        <7>1. WaitKind
                            BY <3>4, <6>2 DEF SendKind, PlainKind, GuestKind, LookupKind, AllocateKind, CollectKind
                        <7>2. tasks[task].st = "done" /\ task \in 1..Len(tasks) /\ tasks[task].call = Len(ops)
                              /\ EffectOf(tasks[task].req) \in E
                            BY <2>2, <3>4, <6>2, <7>1 DEF WaitKind
                        <7>3. DOMAIN tasks = 1..Len(tasks)
                            BY DEF TypeInv
                        <7>4. <<Len(ops), EffectOf(tasks[task].req)>> \in Effects
                            BY <7>2, <7>3 DEF Effects
                        <7> QED BY <1>1, <7>2, <7>4
                    <6>3. CASE Cur.do \in {"fail", "guest"}
                        <7>1. GuestKind
                            BY <3>4, <6>3 DEF SendKind, PlainKind, WaitKind, LookupKind, AllocateKind, CollectKind
                        <7>2. asked' = asked \cup {Len(ops)} /\ Cur.do = "guest"
                            BY <7>1 DEF GuestKind
                        <7>3. Last = "Reboot"
                            BY <3>1, <3>4, <4>1, <7>2 DEF Sound
                        <7>4. "asked" \in E
                            BY <7>3 DEF Port!Promised, Port!May, E
                        <7>5. <<Len(ops), "asked">> \in Effects'
                            BY <7>2 DEF Effects
                        <7> QED BY <7>4, <7>5
                    <6> QED BY <6>1, <6>2, <6>3
                <5> QED BY <5>1, <5>2
            <4> QED BY <2>1, <4>2, <4>3
        <3> QED BY <2>4, <3>2, <3>3, <3>4, Moves
    <2>5. CASE EndKind \/ OtherKind
        <3>1. pc' = pc /\ task' = task
            BY <2>5 DEF EndKind, OtherKind, Ours
        <3> QED BY <2>1, <2>3, <3>1
    <2>6. CASE \E o \in DOMAIN Operations[prov] : Call(o)
        BY <1>2, <2>6 DEF Call
    <2> QED BY <2>4, <2>5, <2>6, NextKinds
<1>3. CASE ~(result = "running" /\ UNCHANGED <<ops, prov>>)
    <2>1. \E o \in DOMAIN Operations[prov] : Call(o)
        BY <1>3, NextKinds DEF StepKind, EndKind, OtherKind, Ours
    <2>2. pc' = 1
        BY <2>1 DEF Call
    <2>3. w \in 1..Len(Program') => w > 1
        BY DEF Delivery
    <2>4. 1 \notin D
        BY DEF Delivery
    <2> QED BY <2>2, <2>3, <2>4
<1> QED BY <1>2, <1>3


\* What is known of the tasks and of control in every state.
ContractInv == TypeInv /\ MayInv /\ DeliveryInv

\* What the contract rests on is true in every state.
LEMMA ContractInvariant == Spec => []ContractInv
<1>1. ASSUME Init PROVE ContractInv
    <2>1. tasks = << >> /\ asked = {} /\ result = "idle"
        BY <1>1 DEF Init
    <2>2. TypeInv
        BY <1>1 DEF Init, TypeInv
    <2> QED BY <2>1, <2>2 DEF ContractInv, MayInv, DeliveryInv
<1>2. ASSUME ContractInv, [Next]_vars PROVE ContractInv'
    BY <1>2, TypeStep, MayStep, DeliveryStep DEF ContractInv
<1> QED BY <1>1, <1>2, PTL DEF Spec

\* The result as the callers of the interface see it.
Seen == IF result \in ErrorCode THEN "error" ELSE result

\* A step has no effect unless a task ends or the guest is asked.
LEMMA EffectsSame == ASSUME UNCHANGED <<tasks, asked>> PROVE Effects' = Effects
BY DEF Effects

\* Each step of the providers is a step of the interface, or none.
LEMMA ContractStep ==
    ASSUME ContractInv, [Next]_vars
    PROVE  Port!Next \/ UNCHANGED <<ops, Effects, Seen>>
<1>1. TypeInv /\ MayInv /\ DeliveryInv /\ Len(ops) \in Nat
    BY DEF ContractInv, TypeInv
<1>2. {"idle", "running", "ok"} \cap ErrorCode = {}
    BY DEF ErrorCode
<1>3. ASSUME NEW o \in DOMAIN Operations[prov], Call(o) PROVE Port!Call(o) /\ o \in Port!Op
    <2>1. Seen # "running" /\ Seen' = "running"
        BY <1>2, <1>3 DEF Call, Seen
    <2>2. Effects' = Effects /\ Len(ops) < MaxCalls /\ ops' = Append(ops, o)
        BY <1>3, EffectsSame DEF Call
    <2>3. o \in Port!Op
        BY <1>1, ProgramsSound DEF TypeInv, Sound
    <2> QED BY <2>1, <2>2, <2>3 DEF Port!Call, Seen
<1>4. CASE StepKind
    <2>1. result = "running" /\ ops' = ops /\ Len(ops) > 0 /\ pc > 0 /\ pc \in Nat
        BY <1>1, <1>4 DEF StepKind, TypeInv
    <2>2. Sound(prov, Last, Program) /\ Len(Program) \in Nat
        BY <1>1, <2>1, ProgramSound
    <2>3. Seen = "running"
        BY <1>2, <2>1 DEF Seen
    <2>4. CASE ReturnKind
        <3>1. Effects' = Effects
            BY <2>4, EffectsSame DEF ReturnKind, Keeps
        <3>2. ASSUME Last \in DOMAIN Port!May PROVE \E e \in Port!Promised(Last) : <<Len(ops), e>> \in Effects
            <4>1. PICK w \in Nat, D \in SUBSET Nat : Delivery(Program, w, Port!Promised(Last), D)
                BY <2>2, <3>2 DEF Sound
            <4>2. pc \in D
                BY <2>1, <2>4, <4>1 DEF Delivery, ReturnKind
            <4> QED BY <1>1, <2>1, <3>2, <4>1, <4>2 DEF DeliveryInv
        <3>3. Seen' = "ok"
            BY <1>2, <2>4 DEF Seen, ReturnKind
        <3> QED BY <2>1, <2>3, <3>1, <3>2, <3>3 DEF Port!Next, Port!ReturnOK, Seen, Last
    <2>5. CASE ~ReturnKind /\ pc <= Len(Program) /\ GuestKind
        <3>1. Last = "Reboot" /\ asked' = asked \cup {Len(ops)} /\ tasks' = tasks
            BY <2>1, <2>2, <2>5 DEF Sound, GuestKind, Cur, Others
        <3>2. Effects' = Effects \cup {<<Len(ops), "asked">>}
            BY <3>1 DEF Effects
        <3>3. Seen' = Seen
            BY <2>5 DEF GuestKind, Goes, Seen
        <3>4. Port!Perform(Len(ops), "asked")
            BY <2>1, <3>1, <3>2, <3>3 DEF Port!Perform, Port!May, Last, Seen
        <3>5. Len(ops) \in 1..Len(ops) /\ "asked" \in Port!Effect
            BY <1>1, <2>1 DEF Port!Effect
        <3> QED BY <3>4, <3>5 DEF Port!Next
    <2>6. CASE ~ReturnKind /\ pc <= Len(Program) /\ ~GuestKind
        <3>1. asked' = asked
            BY <1>4, <2>6 DEF StepKind, FailKind, PlainKind, SendKind, WaitKind, LookupKind, AllocateKind,
                              GatherKind, CollectKind, Keeps, Others
        <3>2. Effects' = Effects
            <4>1. CASE tasks' = tasks
                BY <3>1, <4>1, EffectsSame
            <4>2. CASE tasks' # tasks
                <5>1. /\ Len(tasks') = Len(tasks) + 1 /\ tasks'[Len(tasks) + 1] = NewTask(Cur.arg)
                      /\ \A i \in 1..Len(tasks) : tasks'[i] = tasks[i]
                    BY <1>1, <1>4, <4>2, StepTasks
                <5>2. NewTask(Cur.arg).st # "done"
                    BY DEF NewTask
                <5>3. DOMAIN tasks = 1..Len(tasks) /\ DOMAIN tasks' = 1..Len(tasks') /\ Len(tasks) \in Nat
                    <6>1. TypeInv'
                        BY <1>1, TypeStep
                    <6> QED BY <1>1, <6>1 DEF TypeInv
                <5>4. {j \in DOMAIN tasks' : tasks'[j].st = "done"} = {j \in DOMAIN tasks : tasks[j].st = "done"}
                    BY <5>1, <5>2, <5>3
                <5>5. \A j \in {j \in DOMAIN tasks : tasks[j].st = "done"} : tasks'[j] = tasks[j]
                    BY <5>1, <5>3
                <5> QED BY <3>1, <5>4, <5>5 DEF Effects
            <4> QED BY <4>1, <4>2
        <3>3. CASE result' = result
            BY <2>1, <3>2, <3>3 DEF Seen
        <3>4. CASE result' # result
            <4>1. Ends
                BY <1>4, <2>6, <3>4 DEF StepKind, FailKind, PlainKind, SendKind, WaitKind, LookupKind, AllocateKind,
                                        GatherKind, CollectKind, Goes, Fails, Stays, control
            <4>2. Seen' = "error"
                BY <4>1 DEF Ends, Seen
            <4> QED BY <2>1, <2>3, <3>2, <4>2 DEF Port!Next, Port!ReturnError, Seen
        <3> QED BY <3>3, <3>4
    <2> QED BY <1>4, <2>4, <2>5, <2>6 DEF StepKind
<1>5. CASE EndKind
    <2>1. UNCHANGED <<ops, result, asked>> /\ Len(tasks') = Len(tasks)
        BY <1>1, <1>5, EndTasks DEF Ours
    <2>2. PICK i \in 1..Len(tasks) : /\ tasks[i].st = "running"
                                     /\ tasks'[i].call = tasks[i].call /\ tasks'[i].req = tasks[i].req
                                     /\ \A j \in 1..Len(tasks) \ {i} : tasks'[j] = tasks[j]
        BY <1>1, <1>5, EndTasks
    <2> DEFINE k == tasks[i].call  e == EffectOf(tasks[i].req)
    <2>3. k \in 1..Len(ops) /\ ops[k] \in DOMAIN Port!May /\ e \in Port!May[ops[k]]
        BY <1>1 DEF MayInv, TypeInv
    <2>4. DOMAIN tasks = 1..Len(tasks) /\ DOMAIN tasks' = 1..Len(tasks)
        <3>1. TypeInv'
            BY <1>1, TypeStep
        <3> QED BY <1>1, <2>1, <3>1 DEF TypeInv
    <2>5. Effects' = Effects \/ Effects' = Effects \cup {<<k, e>>}
        <3>1. Effects' \subseteq Effects \cup {<<k, e>>}
            BY <2>1, <2>2, <2>4 DEF Effects
        <3>2. Effects \subseteq Effects'
            BY <1>1, EffectsStay
        <3> QED BY <3>1, <3>2
    <2>6. Seen' = Seen
        BY <2>1 DEF Seen
    <2>7. e \in Port!Effect
        BY <2>3 DEF Port!May, Port!Effect
    <2>8. CASE Effects' = Effects
        BY <2>1, <2>6, <2>8
    <2>9. CASE Effects' = Effects \cup {<<k, e>>}
        <3>1. Port!Perform(k, e)
            BY <2>1, <2>3, <2>6, <2>9 DEF Port!Perform, Seen
        <3> QED BY <2>3, <2>7, <3>1 DEF Port!Next
    <2> QED BY <2>5, <2>8, <2>9
<1>6. CASE OtherKind
    <2>1. UNCHANGED <<ops, result>> /\ Effects' = Effects
        BY <1>6, EffectsSame DEF OtherKind, Ours
    <2> QED BY <2>1 DEF Seen
<1> QED BY <1>1, <1>3, <1>4, <1>5, <1>6, NextKinds DEF Port!Next

\* The four providers keep the contract of port.Provider (service.go, provider.go of the four packages): an
\* operation that returns without an error has had its effect by then, whatever is retried, lost, refused,
\* late or done by others in between; and what happens later is what the operation was asked for.
THEOREM ContractKept == Spec => Contract
<1>1. ASSUME Init PROVE Port!Init
    <2>1. Effects = {} /\ ops = << >> /\ result = "idle"
        BY <1>1 DEF Init, Effects
    <2> QED BY <2>1 DEF Port!Init, ErrorCode
<1>2. ASSUME ContractInv, [Next]_vars PROVE [Port!Next]_(Port!portVars)
    <2>1. CASE UNCHANGED <<ops, Effects, Seen>>
        BY <2>1 DEF Port!portVars, Seen
    <2> QED BY <1>2, <2>1, ContractStep
<1> QED BY <1>1, <1>2, ContractInvariant, PTL DEF Contract, Spec, Port!Spec



----------------------------------------------------------------------------
(* At most one new VM *)

\* The tasks that make a VM for a call.
MakersOf(k) == {i \in 1..Len(tasks) : tasks[i].call = k /\ MakesVM(tasks[i].req)}

\* How often the request for a new VM may be sent.
Bound == IF prov = "nutanix" THEN 3 ELSE 1

\* The tasks of a call that make a VM: all for the ID Proxmox has chosen, and not more than the bound with
\* the other providers.
CountInv ==
    \A k \in 1..Len(ops) :
        IF prov = "proxmox" THEN \A i, j \in MakersOf(k) : tasks[i].vm = tasks[j].vm /\ tasks[i].vm # 0
        ELSE Cardinality(MakersOf(k)) <= Bound

\* The running operation before, at and after the step that asks for the new VM.
MakingInv ==
    result = "running" => \A m \in Nat : Maker(prov, Program, m) =>
        /\ pc < m => MakersOf(Len(ops)) = {}
        /\ prov # "proxmox" /\ pc = m /\ m \in 1..Len(Program) =>
             attempt <= Bound /\ Cardinality(MakersOf(Len(ops))) < attempt
        /\ prov = "proxmox" => /\ \A i \in MakersOf(Len(ops)) : tasks[i].vm = fresh
                               /\ pc = m /\ m \in 1..Len(Program) => fresh \in VM

\* What a step does to the tasks that make a VM for a call.
LEMMA MakingMoves ==
    ASSUME TypeInv, [Next]_vars, NEW k \in 1..Len(ops)
    PROVE  /\ IsFiniteSet(MakersOf(k)) /\ Cardinality(MakersOf(k)) \in Nat
           /\ \A i \in MakersOf(k) : i \in 1..Len(tasks) /\ (tasks[i].vm # 0 => tasks'[i].vm = tasks[i].vm)
           /\ \/ MakersOf(k)' = MakersOf(k)
              \/ /\ StepKind /\ SendKind /\ pc <= Len(Program) /\ MakesVM(Cur.arg) /\ k = Len(ops)
                 /\ MakersOf(k)' = MakersOf(k) \cup {Len(tasks) + 1} /\ tasks'[Len(tasks) + 1] = NewTask(Cur.arg)
                 /\ Cardinality(MakersOf(k)') = Cardinality(MakersOf(k)) + 1
<1>1. Len(tasks) \in Nat
    BY DEF TypeInv
<1>2. IsFiniteSet(MakersOf(k)) /\ Cardinality(MakersOf(k)) \in Nat
    <2>1. IsFiniteSet(1..Len(tasks)) /\ MakersOf(k) \in SUBSET (1..Len(tasks))
        BY <1>1, FS_Interval DEF MakersOf
    <2> QED BY <2>1, FS_Subset, FS_CardinalityType
<1>3. \A i \in MakersOf(k) : i \in 1..Len(tasks) /\ (tasks[i].vm # 0 => tasks'[i].vm = tasks[i].vm)
    BY Grows DEF MakersOf, TasksGrow
<1>4. ASSUME tasks' = tasks PROVE MakersOf(k)' = MakersOf(k)
    BY <1>4 DEF MakersOf
<1>5. CASE EndKind
    <2>1. Len(tasks') = Len(tasks)
        BY <1>5, EndTasks
    <2>2. \A i \in 1..Len(tasks) : tasks'[i].call = tasks[i].call /\ tasks'[i].req = tasks[i].req
        BY Grows DEF TasksGrow
    <2>3. MakersOf(k)' = MakersOf(k)
        BY <2>1, <2>2 DEF MakersOf
    <2> QED BY <1>2, <1>3, <2>3
<1>6. CASE StepKind
    <2>1. CASE tasks' = tasks
        BY <1>2, <1>3, <1>4, <2>1
    <2>2. CASE tasks' # tasks
        <3>1. /\ SendKind /\ pc <= Len(Program)
              /\ Len(tasks') = Len(tasks) + 1 /\ tasks'[Len(tasks) + 1] = NewTask(Cur.arg)
              /\ \A i \in 1..Len(tasks) : tasks'[i] = tasks[i]
            BY <1>6, <2>2, StepTasks
        <3>2. NewTask(Cur.arg).call = Len(ops) /\ NewTask(Cur.arg).req = Cur.arg
            BY DEF NewTask
        <3>3. \A i : i \in 1..Len(tasks') <=> i \in 1..Len(tasks) \/ i = Len(tasks) + 1
            BY <1>1, <3>1
        <3>4. \A i : i \in MakersOf(k)' <=> i \in MakersOf(k) \/ (i = Len(tasks) + 1 /\ k = Len(ops) /\ MakesVM(Cur.arg))
            <4> TAKE i
            <4>1. i \in MakersOf(k)' <=> i \in 1..Len(tasks') /\ tasks'[i].call = k /\ MakesVM(tasks'[i].req)
                BY DEF MakersOf, MakesVM, EffectOf
            <4>2. Len(tasks) + 1 \notin 1..Len(tasks)
                BY <1>1
            <4> QED BY <3>1, <3>2, <3>3, <4>1, <4>2 DEF MakersOf
        <3>5. CASE k = Len(ops) /\ MakesVM(Cur.arg)
            <4>1. MakersOf(k)' = MakersOf(k) \cup {Len(tasks) + 1} /\ Len(tasks) + 1 \notin MakersOf(k)
                BY <1>1, <3>4, <3>5 DEF MakersOf
            <4>2. Cardinality(MakersOf(k) \cup {Len(tasks) + 1}) = Cardinality(MakersOf(k)) + 1
                BY <1>2, <4>1, FS_AddElement
            <4> QED BY <1>2, <1>3, <1>6, <3>1, <3>5, <4>1, <4>2
        <3>6. CASE ~(k = Len(ops) /\ MakesVM(Cur.arg))
            <4>1. MakersOf(k)' = MakersOf(k)
                BY <3>4, <3>6
            <4> QED BY <1>2, <1>3, <4>1
        <3> QED BY <3>5, <3>6
    <2> QED BY <2>1, <2>2
<1>7. ASSUME (\E o \in DOMAIN Operations[prov] : Call(o)) \/ OtherKind PROVE tasks' = tasks
    BY <1>7 DEF Call, OtherKind
<1> QED BY <1>2, <1>3, <1>4, <1>5, <1>6, <1>7, NextKinds


\* How often a step that asks for a new VM is attempted at most.
LEMMA Attempts ==
    ASSUME TypeInv, prov # "proxmox", NEW m, Maker(prov, Program, m), m \in 1..Len(Program), pc = m
    PROVE  Policy(Cur.retry).maxAttempts \in Nat /\ Policy(Cur.retry).maxAttempts <= Bound
<1>1. prov \in {"nutanix", "vmware", "esxi"}
    BY BoundsAssumption DEF TypeInv
<1>2. Cur = Program[m]
    BY DEF Cur
<1>3. CASE Cur.retry = "once"
    <2>1. Policy(Cur.retry).maxAttempts = 1
        BY <1>3 DEF Policy
    <2> QED BY <2>1 DEF Bound
<1>4. CASE prov = "nutanix" /\ Cur.retry = "operation"
    <2>1. Policy(Cur.retry).maxAttempts = 3
        BY <1>4 DEF Policy, NX!withOperationRetry
    <2> QED BY <1>4, <2>1 DEF Bound
<1> QED BY <1>1, <1>2, <1>3, <1>4 DEF Maker

\* At the step that asks for a VM no more tasks have been made than attempts have failed, all under one ID.
LEMMA MakingStep == ASSUME TypeInv, CountInv, MakingInv, [Next]_vars PROVE MakingInv'
<1> SUFFICES ASSUME result' = "running", NEW m \in Nat, Maker(prov', Program', m), NEW k, k = Len(ops')
             PROVE  /\ pc' < m => MakersOf(k)' = {}
                    /\ prov' # "proxmox" /\ pc' = m /\ m \in 1..Len(Program') =>
                         attempt' <= Bound' /\ Cardinality(MakersOf(k)') < attempt'
                    /\ prov' = "proxmox" => /\ \A i \in MakersOf(k)' : tasks'[i].vm = fresh'
                                            /\ pc' = m /\ m \in 1..Len(Program') => fresh' \in VM
    BY DEF MakingInv, MakersOf, Maker, EffectOf, MakesVM, Bound, VM
<1>1. Len(tasks) \in Nat /\ Len(ops) \in Nat /\ attempt \in Nat \ {0} /\ pc \in Nat
    BY DEF TypeInv
<1>2. ASSUME NEW o \in DOMAIN Operations[prov], Call(o)
      PROVE  MakersOf(k)' = {} /\ pc' = 1 /\ attempt' = 1
    <2>1. ops' = Append(ops, o) /\ tasks' = tasks /\ pc' = 1 /\ attempt' = 1
        BY <1>2 DEF Call
    <2>2. Len(ops') = Len(ops) + 1
        BY <2>1 DEF TypeInv
    <2>3. \A i \in 1..Len(tasks) : tasks[i].call # k
        BY <1>1, <2>2 DEF TypeInv
    <2> QED BY <2>1, <2>3 DEF MakersOf
<1>3. CASE \E o \in DOMAIN Operations[prov] : Call(o)
    <2>1. MakersOf(k)' = {} /\ pc' = 1 /\ attempt' = 1
        BY <1>2, <1>3
    <2>2. Cardinality({}) = 0 /\ 1 <= Bound'
        BY FS_EmptySet DEF Bound
    <2>3. prov' = "proxmox" /\ m \in 1..Len(Program') => m > 1
        BY DEF Maker
    <2> QED BY <2>1, <2>2, <2>3
<1>4. CASE UNCHANGED <<prov, ops, result>>
    <2> DEFINE P == Program
    <2>1. Program' = P /\ k = Len(ops) /\ Maker(prov, P, m) /\ prov' = prov /\ Bound' = Bound
        BY <1>4 DEF Program, Bound
    <2>2. k \in 1..Len(ops)
        BY <1>1, <1>4, <2>1 DEF TypeInv
    <2>3. /\ IsFiniteSet(MakersOf(k)) /\ Cardinality(MakersOf(k)) \in Nat
          /\ \A i \in MakersOf(k) : i \in 1..Len(tasks) /\ (tasks[i].vm # 0 => tasks'[i].vm = tasks[i].vm)
        BY <2>2, MakingMoves
    <2>4. /\ pc < m => MakersOf(k) = {}
          /\ prov # "proxmox" /\ pc = m /\ m \in 1..Len(P) => attempt <= Bound /\ Cardinality(MakersOf(k)) < attempt
          /\ prov = "proxmox" => /\ \A i \in MakersOf(k) : tasks[i].vm = fresh
                                 /\ pc = m /\ m \in 1..Len(P) => fresh \in VM
        BY <1>4, <2>1 DEF MakingInv
    <2>5. prov = "proxmox" => \A i \in MakersOf(k) : tasks'[i].vm = fresh
        BY <2>2, <2>3, <2>4 DEF CountInv
    <2>6. Cardinality({}) = 0
        BY FS_EmptySet
    <2>7. CASE StepKind
        <3>2. pc \in 1..Len(P) /\ IsStep(Cur) /\ Cur = P[pc]
            BY <2>7, Moves DEF Cur
        <3>3. Cur.ok \in Nat \ {0} /\ Cur.err \in Nat
            BY <3>2 DEF IsStep
        <3>4. \/ pc' = pc /\ (Stays \/ (attempt' = attempt /\ tasks' = tasks))
              \/ Cur.err > 0 /\ pc' = pc + Cur.err /\ attempt' = 1
              \/ pc' = pc + Cur.ok /\ attempt' = 1
            BY <2>7, Moves
        <3>5. pc' \in Nat /\ pc <= pc' /\ (pc' # pc => attempt' = 1)
            <4> HIDE DEF P
            <4> QED BY <1>1, <3>3, <3>4
        <3>6. ASSUME prov # "proxmox", pc = m, m \in 1..Len(P), Stays
              PROVE  attempt' = attempt + 1 /\ attempt' <= Bound
            <4>1. Policy(Cur.retry).maxAttempts \in Nat /\ Policy(Cur.retry).maxAttempts <= Bound
                BY <2>1, <3>6, Attempts
            <4>2. Bound \in Nat
                BY DEF Bound
            <4> DEFINE a == Policy(Cur.retry).maxAttempts
            <4>3. attempt' = attempt + 1 /\ attempt < a
                BY <3>6 DEF Stays
            <4> HIDE DEF a
            <4>4. a \in Nat /\ a <= Bound
                BY <4>1 DEF a
            <4> QED BY <1>1, <4>2, <4>3, <4>4
        <3>7. fresh' = fresh \/ (Cur.do = "allocate" /\ fresh' \in VM /\ tasks' = tasks)
            BY <2>7, <3>2 DEF StepKind, ReturnKind, FailKind, PlainKind, SendKind, GuestKind, WaitKind, LookupKind,
                              AllocateKind, GatherKind, CollectKind, Keeps, Others
        <3>8. Cur.do = "allocate" => pc < m
            BY <2>1, <3>2 DEF Maker
        <3>9. ASSUME prov = "proxmox", pc' = m, pc < m, m \in 1..Len(P) PROVE fresh' \in VM
            <4>1. m > 1 /\ P[m - 1].do = "allocate" /\ P[m - 1].ok = 1 /\ Gate(P, m - 1)
                BY <2>1, <3>9 DEF Maker
            <4> HIDE DEF P
            <4>2. pc = m - 1
                <5>1. CASE pc \in 1..m - 2
                    <6>1. pc + Cur.ok <= m - 1 /\ pc + Cur.err <= m - 1
                        BY <3>2, <4>1, <5>1 DEF Gate
                    <6> QED BY <1>1, <3>3, <3>4, <3>9, <5>1, <6>1
                <5> QED BY <3>2, <3>9, <5>1
            <4>3. pc' = pc + Cur.ok /\ Cur.do = "allocate" /\ Cur.err = 0
                BY <3>2, <3>4, <3>9, <4>1, <4>2 DEF Gate
            <4>4. ~Stays /\ ~FailKind /\ ~GatherKind
                BY <1>1, <3>2, <4>3, <3>3 DEF Stays, FailKind, Fails, Goes, GatherKind, control, Ends, Gather, Fetch, At
            <4>5. AllocateKind
                BY <2>7, <4>3, <4>4, <3>2 DEF StepKind, ReturnKind, PlainKind, SendKind, GuestKind, WaitKind, LookupKind, CollectKind
            <4> QED BY <4>5 DEF AllocateKind
        <3>10. CASE MakersOf(k)' = MakersOf(k)
            <4>1. pc' < m => MakersOf(k)' = {}
                BY <1>1, <2>4, <3>5, <3>10
            <4>2. ASSUME prov # "proxmox", pc' = m, m \in 1..Len(P)
                  PROVE  attempt' <= Bound /\ Cardinality(MakersOf(k)') < attempt'
                <5>1. CASE pc = m
                    <6>1. Stays \/ attempt' = attempt
                        BY <1>1, <3>3, <3>4, <4>2, <5>1
                    <6> QED BY <1>1, <2>3, <2>4, <3>6, <3>10, <4>2, <5>1, <6>1
                <5>2. CASE pc # m
                    <6>1. pc < m /\ attempt' = 1
                        BY <1>1, <3>5, <4>2, <5>2
                    <6>2. 1 <= Bound
                        BY DEF Bound
                    <6> QED BY <2>4, <2>6, <3>10, <6>1, <6>2
                <5> QED BY <5>1, <5>2
            <4>3. ASSUME prov = "proxmox", NEW i \in MakersOf(k)' PROVE tasks'[i].vm = fresh'
                BY <2>4, <2>5, <3>7, <3>8, <3>10, <4>3
            <4>4. ASSUME prov = "proxmox", pc' = m, m \in 1..Len(P) PROVE fresh' \in VM
                BY <1>1, <2>4, <3>5, <3>7, <3>9, <4>4
            <4> QED BY <2>1, <4>1, <4>2, <4>3, <4>4
        <3>11. CASE MakersOf(k)' # MakersOf(k)
            <4>1. /\ SendKind /\ MakesVM(Cur.arg)
                  /\ MakersOf(k)' = MakersOf(k) \cup {Len(tasks) + 1} /\ tasks'[Len(tasks) + 1] = NewTask(Cur.arg)
                  /\ Cardinality(MakersOf(k)') = Cardinality(MakersOf(k)) + 1
                BY <2>2, <3>11, MakingMoves
            <4>2. pc = m
                BY <2>1, <3>2, <4>1 DEF Maker, MakesVM, SendKind
            <4>3. ASSUME prov # "proxmox", pc' = m, m \in 1..Len(P)
                  PROVE  attempt' <= Bound /\ Cardinality(MakersOf(k)') < attempt'
                <5>1. tasks' # tasks
                    BY <3>11 DEF MakersOf
                <5>2. Stays
                    BY <1>1, <3>3, <3>4, <4>2, <4>3, <5>1
                <5>3. attempt' = attempt + 1 /\ attempt' <= Bound
                    BY <3>6, <4>2, <4>3, <5>2
                <5>4. Cardinality(MakersOf(k)) < attempt
                    BY <2>4, <4>2, <4>3
                <5> QED BY <1>1, <2>3, <4>1, <5>3, <5>4
            <4>4. fresh' = fresh
                BY <4>1 DEF SendKind
            <4>5. ASSUME prov = "proxmox", NEW i \in MakersOf(k)' PROVE tasks'[i].vm = fresh'
                <5>1. NewTask(Cur.arg).vm = fresh
                    BY <4>1, <4>5 DEF NewTask, MakesVM, EffectOf, PowerEffect, Untouching
                <5> QED BY <2>5, <4>1, <4>4, <4>5, <5>1
            <4>6. pc' >= m
                BY <1>1, <3>5, <4>2
            <4> QED BY <2>1, <2>4, <3>2, <3>5, <4>2, <4>3, <4>4, <4>5, <4>6
        <3> QED BY <3>10, <3>11
    <2>8. CASE EndKind \/ OtherKind
        <3>1. UNCHANGED <<pc, attempt, fresh>> /\ ~SendKind
            <4>1. UNCHANGED <<pc, attempt, fresh>> /\ (tasks' = tasks \/ Len(tasks') = Len(tasks))
                BY <2>8, EndTasks DEF OtherKind, EndKind, Ours
            <4>2. SendKind => Len(tasks') = Len(tasks) + 1
                <5>1. Len(tasks) \in Nat /\ tasks = [i \in 1..Len(tasks) |-> tasks[i]]
                    BY DEF TypeInv
                <5> DEFINE t == NewTask(Cur.arg)
                <5> HIDE DEF t
                <5>2. Len(Append(tasks, t)) = Len(tasks) + 1
                    BY <5>1, Appended
                <5> QED BY <5>2 DEF SendKind, t
            <4> QED BY <1>1, <4>1, <4>2
        <3>2. MakersOf(k)' = MakersOf(k)
            BY <2>2, <3>1, MakingMoves
        <3> QED BY <2>1, <2>4, <2>5, <3>1, <3>2
    <2>9. CASE \E o \in DOMAIN Operations[prov] : Call(o)
        BY <1>3, <2>9
    <2> QED BY <2>7, <2>8, <2>9, NextKinds
<1>5. CASE ~UNCHANGED <<prov, ops, result>>
    <2>1. ~StepKind
        BY <1>5 DEF StepKind
    <2>2. ~EndKind /\ ~OtherKind
        BY <1>5 DEF EndKind, OtherKind, Ours
    <2> QED BY <1>3, <2>1, <2>2, NextKinds
<1> QED BY <1>4, <1>5


\* The tasks that make a VM for a call stay within the bound, or under one ID.
LEMMA CountStep == ASSUME TypeInv, CountInv, MakingInv, [Next]_vars PROVE CountInv'
<1> SUFFICES ASSUME NEW k \in 1..Len(ops')
             PROVE  IF prov' = "proxmox" THEN \A i, j \in MakersOf(k)' : tasks'[i].vm = tasks'[j].vm /\ tasks'[i].vm # 0
                    ELSE Cardinality(MakersOf(k)') <= Bound'
    BY DEF CountInv, MakersOf, MakesVM, EffectOf, Bound
<1>1. Len(tasks) \in Nat /\ Len(ops) \in Nat /\ attempt \in Nat \ {0} /\ pc \in Nat
    BY DEF TypeInv
<1>2. prov' = prov /\ Bound' = Bound /\ Bound \in {1, 3}
    <2>1. prov' = prov
        BY NextKinds DEF Call, session, StepKind, EndKind, OtherKind, Ours
    <2> QED BY <2>1 DEF Bound
<1>3. CASE k \notin 1..Len(ops)
    <2>1. PICK o \in DOMAIN Operations[prov] : Call(o)
        BY <1>3, NextKinds DEF StepKind, EndKind, OtherKind, Ours
    <2>2. tasks' = tasks
        BY <2>1 DEF Call
    <2>3. \A i \in 1..Len(tasks) : tasks[i].call # k
        BY <1>3 DEF TypeInv
    <2>4. MakersOf(k)' = {}
        BY <2>2, <2>3 DEF MakersOf
    <2> QED BY <1>2, <2>4, FS_EmptySet
<1>4. CASE k \in 1..Len(ops)
    <2>1. /\ IsFiniteSet(MakersOf(k)) /\ Cardinality(MakersOf(k)) \in Nat
          /\ \A i \in MakersOf(k) : i \in 1..Len(tasks) /\ (tasks[i].vm # 0 => tasks'[i].vm = tasks[i].vm)
        BY <1>4, MakingMoves
    <2>2. IF prov = "proxmox" THEN \A i, j \in MakersOf(k) : tasks[i].vm = tasks[j].vm /\ tasks[i].vm # 0
          ELSE Cardinality(MakersOf(k)) <= Bound
        BY <1>4 DEF CountInv
    <2>3. CASE MakersOf(k)' = MakersOf(k)
        BY <1>2, <2>1, <2>2, <2>3
    <2>4. CASE MakersOf(k)' # MakersOf(k)
        <3>1. /\ StepKind /\ SendKind /\ MakesVM(Cur.arg) /\ pc <= Len(Program) /\ k = Len(ops)
              /\ MakersOf(k)' = MakersOf(k) \cup {Len(tasks) + 1} /\ tasks'[Len(tasks) + 1] = NewTask(Cur.arg)
              /\ Cardinality(MakersOf(k)') = Cardinality(MakersOf(k)) + 1
            BY <1>4, <2>4, MakingMoves
        <3>2. result = "running" /\ Len(ops) > 0 /\ pc > 0
            BY <3>1 DEF StepKind, TypeInv
        <3>3. PICK m \in Nat : Maker(prov, Program, m)
            BY <3>2, ProgramSound DEF Sound
        <3>4. Len(Program) \in Nat
            BY <3>2, ProgramSound
        <3>5. pc = m /\ m \in 1..Len(Program)
            BY <1>1, <3>1, <3>2, <3>3, <3>4 DEF Maker, MakesVM, SendKind, Cur
        <3>6. CASE prov = "proxmox"
            <4>1. NewTask(Cur.arg).vm = fresh /\ fresh \in VM
                BY <3>1, <3>2, <3>3, <3>5, <3>6 DEF NewTask, MakesVM, EffectOf, PowerEffect, Untouching, MakingInv
            <4>2. \A i \in MakersOf(k) : tasks[i].vm = fresh
                BY <3>1, <3>2, <3>3, <3>6 DEF MakingInv
            <4>3. fresh # 0
                BY <4>1 DEF VM
            <4>4. \A i \in MakersOf(k)' : tasks'[i].vm = fresh
                BY <2>1, <3>1, <4>1, <4>2, <4>3
            <4> QED BY <1>2, <3>6, <4>3, <4>4
        <3>7. CASE prov # "proxmox"
            <4>1. attempt <= Bound /\ Cardinality(MakersOf(k)) < attempt
                BY <3>1, <3>2, <3>3, <3>5, <3>7 DEF MakingInv
            <4> QED BY <1>1, <1>2, <2>1, <3>1, <3>7, <4>1
        <3> QED BY <3>6, <3>7
    <2> QED BY <2>3, <2>4
<1> QED BY <1>3, <1>4

\* What is known of the tasks that make VMs in every state.
LEMMA CountInvariant == Spec => [](TypeInv /\ CountInv /\ MakingInv)
<1>1. ASSUME Init PROVE TypeInv /\ CountInv /\ MakingInv
    <2>1. ops = << >> /\ result = "idle" /\ TypeInv
        BY <1>1 DEF Init, TypeInv
    <2> QED BY <2>1 DEF CountInv, MakingInv
<1>2. ASSUME TypeInv, CountInv, MakingInv, [Next]_vars PROVE TypeInv' /\ CountInv' /\ MakingInv'
    BY <1>2, TypeStep, CountStep, MakingStep
<1> QED BY <1>1, <1>2, PTL DEF Spec

\* A call of CreateVM or CloneVM makes at most one VM although its request may be sent again (withOperationRetry
\* of proxmox/provider.go repeats it with the ID of nextVMID, vmware/provider.go does not repeat it), and with
\* Nutanix, whose request has no identity, at most one per attempt.
THEOREM OneVM == Spec => []CreatedOnce
<1>1. ASSUME TypeInv, CountInv PROVE CreatedOnce
    <2> SUFFICES ASSUME NEW k \in DOMAIN ops
                 PROVE  Cardinality({tasks[i].vm : i \in {j \in DOMAIN tasks : /\ tasks[j].call = k /\ tasks[j].st = "done"
                                                                               /\ MakesVM(tasks[j].req)}})
                            <= (IF prov = "nutanix" THEN 3 ELSE 1)
        BY DEF CreatedOnce
    <2> DEFINE R == {j \in DOMAIN tasks : tasks[j].call = k /\ tasks[j].st = "done" /\ MakesVM(tasks[j].req)}
               T == {tasks[i].vm : i \in R}
    <2>1. k \in 1..Len(ops) /\ DOMAIN tasks = 1..Len(tasks) /\ Len(tasks) \in Nat
        BY <1>1 DEF TypeInv
    <2>2. R \in SUBSET MakersOf(k)
        BY <2>1 DEF MakersOf
    <2>3. IsFiniteSet(MakersOf(k))
        <3>1. IsFiniteSet(1..Len(tasks)) /\ MakersOf(k) \in SUBSET (1..Len(tasks))
            BY <2>1, FS_Interval DEF MakersOf
        <3> QED BY <3>1, FS_Subset
    <2>4. IsFiniteSet(T) /\ Cardinality(T) <= Cardinality(MakersOf(k))
        <3>1. [i \in R |-> tasks[i].vm] \in Surjection(R, T)
            BY DEF Surjection
        <3> HIDE DEF R, T
        <3>2. IsFiniteSet(R) /\ Cardinality(R) <= Cardinality(MakersOf(k))
            BY <2>2, <2>3, FS_Subset
        <3>3. IsFiniteSet(T) /\ Cardinality(T) <= Cardinality(R)
            BY <3>1, <3>2, FS_Surjection
        <3>4. Cardinality(T) \in Nat /\ Cardinality(R) \in Nat /\ Cardinality(MakersOf(k)) \in Nat
            BY <2>3, <3>2, <3>3, FS_CardinalityType
        <3> QED BY <3>2, <3>3, <3>4
    <2>5. Cardinality(T) \in Nat /\ Cardinality(MakersOf(k)) \in Nat
        BY <2>3, <2>4, FS_CardinalityType
    <2>6. CASE prov # "proxmox"
        <3>1. Cardinality(MakersOf(k)) <= Bound
            BY <1>1, <2>1, <2>6 DEF CountInv
        <3> HIDE DEF T
        <3>2. Cardinality(T) <= (IF prov = "nutanix" THEN 3 ELSE 1)
            BY <2>4, <2>5, <3>1 DEF Bound
        <3> QED BY <3>2 DEF T
    <2>7. CASE prov = "proxmox"
        <3>1. \A i, j \in R : tasks[i].vm = tasks[j].vm
            BY <1>1, <2>1, <2>2, <2>7 DEF CountInv
        <3>2. T = {} \/ \E x : T = {x}
            <4>1. CASE R = {}
                BY <4>1
            <4>2. ASSUME NEW i \in R PROVE T = {tasks[i].vm}
                BY <3>1, <4>2
            <4> HIDE DEF T
            <4> QED BY <4>1, <4>2
        <3>3. Cardinality(T) <= 1
            <4> HIDE DEF T
            <4>1. CASE T = {}
                BY <4>1, FS_EmptySet
            <4>2. ASSUME NEW x, T = {x} PROVE Cardinality(T) = 1
                BY <4>2, FS_Singleton
            <4> QED BY <2>5, <3>2, <4>1, <4>2
        <3> QED BY <2>7, <3>3
    <2> QED BY <2>6, <2>7
<1> QED BY <1>1, CountInvariant, PTL



----------------------------------------------------------------------------
(* Truthful answers *)

\* The history: a VM has been in the state it is in since the call, and what was never absent exists.
HistoryInv ==
    /\ power \in [VM -> PowerState] /\ held \in [VM -> SUBSET PowerState]
    /\ Len(ops) > 0 => \A v \in VM : power[v] \in held[v]
    /\ stay \subseteq {v \in VM : Exists(v)}

\* During a call the history only grows.
HistoryGrows == (\A v \in VM : held[v] \subseteq held'[v]) /\ stay' \subseteq stay

\* The status a VM has in a power state.
StatusOf == [on |-> "running", off |-> "stopped", suspended |-> "suspended", absent |-> "absent"]

\* The VM last read had the status that was read.
SeenOK == seen.vm \in VM /\ \E p \in held[seen.vm] : seen.status = StatusOf[p]

\* The snapshot lists every VM that was there all the time, or the one page of Nutanix.
Complete == stay \subseteq snap \/ (prov = "nutanix" /\ Cardinality(snap \ {0}) >= PageLength)

\* A VM is answered only after it has been read.
LookedInv ==
    ops # << >> /\ Last \in VMAnswers =>
        /\ result = "running" => \A D \in SUBSET Nat : Looked(Program, D) /\ pc \in D => SeenOK
        /\ result = "ok" => SeenOK

\* The snapshot before, while and after the goroutines of a sync run: the list of the VMs is not yet there, is
\* missing or is complete.
SyncInv ==
    ops # << >> /\ Last = "SyncInventory" =>
        /\ result = "running" => \A x \in Nat : Gathered(Program, x) =>
             /\ pc < x => pending = {} /\ missing = {} /\ snap = {}
             /\ pc = x => \/ pending = {} /\ missing = {} /\ snap = {}
                          \/ "vms" \in pending \cup missing
                          \/ Complete
             /\ pc > x => Complete
        /\ result = "ok" => Complete

\* A state is reported under its name by all providers.
LEMMA StatusTrue ==
    ASSUME prov \in Provider
    PROVE  \A p \in {"on", "off", "suspended"} : Status(Native[prov][p]) = StatusOf[p]
<1>1. prov \in {"proxmox", "nutanix", "vmware", "esxi"}
    BY BoundsAssumption
<1>2. CASE prov = "proxmox"
    BY <1>2 DEF Status, Native, StatusOf, PX!enrichVMInfo, PX!mapVMStatus
<1>3. CASE prov = "nutanix"
    BY <1>3 DEF Status, Native, StatusOf, NX!mapVMToInfo, NX!mapPowerState
<1>4. CASE prov \in {"vmware", "esxi"}
    BY <1>4 DEF Status, Native, StatusOf, VW!MapVMInfoWithTopology, VW!mapPowerState
<1> QED BY <1>1, <1>2, <1>3, <1>4

\* Switching a VM makes history.
LEMMA SwitchedHistory ==
    ASSUME HistoryInv, Switched, ops' = ops
    PROVE  HistoryInv' /\ HistoryGrows
<1>1. PICK v \in VM, p \in PowerState : SetPower(v, p)
    BY DEF Switched
<1>2. /\ power' = [power EXCEPT ![v] = p] /\ held' = [held EXCEPT ![v] = held[v] \cup {p}]
      /\ stay' = IF p = "absent" THEN stay \ {v} ELSE stay
    BY <1>1 DEF SetPower
<1>3. power' \in [VM -> PowerState] /\ power'[v] = p /\ \A w \in VM \ {v} : power'[w] = power[w]
    BY <1>2 DEF HistoryInv
<1>4. /\ held' \in [VM -> SUBSET PowerState] /\ held'[v] = held[v] \cup {p}
      /\ \A w \in VM \ {v} : held'[w] = held[w]
    BY <1>2 DEF HistoryInv
<1>5. Len(ops') > 0 => \A w \in VM : power'[w] \in held'[w]
    BY <1>3, <1>4 DEF HistoryInv
<1>6. stay' \subseteq {w \in VM : w \in VM /\ power'[w] # "absent"} /\ stay' \subseteq stay
    BY <1>2, <1>3 DEF HistoryInv, Exists
<1> QED BY <1>3, <1>4, <1>5, <1>6 DEF HistoryInv, HistoryGrows, Exists, VM

\* The history stays true, and grows as long as no call begins.
LEMMA HistoryStep ==
    ASSUME TypeInv, HistoryInv, [Next]_vars
    PROVE  HistoryInv' /\ (HistoryGrows \/ \E o \in DOMAIN Operations[prov] : Call(o))
<1>1. ASSUME NEW o \in DOMAIN Operations[prov], Call(o) PROVE HistoryInv'
    <2>1. /\ power' = power /\ held' = [v \in VM |-> {power[v]}] /\ stay' = {v \in VM : Exists(v)}
        BY <1>1 DEF Call
    <2> QED BY <2>1 DEF HistoryInv, Exists, VM
<1>2. ASSUME UNCHANGED <<power, held, stay, ops>> PROVE HistoryInv' /\ HistoryGrows
    BY <1>2 DEF HistoryInv, HistoryGrows, Exists, VM
<1>3. CASE StepKind
    <2>1. UNCHANGED <<power, held, stay, ops>>
        BY <1>3 DEF StepKind, ReturnKind, FailKind, PlainKind, SendKind, GuestKind, WaitKind, LookupKind,
                    AllocateKind, GatherKind, CollectKind, Keeps, Others
    <2> QED BY <1>2, <2>1
<1>4. CASE EndKind \/ OtherKind
    <2>1. ops' = ops /\ (Switched \/ UNCHANGED <<power, held, stay>>)
        BY <1>4 DEF EndKind, OtherKind, Ours
    <2> QED BY <1>2, <2>1, SwitchedHistory
<1> QED BY <1>1, <1>3, <1>4, NextKinds

\* A VM that has been read was in that state, and was at some time of the call whatever happens next.
LEMMA SeenStays ==
    ASSUME TypeInv, HistoryInv, [Next]_vars, ~\E o \in DOMAIN Operations[prov] : Call(o)
    PROVE  /\ SeenOK => SeenOK'
           /\ StepKind /\ pc <= Len(Program) /\ LookupKind => SeenOK'
<1>1. HistoryGrows
    BY HistoryStep
<1>2. ASSUME StepKind, pc <= Len(Program), LookupKind PROVE SeenOK'
    <2> DEFINE n == Native[prov][power[target]]
    <2>1. Exists(target) /\ seen' = [vm |-> target, native |-> n, status |-> Status(n)] /\ held' = held
        BY <1>2 DEF LookupKind
    <2>2. target \in VM /\ power[target] \in {"on", "off", "suspended"}
        BY <2>1 DEF Exists, HistoryInv, PowerState
    <2>3. Status(n) = StatusOf[power[target]]
        BY <2>2, StatusTrue DEF TypeInv
    <2>4. Len(ops) > 0
        BY <1>2 DEF StepKind, TypeInv
    <2>5. power[target] \in held[target]
        BY <2>2, <2>4 DEF HistoryInv
    <2>6. seen'.vm = target /\ seen'.status = Status(n)
        BY <2>1
    <2> HIDE DEF n
    <2> QED BY <2>1, <2>2, <2>3, <2>5, <2>6 DEF SeenOK, StatusOf, VM
<1>3. CASE seen' = seen
    BY <1>1, <1>2, <1>3 DEF SeenOK, StatusOf, VM, HistoryGrows
<1>4. CASE seen' # seen
    <2>1. StepKind
        BY <1>4, NextKinds DEF EndKind, OtherKind, Ours
    <2>2. pc <= Len(Program) /\ LookupKind
        BY <1>4, <2>1 DEF StepKind, ReturnKind, FailKind, PlainKind, SendKind, GuestKind, WaitKind, LookupKind,
                    AllocateKind, GatherKind, CollectKind, Keeps, Others
    <2> QED BY <1>2, <2>1, <2>2
<1> QED BY <1>3, <1>4

\* The VM is answered only after it has been read.
LEMMA LookedStep == ASSUME TypeInv, HistoryInv, LookedInv, [Next]_vars PROVE LookedInv'
<1>1. CASE \E o \in DOMAIN Operations[prov] : Call(o)
    <2>1. pc' = 1 /\ result' = "running"
        BY <1>1 DEF Call
    <2> QED BY <2>1 DEF LookedInv, Looked
<1>2. CASE ~\E o \in DOMAIN Operations[prov] : Call(o)
    <2> SUFFICES ASSUME Last' \in VMAnswers, ops' # << >>
                 PROVE  /\ result' = "running" => \A D \in SUBSET Nat : Looked(Program', D) /\ pc' \in D => SeenOK'
                        /\ result' = "ok" => SeenOK'
        BY DEF LookedInv, VMAnswers
    <2>1. ops' = ops /\ prov' = prov
        BY <1>2, NextKinds DEF StepKind, EndKind, OtherKind, Ours
    <2> DEFINE P == Program
    <2>2. Program' = P /\ Last' = Last
        BY <2>1 DEF Program, Last
    <2>3. SeenOK => SeenOK'
        BY <1>2, SeenStays
    <2>4. /\ result = "running" => \A D \in SUBSET Nat : Looked(P, D) /\ pc \in D => SeenOK
          /\ result = "ok" => SeenOK
        BY <2>1, <2>2 DEF LookedInv
    <2>5. CASE EndKind \/ OtherKind
        <3>1. pc' = pc /\ result' = result
            BY <2>5 DEF EndKind, OtherKind, Ours
        <3> QED BY <2>2, <2>3, <2>4, <3>1
    <2>6. CASE StepKind /\ result' = "running"
        <3> SUFFICES ASSUME NEW D \in SUBSET Nat, Looked(P, D), pc' \in D PROVE SeenOK'
            BY <2>2, <2>6
        <3>1. result = "running"
            BY <2>6 DEF StepKind
        <3>2. CASE pc \in D
            BY <2>3, <2>4, <3>1, <3>2
        <3>3. CASE pc \notin D
            <4>1. pc \in 1..Len(P) /\ Cur = P[pc]
                BY <2>6, Moves DEF Cur
            <4> HIDE DEF P
            <4>2. Cur.err > 0 => pc + Cur.err \notin D
                BY <3>3, <4>1 DEF Looked
            <4>3. Cur.do \in {"fail", "lookup"} \/ pc + Cur.ok \notin D
                BY <3>3, <4>1 DEF Looked
            <4>4. /\ pc' = pc + Cur.ok
                  /\ SendKind \/ PlainKind \/ GuestKind \/ WaitKind \/ LookupKind \/ AllocateKind \/ CollectKind
                BY <2>6, <3>3, <4>2, Moves
            <4>5. LookupKind
                BY <4>3, <4>4 DEF SendKind, PlainKind, GuestKind, WaitKind, AllocateKind, CollectKind
            <4>6. pc <= Len(Program)
                BY <4>1 DEF P, TypeInv
            <4> QED BY <1>2, <2>6, <4>5, <4>6, SeenStays
        <3> QED BY <3>2, <3>3
    <2>7. CASE StepKind /\ result' # "running"
        <3>1. result = "running" /\ Len(ops) > 0
            BY <2>7 DEF StepKind, TypeInv
        <3>2. ASSUME result' = "ok" PROVE SeenOK
            <4>1. "ok" \notin ErrorCode
                BY DEF ErrorCode
            <4>2. ReturnKind
                BY <2>7, <3>1, <3>2, <4>1 DEF StepKind, FailKind, PlainKind, SendKind, GuestKind, WaitKind, LookupKind,
                    AllocateKind, GatherKind, CollectKind, Fails, Ends, Stays, Goes, control
            <4>3. Sound(prov, Last, P)
                BY <3>1, ProgramSound
            <4>4. PICK D \in SUBSET Nat : Looked(P, D)
                BY <2>2, <4>3 DEF Sound
            <4>5. pc \in D
                BY <4>2, <4>4 DEF Looked, ReturnKind, TypeInv
            <4> QED BY <2>4, <3>1, <4>4, <4>5
        <3> QED BY <2>3, <2>7, <3>2
    <2> QED BY <1>2, <2>5, <2>6, <2>7, NextKinds
<1> QED BY <1>1, <1>2


\* The lists of a page are never fewer than the page holds.
LEMMA AnswersComplete ==
    ASSUME TypeInv, HistoryInv, NEW a \in Answers
    PROVE  stay \subseteq a \cup {0} \/ (prov = "nutanix" /\ Cardinality((a \cup {0}) \ {0}) >= PageLength)
<1> DEFINE present == {v \in VM : Exists(v)}
<1>1. stay \subseteq present /\ 0 \notin VM
    BY DEF HistoryInv, VM
<1>2. CASE prov # "nutanix"
    <2>1. a = present
        BY <1>2 DEF Answers
    <2> QED BY <1>1, <2>1
<1>3. CASE prov = "nutanix"
    <2>1. a \in NX!ClientListVMs(present, PageLength)
        BY <1>3 DEF Answers
    <2> HIDE DEF present
    <2>2. a \in SUBSET present /\ (a = present \/ Cardinality(a) = PageLength)
        <3>1. \A S : NX!Cardinality(S) = Cardinality(S)
            BY DEF NX!Cardinality, Cardinality
        <3> QED BY <2>1, <3>1 DEF NX!ClientListVMs
    <2>3. CASE a = present
        BY <1>1, <2>3
    <2>4. CASE Cardinality(a) = PageLength
        <3>1. 0 \notin a
            BY <1>1, <2>2 DEF present
        <3>2. (a \cup {0}) \ {0} = a
            BY <3>1
        <3>3. PageLength \in Nat
            BY BoundsAssumption
        <3> QED BY <1>3, <2>4, <3>2, <3>3
    <2> QED BY <2>2, <2>3, <2>4
<1> QED BY <1>2, <1>3

\* The sync returns only when the list of VMs is complete.
LEMMA SyncStep == ASSUME TypeInv, HistoryInv, SyncInv, [Next]_vars PROVE SyncInv'
<1>1. CASE \E o \in DOMAIN Operations[prov] : Call(o)
    <2> SUFFICES ASSUME NEW x \in Nat, Gathered(Program', x)
                 PROVE  /\ pc' <= x /\ pending' = {} /\ missing' = {} /\ snap' = {} /\ result' = "running"
        <3>1. pc' = 1
            BY <1>1 DEF Call
        <3> QED BY <1>1, <3>1 DEF Call, SyncInv
    <2>1. pc' = 1 /\ pending' = {} /\ missing' = {} /\ snap' = {} /\ result' = "running"
        BY <1>1 DEF Call
    <2> QED BY <2>1 DEF Gathered, Gate
<1>2. CASE ~\E o \in DOMAIN Operations[prov] : Call(o)
    <2> SUFFICES ASSUME Last' = "SyncInventory", ops' # << >>
                 PROVE  /\ result' = "running" => \A x \in Nat : Gathered(Program', x) =>
                             /\ pc' < x => pending' = {} /\ missing' = {} /\ snap' = {}
                             /\ pc' = x => \/ pending' = {} /\ missing' = {} /\ snap' = {}
                                           \/ "vms" \in pending' \cup missing'
                                           \/ Complete'
                             /\ pc' > x => Complete'
                        /\ result' = "ok" => Complete'
        BY DEF SyncInv
    <2>1. ops' = ops /\ prov' = prov
        BY <1>2, NextKinds DEF StepKind, EndKind, OtherKind, Ours
    <2> DEFINE P == Program
    <2>2. Program' = P /\ Last' = Last
        BY <2>1 DEF Program, Last
    <2>3. HistoryGrows
        BY <1>2, HistoryStep
    <2>4. snap' = snap /\ Complete => Complete'
        BY <2>1, <2>3 DEF Complete, HistoryGrows
    <2>5. /\ result = "running" => \A x \in Nat : Gathered(P, x) =>
             /\ pc < x => pending = {} /\ missing = {} /\ snap = {}
             /\ pc = x => \/ pending = {} /\ missing = {} /\ snap = {}
                          \/ "vms" \in pending \cup missing
                          \/ Complete
             /\ pc > x => Complete
          /\ result = "ok" => Complete
        BY <2>1, <2>2 DEF SyncInv
    <2>6. CASE EndKind \/ OtherKind
        <3>1. UNCHANGED <<pc, result, pending, missing, snap>>
            BY <2>6 DEF EndKind, OtherKind, Ours
        <3> HIDE DEF P
        <3> QED BY <2>2, <2>4, <2>5, <3>1
    <2>7. CASE StepKind /\ result' = "running"
        <3> SUFFICES ASSUME NEW x \in Nat, Gathered(P, x)
                     PROVE  /\ pc' < x => pending' = {} /\ missing' = {} /\ snap' = {}
                            /\ pc' = x => \/ pending' = {} /\ missing' = {} /\ snap' = {}
                                          \/ "vms" \in pending' \cup missing'
                                          \/ Complete'
                            /\ pc' > x => Complete'
            BY <2>2, <2>7
        <3>1. result = "running" /\ pc \in Nat
            BY <2>7 DEF StepKind, TypeInv
        <3>2. pc \in 1..Len(P) /\ IsStep(Cur) /\ Cur = P[pc]
            BY <2>7, Moves DEF Cur
        <3>3. Cur.ok \in Nat \ {0} /\ Cur.err \in Nat
            BY <3>2 DEF IsStep
        <3>4. /\ pc < x => pending = {} /\ missing = {} /\ snap = {}
              /\ pc = x => \/ pending = {} /\ missing = {} /\ snap = {}
                           \/ "vms" \in pending \cup missing
                           \/ Complete
              /\ pc > x => Complete
            BY <2>5, <3>1
        <3>5. \/ pc' = pc /\ (Stays \/ (attempt' = attempt /\ tasks' = tasks))
              \/ Cur.err > 0 /\ pc' = pc + Cur.err
              \/ /\ pc' = pc + Cur.ok
                 /\ SendKind \/ PlainKind \/ GuestKind \/ WaitKind \/ LookupKind \/ AllocateKind \/ CollectKind
            BY <2>7, Moves
        <3> HIDE DEF P
        <3>11. pc' \in Nat
            BY <3>1, <3>3, <3>5
        <3>6. pc < x => pc' <= x
            <4>1. ASSUME pc < x PROVE pc + Cur.ok <= x /\ pc + Cur.err <= x
                BY <3>2, <4>1 DEF Gathered, Gate
            <4> QED BY <3>1, <3>3, <3>5, <4>1
        <3>7. pc = x => Cur.do = "gather" /\ Cur.err = 0 /\ Cur.retry = "once" /\ "vms" \in DOMAIN Cur.arg /\ Cur.arg["vms"] = "fatal"
            BY <3>2 DEF Gathered, Gate
        <3>8. Cur.do = "gather" => pc = x
            BY <3>2 DEF Gathered
        <3>9. CASE GatherKind
            <4>1. pc = x /\ pc' = pc
                <5>1. Program[pc].do = "gather" /\ pc' = pc
                    BY <3>9 DEF GatherKind, Gather, Fetch, At, control
                <5> QED BY <3>8, <5>1 DEF Cur
            <4>2. CASE Gather
                BY <3>7, <4>1, <4>2 DEF Gather
            <4>3. ASSUME NEW l \in pending, Fetch(l)
                  PROVE  "vms" \in pending' \cup missing' \/ Complete'
                <5>1. pending' = pending \ {l}
                    BY <4>3 DEF Fetch
                <5>2. CASE missing' = missing \cup {l} /\ snap' = snap
                    BY <2>4, <3>4, <4>1, <5>1, <5>2
                <5>3. CASE l # "vms" /\ missing' = missing /\ snap' = snap
                    BY <2>4, <3>4, <4>1, <4>3, <5>1, <5>3
                <5>4. CASE l = "vms" /\ \E a \in Answers : snap' = a \cup {0}
                    <6>1. PICK a \in Answers : snap' = a \cup {0}
                        BY <5>4
                    <6>2. stay \subseteq a \cup {0} \/ (prov = "nutanix" /\ Cardinality((a \cup {0}) \ {0}) >= PageLength)
                        BY AnswersComplete
                    <6> QED BY <2>1, <2>3, <6>1, <6>2 DEF Complete, HistoryGrows
                <5> QED BY <4>3, <5>2, <5>3, <5>4 DEF Fetch
            <4> QED BY <3>9, <4>1, <4>2, <4>3 DEF GatherKind
        <3>10. CASE ~GatherKind
            <4>1. UNCHANGED <<pending, missing, snap>>
                BY <2>7, <3>10 DEF StepKind, ReturnKind, FailKind, PlainKind, SendKind, GuestKind, WaitKind, LookupKind,
                                   AllocateKind, CollectKind, Keeps, Others
            <4>2. CASE pc = x
                <5>1. ~Stays
                    <6>1. Policy(Cur.retry).maxAttempts = 1
                        BY <3>7, <4>2 DEF Policy
                    <6> QED BY <6>1 DEF Stays, TypeInv
                <5>2. pc' # pc
                    <6>1. ReturnKind \/ Fails \/ Goes(Cur.ok)
                        BY <2>7, <3>10 DEF StepKind, FailKind, PlainKind, SendKind, GuestKind, WaitKind, LookupKind,
                                           AllocateKind, CollectKind
                    <6>2. CASE ReturnKind
                        BY <3>1, <6>2 DEF ReturnKind
                    <6>3. CASE Fails
                        BY <2>7, <3>1, <3>3, <5>1, <6>3 DEF Fails, Ends, Goes, TypeInv
                    <6>4. CASE Goes(Cur.ok)
                        BY <3>1, <3>3, <6>4 DEF Goes
                    <6> QED BY <6>1, <6>2, <6>3, <6>4
                <5>3. CollectKind /\ pc' = pc + Cur.ok
                    BY <3>5, <3>7, <4>2, <5>1, <5>2 DEF SendKind, PlainKind, GuestKind, WaitKind, LookupKind, AllocateKind
                <5>4. "vms" \notin pending \cup missing /\ ~(pending = {} /\ missing = {} /\ snap = {})
                    BY <3>7, <4>2, <5>3 DEF CollectKind
                <5>5. Complete'
                    BY <2>4, <3>4, <4>1, <4>2, <5>4
                <5> QED BY <5>5, <5>3, <4>2, <3>1, <3>3
            <4>3. CASE pc < x
                <5>1. pc' <= x /\ pending' = {} /\ missing' = {} /\ snap' = {}
                    BY <3>4, <3>6, <4>1, <4>3
                <5> QED BY <3>11, <5>1
            <4>4. CASE pc > x
                <5>1. pc' > x
                    BY <3>1, <3>3, <3>5, <4>4
                <5>2. Complete'
                    BY <2>4, <3>4, <4>1, <4>4
                <5> QED BY <3>11, <5>1, <5>2
            <4> QED BY <3>1, <4>2, <4>3, <4>4
        <3> QED BY <3>9, <3>10
    <2>8. CASE StepKind /\ result' # "running"
        <3>1. result = "running" /\ Len(ops) > 0
            BY <2>8 DEF StepKind, TypeInv
        <3>2. ASSUME result' = "ok" PROVE Complete'
            <4>1. "ok" \notin ErrorCode
                BY DEF ErrorCode
            <4>2. ReturnKind
                BY <2>8, <3>1, <3>2, <4>1 DEF StepKind, FailKind, PlainKind, SendKind, GuestKind, WaitKind, LookupKind,
                    AllocateKind, GatherKind, CollectKind, Fails, Ends, Stays, Goes, control
            <4>3. Sound(prov, Last, P) /\ Len(P) \in Nat
                BY <3>1, ProgramSound
            <4>4. PICK x \in Nat : Gathered(P, x)
                BY <2>2, <4>3 DEF Sound
            <4>5. pc > x
                BY <4>2, <4>3, <4>4 DEF Gathered, Gate, ReturnKind, TypeInv
            <4>6. snap' = snap
                BY <4>2 DEF ReturnKind, Keeps, Others
            <4> QED BY <2>4, <2>5, <3>1, <4>4, <4>5, <4>6
        <3> QED BY <2>8, <3>2
    <2> QED BY <1>2, <2>6, <2>7, <2>8, NextKinds
<1> QED BY <1>1, <1>2


\* What is known of reads, snapshots and the history in every state.
AnswerInv == TypeInv /\ HistoryInv /\ LookedInv /\ SyncInv

\* What truthful answers rest on is true in every state.
LEMMA AnswerInvariant == Spec => []AnswerInv
<1>1. ASSUME Init PROVE AnswerInv
    <2>1. TypeInv /\ ops = << >>
        BY <1>1 DEF Init, TypeInv
    <2>2. HistoryInv
        <3>1. PICK p \in {"on", "off"} : power = [v \in VM |-> IF v = 1 THEN p ELSE "absent"]
            BY <1>1 DEF Init
        <3>2. held = [v \in VM |-> {}] /\ stay = {} /\ Len(ops) = 0
            BY <1>1 DEF Init
        <3>3. power \in [VM -> PowerState] /\ held \in [VM -> SUBSET PowerState]
            BY <3>1, <3>2 DEF PowerState
        <3> QED BY <3>2, <3>3 DEF HistoryInv
    <2> QED BY <2>1, <2>2 DEF AnswerInv, LookedInv, SyncInv
<1>2. ASSUME AnswerInv, [Next]_vars PROVE AnswerInv'
    BY <1>2, TypeStep, HistoryStep, LookedStep, SyncStep DEF AnswerInv
<1> QED BY <1>1, <1>2, PTL DEF Spec

\* What a call answers was so while it ran: GetVM, CreateVM and CloneVM return a VM with a status it was in, and
\* SyncInventory a snapshot with every VM that existed during the whole call, however its goroutines end (sync.go
\* of the four packages); only Nutanix's ListVMs stops at one page.
THEOREM AnswersTrue == Spec => []AnswersTruthful
<1>1. ASSUME AnswerInv PROVE AnswersTruthful
    <2> SUFFICES ASSUME result = "ok" PROVE AnswersTruthful
        BY DEF AnswersTruthful
    <2>1. ops # << >>
        BY <1>1 DEF AnswerInv, TypeInv
    <2>2. Last = "SyncInventory" => Complete
        BY <1>1, <2>1 DEF AnswerInv, SyncInv
    <2>3. Last \in VMAnswers => \E p \in held[seen.vm] : seen.status = StatusOf[p]
        BY <1>1, <2>1 DEF AnswerInv, LookedInv, SeenOK
    <2> QED BY <2>2, <2>3 DEF AnswersTruthful, Complete, VMAnswers, StatusOf
<1> QED BY <1>1, AnswerInvariant, PTL



----------------------------------------------------------------------------
(* A clone on ESXi and its disks *)

\* Where the program of the clone waits for the registration, and where it ends.
RegisterAt == 4 * Disks + 9
CloneEnd   == 7 * Disks + 14

\* Nothing but one failure has happened to the only call, a clone on ESXi.
OneFailure == prov = "esxi" /\ ops = <<"CloneVM">> /\ faults <= 1 /\ ~ctxDone /\ gaveUp = {}

\* No task is running; the clone is not registered.
Idle         == \A i \in 1..Len(tasks) : tasks[i].st # "running"
Unregistered == \A i \in 1..Len(tasks) : ~(tasks[i].req = "register" /\ tasks[i].st = "done")

\* The task of a request is waited for; no other task is running or has registered the clone.
Awaiting(req) == /\ task \in 1..Len(tasks) /\ tasks[task].req = req
                 /\ tasks[task].st = "running" => tasks[task].vm = 0
                 /\ tasks[task].st \notin {"running", "done"} => faults = 1
                 /\ \A i \in 1..Len(tasks) \ {task} :
                        tasks[i].st # "running" /\ ~(tasks[i].req = "register" /\ tasks[i].st = "done")

\* The source is read.
Before == pc \in 1..4 /\ Idle /\ Unregistered /\ disks = {} /\ copied = {}

\* Disk d is copied.
Copying(d) ==
    /\ copied = 1..d - 1
    /\ \/ pc = 4 * d + 1 /\ Idle /\ Unregistered /\ disks = 1..d - 1
       \/ pc = 4 * d + 2 /\ Idle /\ Unregistered /\ disks = 1..d - 1 /\ disk = d
       \/ /\ pc = 4 * d + 3 /\ Awaiting("copyDisk") /\ tasks[task].disk = d
          /\ disks = IF tasks[task].st = "done" THEN 1..d ELSE 1..d - 1
       \/ pc = 4 * d + 4 /\ Idle /\ Unregistered /\ disks = 1..d

\* All disks are copied and the VM is registered on them.
Registering ==
    /\ copied = 1..Disks /\ disks = 1..Disks
    /\ \/ pc \in RegisterAt - 4..RegisterAt - 1 /\ Idle /\ Unregistered
       \/ pc = RegisterAt /\ Awaiting("register")

\* The VM is registered and read, or the program has come to its end.
Registered == /\ pc \in RegisterAt + 1..RegisterAt + 4 \/ pc > CloneEnd
              /\ Idle /\ ~Unregistered /\ disks = 1..Disks

\* Disk d is deleted again; the failure has happened.
Cleaning(d) ==
    /\ faults = 1 /\ copied \subseteq 1..Disks
    /\ \/ pc = RegisterAt + 3 * d + 2 /\ Idle /\ Unregistered /\ disks = copied \ (1..d - 1)
       \/ pc = RegisterAt + 3 * d + 3 /\ Idle /\ Unregistered /\ disks = copied \ (1..d - 1) /\ disk = d
       \/ /\ pc = RegisterAt + 3 * d + 4 /\ Awaiting("deleteDisk") /\ tasks[task].disk = d
          /\ tasks[task].st \in {"running", "done"}
          /\ disks = copied \ (IF tasks[task].st = "done" THEN 1..d ELSE 1..d - 1)

\* The first error is about to be returned.
Cleaned == pc = CloneEnd /\ Idle /\ Unregistered /\ disks = {}

\* The stages of a running clone, and what they leave behind.
Stages == Before \/ (\E d \in 1..Disks : Copying(d) \/ Cleaning(d)) \/ Registering \/ Registered \/ Cleaned
Over   == Idle /\ disks = IF Unregistered THEN {} ELSE 1..Disks

\* While no more than one failure happens, the clone is in one of its stages.
CloneInv == /\ faults \in Nat /\ (Len(ops) = 0 => disks = {})
            /\ OneFailure => IF result = "running" THEN Stages ELSE Over

\* What the steps of the clone do.
LEMMA CloneDoes ==
    LET P == EX!CloneVM
    IN  /\ Disks \in Nat /\ Len(P) = CloneEnd
        /\ \A i \in 1..4 : P[i].ok = 1 /\ i + P[i].err <= 5
        /\ \A i \in 5..RegisterAt : P[i].ok = 1 /\ i + P[i].err = RegisterAt + 5
        /\ \A i \in RegisterAt + 1..RegisterAt + 4 : P[i].err = 0 /\ P[i].ok = (IF i = RegisterAt + 4 THEN 3 * Disks + 2 ELSE 1)
        /\ P[CloneEnd].ok = 1 /\ P[CloneEnd].err = 0
        /\ \A i \in 1..4 : P[i].do \in {"ensure", "lookup", "read"}
        /\ \A i \in RegisterAt - 4..RegisterAt - 2 : P[i].do = "read"
        /\ P[RegisterAt - 1].do = "send" /\ P[RegisterAt - 1].arg = "register" /\ P[RegisterAt].do = "wait"
        /\ \A i \in RegisterAt + 1..RegisterAt + 4 : P[i].do \in {"adopt", "ensure", "lookup"}
        /\ P[CloneEnd].do = "fail"
<1>1. Disks \in Nat /\ RegisterAt \in Nat /\ Len(EX!CloneVM) = CloneEnd
    BY CloneSteps DEF RegisterAt, CloneEnd
<1>2. RegisterAt = 4 * Disks + 9 /\ CloneEnd = 7 * Disks + 14
    BY DEF RegisterAt, CloneEnd
<1> DEFINE P == EX!CloneVM
<1> HIDE DEF P
<1>3. /\ \A i \in 1..4 : P[i].ok = 1 /\ i + P[i].err <= 5 /\ P[i].do \in {"ensure", "lookup", "read"}
      /\ P[CloneEnd].do = "fail" /\ P[CloneEnd].ok = 1 /\ P[CloneEnd].err = 0
    BY <1>2, CloneSteps DEF P
<1>4. \A i \in 5..RegisterAt : P[i].ok = 1 /\ i + P[i].err = RegisterAt + 5
    BY <1>2, CloneSteps DEF P
<1>5. P[RegisterAt - 1].do = "send" /\ P[RegisterAt - 1].arg = "register" /\ P[RegisterAt].do = "wait"
    BY <1>2, CloneSteps DEF P
<1>6. \A i \in RegisterAt + 1..RegisterAt + 4 : /\ P[i].err = 0 /\ P[i].do \in {"adopt", "ensure", "lookup"}
                                                /\ P[i].ok = (IF i = RegisterAt + 4 THEN 3 * Disks + 2 ELSE 1)
    BY <1>2, CloneSteps DEF P
<1>7. \A i \in RegisterAt - 4..RegisterAt - 2 : P[i].do = "read"
    BY <1>2, CloneSteps DEF P
<1> QED BY <1>1, <1>3, <1>4, <1>5, <1>6, <1>7 DEF P

\* The steps that copy disk d.
LEMMA CopyAt ==
    ASSUME NEW d \in 1..Disks
    PROVE  LET P == EX!CloneVM
           IN  /\ P[4 * d + 1].do = "disk" /\ P[4 * d + 1].arg = d
               /\ P[4 * d + 2].do = "send" /\ P[4 * d + 2].arg = "copyDisk"
               /\ P[4 * d + 3].do = "wait"
               /\ P[4 * d + 4].do = "copied" /\ P[4 * d + 4].arg = d
<1> DEFINE P == EX!CloneVM  C == EX!copyDisks  n == 4 * (d - 1)
<1>1. Disks \in Nat
    BY CloneSteps
<1>2. /\ n + 1 \in 1..4 * Disks /\ n + 2 \in 1..4 * Disks /\ n + 3 \in 1..4 * Disks /\ n + 4 \in 1..4 * Disks
      /\ 4 + (n + 1) = 4 * d + 1 /\ 4 + (n + 2) = 4 * d + 2 /\ 4 + (n + 3) = 4 * d + 3 /\ 4 + (n + 4) = 4 * d + 4
    BY <1>1
<1>3. \A i \in 1..4 * Disks : P[4 + i].do = C[i].do /\ P[4 + i].arg = C[i].arg
    BY CloneSteps
<1>4. /\ C[n + 1].do = "disk" /\ C[n + 1].arg = d /\ C[n + 2].do = "send" /\ C[n + 3].do = "wait"
      /\ C[n + 4].do = "copied" /\ C[n + 4].arg = d
    BY CopySteps
<1>5. C[n + 2].do = "send" => C[n + 2].arg = "copyDisk"
    BY <1>2, CopySteps
<1> HIDE DEF P, C, n
<1> QED BY <1>2, <1>3, <1>4, <1>5 DEF P

\* The steps that delete disk d.
LEMMA CleanAt ==
    ASSUME NEW d \in 1..Disks
    PROVE  LET P == EX!CloneVM  n == RegisterAt + 3 * d
           IN  /\ P[n + 2].do = "isCopied" /\ P[n + 2].arg = d /\ P[n + 2].ok = 1 /\ P[n + 2].err = 3
               /\ P[n + 3].do = "send" /\ P[n + 3].arg = "deleteDisk" /\ P[n + 3].ok = 1 /\ P[n + 3].err = 2
               /\ P[n + 4].do = "wait" /\ P[n + 4].ok = 1 /\ P[n + 4].err = 1
<1> DEFINE P == EX!CloneVM  C == EX!cleanupDisks  n == 3 * (d - 1)  w == RegisterAt
<1>1. Disks \in Nat /\ w \in Nat
    BY CloneSteps DEF RegisterAt
<1>2. /\ n + 1 \in 1..3 * Disks /\ n + 2 \in 1..3 * Disks /\ n + 3 \in 1..3 * Disks
      /\ w + 4 + (n + 1) = w + 3 * d + 2 /\ w + 4 + (n + 2) = w + 3 * d + 3 /\ w + 4 + (n + 3) = w + 3 * d + 4
    BY <1>1
<1>3. \A i \in 1..3 * Disks : P[w + 4 + i] = C[i]
    BY CloneSteps DEF RegisterAt
<1>4. \A j \in 1..3 : /\ C[n + j].do = << "isCopied", "send", "wait" >>[j] /\ C[n + j].err = 4 - j
                      /\ j = 1 => C[n + j].arg = d
    BY CleanupSteps
<1>5. \A i \in 1..3 * Disks : C[i].ok = 1 /\ (C[i].do = "send" => C[i].arg = "deleteDisk")
    BY CleanupSteps
<1> HIDE DEF P, C, n, w
<1>6. /\ C[n + 1].do = "isCopied" /\ C[n + 1].err = 3 /\ C[n + 1].arg = d
      /\ C[n + 2].do = "send" /\ C[n + 2].err = 2 /\ C[n + 3].do = "wait" /\ C[n + 3].err = 1
    <2>1. 1 \in 1..3 /\ 2 \in 1..3 /\ 3 \in 1..3
        OBVIOUS
    <2>2. 4 - 1 = 3 /\ 4 - 2 = 2 /\ 4 - 3 = 1
        OBVIOUS
    <2> QED BY <1>4, <2>1, <2>2
<1> QED BY <1>2, <1>3, <1>5, <1>6 DEF P, w



\* The clone takes the error exit of its step: no task has come of it, and the step says why.
Misses == /\ Fails /\ UNCHANGED <<tasks, task, copied, disks>>
          /\ disk' = disk \/ Cur.do = "isCopied"
          /\ faults' \in {faults, faults + 1}
          /\ Cur.do \notin {"disk", "copied", "adopt"}
          /\ Cur.do \in {"read", "send"} => faults' = faults + 1
          /\ Cur.do = "wait" => tasks[task].st \notin {"running", "done"}
          /\ Cur.do = "isCopied" => Cur.arg \notin copied

\* The clone goes on after its step.
Passes == /\ Goes(Cur.ok) /\ UNCHANGED <<faults, disks>>
          /\ \/ Cur.do \in {"ensure", "lookup", "read", "adopt"} /\ UNCHANGED <<tasks, task, disk, copied>>
             \/ Cur.do = "disk" /\ disk' = Cur.arg /\ UNCHANGED <<tasks, task, copied>>
             \/ Cur.do = "copied" /\ copied' = copied \cup {Cur.arg} /\ UNCHANGED <<tasks, task, disk>>
             \/ Cur.do = "isCopied" /\ disk' = Cur.arg /\ UNCHANGED <<tasks, task, copied>>
             \/ /\ Cur.do = "send" /\ tasks' = Append(tasks, NewTask(Cur.arg)) /\ task' = Len(tasks) + 1
                /\ UNCHANGED <<disk, copied>>
             \/ Cur.do = "wait" /\ tasks[task].st = "done" /\ UNCHANGED <<tasks, task, disk, copied>>

\* The clone returns without an error.
Returns == pc > Len(Program) /\ result' = "ok" /\ UNCHANGED <<tasks, task, disk, copied, disks, faults>>

\* Task i ends while the clone stands still.
TaskEnds(i) ==
    /\ Len(tasks') = Len(tasks) /\ \A j \in 1..Len(tasks) \ {i} : tasks'[j] = tasks[j]
    /\ tasks'[i].req = tasks[i].req /\ tasks'[i].disk = tasks[i].disk
    /\ \/ /\ tasks'[i].st = "done" /\ faults' = faults
          /\ disks' = CASE tasks[i].req = "copyDisk"   -> disks \cup {tasks[i].disk}
                        [] tasks[i].req = "deleteDisk" -> disks \ {tasks[i].disk}
                        [] OTHER                       -> disks
       \/ tasks'[i].st = "failed" /\ faults' = faults + 1 /\ disks' = disks
    /\ UNCHANGED <<pc, result, task, disk, copied>>

\* What is done to the only call cannot be undone.
LEMMA Worsens ==
    ASSUME CloneInv, TypeInv, [Next]_vars
    PROVE  \/ \E o \in DOMAIN Operations[prov] : Call(o)
           \/ /\ UNCHANGED <<prov, ops>> /\ faults' \in {faults, faults + 1} /\ gaveUp \subseteq gaveUp'
              /\ ctxDone => ctxDone'
<1> USE DEF session, control, local, remote, env
<1> DEFINE G == /\ UNCHANGED <<prov, ops>> /\ faults' \in {faults, faults + 1} /\ gaveUp \subseteq gaveUp'
                /\ ctxDone => ctxDone'
<1>1. CASE UNCHANGED vars
    BY <1>1 DEF vars
<1>2. CASE Steps
    <2>1. UNCHANGED <<prov, ops>>
        BY <1>2, StepKinds DEF StepKind
    <2>2. ctxDone' = ctxDone
        BY <1>2 DEF Steps, Ensure, Parse, SetConnected, Fail, OnlyIf, Adopt, Disk, Copied, IsCopied, Find, ReadOK, Allocate,
                    LookupOK, AssertState, CurrentSnapshot, ReadFails, StateUnread, Gather, Fetch, Collect, SendOK,
                    SendRefused, SendFails, ReplyLost, AskGuest, GuestRefuses, WaitEnds, WaitGivesUp, Return
    <2>3. gaveUp \subseteq gaveUp'
        BY <1>2 DEF Steps, Ensure, Parse, SetConnected, Fail, OnlyIf, Adopt, Disk, Copied, IsCopied, Find, ReadOK, Allocate,
                    LookupOK, AssertState, CurrentSnapshot, ReadFails, StateUnread, Gather, Fetch, Collect, SendOK,
                    SendRefused, SendFails, ReplyLost, AskGuest, GuestRefuses, WaitEnds, WaitGivesUp, Return
    <2>4. faults' \in {faults, faults + 1}
        BY <1>2 DEF Steps, Ensure, Parse, SetConnected, Fail, OnlyIf, Adopt, Disk, Copied, IsCopied, Find, ReadOK, Allocate,
                    LookupOK, AssertState, CurrentSnapshot, ReadFails, StateUnread, Gather, Fetch, Collect, SendOK,
                    SendRefused, SendFails, ReplyLost, AskGuest, GuestRefuses, WaitEnds, WaitGivesUp, Return, Faulty
    <2> QED BY <2>1, <2>2, <2>3, <2>4
<1>3. CASE Expire
    BY <1>3 DEF Expire
<1>4. ASSUME NEW i \in DOMAIN tasks, Succeed(i) PROVE G
    BY <1>4 DEF Succeed
<1>5. ASSUME NEW i \in DOMAIN tasks, TaskFails(i) PROVE G
    BY <1>5 DEF TaskFails
<1>6. ASSUME NEW v \in VM, NEW p \in PowerState, Admin(v, p) PROVE G
    BY <1>6 DEF Admin
<1>7. CASE Done
    BY <1>7 DEF Done, vars
<1> QED BY <1>1, <1>2, <1>3, <1>4, <1>5, <1>6, <1>7 DEF Next, PowerState

\* The program of the only call.
LEMMA CloneRuns == ASSUME OneFailure PROVE Program = EX!CloneVM /\ Len(ops) = 1
<1>1. Len(ops) = 1 /\ ops[Len(ops)] = "CloneVM"
    BY DEF OneFailure
<1>2. ESXiOps["CloneVM"] = EX!CloneVM
    BY DEF ESXiOps, VMwareOps
<1>3. Operations["esxi"] = ESXiOps
    BY DEF Operations
<1> QED BY <1>1, <1>2, <1>3 DEF Program, OneFailure

\* The steps of the clone, and the requests it sends.
LEMMA CloneStepsAre ==
    ASSUME OneFailure, pc \in 1..Len(Program)
    PROVE  /\ Cur.do \in {"ensure", "lookup", "read", "disk", "send", "wait", "copied", "adopt", "isCopied", "fail"}
           /\ Cur.do = "send" => Cur.arg \in {"copyDisk", "deleteDisk", "register"}
<1> DEFINE P == EX!CloneVM  w == 4 * Disks + 9  z == 7 * Disks + 14
<1>1. Disks \in Nat /\ w \in Nat /\ z \in Nat /\ pc \in 1..z /\ Cur = P[pc]
    BY CloneRuns, CloneSteps DEF Cur
<1>2. \/ pc \in 1..4 \/ pc \in 5..w \/ pc \in w + 1..w + 4 \/ pc \in w + 5..z - 1 \/ pc = z
    BY <1>1
<1>3. /\ \A i \in 1..4 : P[i].do \in {"ensure", "lookup", "read"}
      /\ P[z].do = "fail" /\ P[w - 1].arg = "register"
    BY CloneSteps
<1>4. \A i \in 5..w : /\ P[i].do \in {"disk", "send", "wait", "copied", "read"}
                      /\ P[i].do = "send" => i = w - 1 \/ P[i].arg = "copyDisk"
    BY CloneSteps
<1>5. \A i \in w + 1..w + 4 : P[i].do \in {"adopt", "ensure", "lookup"}
    BY CloneSteps
<1>6. \A i \in w + 5..z - 1 : /\ P[i].do \in {"isCopied", "send", "wait"}
                              /\ P[i].do = "send" => P[i].arg = "deleteDisk"
    BY CloneSteps
<1> HIDE DEF P, w, z
<1> QED BY <1>1, <1>2, <1>3, <1>4, <1>5, <1>6


\* Every step of the running clone misses, passes or returns.
LEMMA CloneMoves ==
    ASSUME TypeInv, CloneInv, Steps, OneFailure, OneFailure'
    PROVE  result = "running" /\ (Returns \/ (pc \in 1..Len(Program) /\ (Misses \/ Passes)))
<1> USE DEF session, local, remote, env
<1>1. faults \in Nat /\ prov = "esxi" /\ ~ctxDone' /\ gaveUp' = {} /\ faults' <= 1
    BY DEF CloneInv, OneFailure
<1>2. ASSUME NEW d, At(d) PROVE result = "running" /\ pc \in 1..Len(Program) /\ Cur.do = d
    BY <1>2, ProgramSound DEF At, Cur, TypeInv
<1>3. ASSUME NEW d, At(d)
      PROVE  /\ d \in {"ensure", "lookup", "read", "disk", "send", "wait", "copied", "adopt", "isCopied", "fail"}
             /\ d = "send" => Cur.arg \in {"copyDisk", "deleteDisk", "register"}
    BY <1>2, <1>3, CloneStepsAre
<1>4. ASSUME NEW d, At(d), NEW class, FailWith(class) PROVE Fails
    BY <1>2, <1>4, FailMoves
<1>5. ASSUME Advance PROVE Goes(Cur.ok)
    BY <1>5 DEF Advance, Goes
<1>6. ASSUME NEW d, At(d), NEW class, FailWith(class), UNCHANGED <<tasks, task, copied, disks>>, faults' \in {faults, faults + 1},
             d \notin {"disk", "copied", "adopt"}, disk' = disk \/ d = "isCopied",
             d \in {"read", "send"} => faults' = faults + 1,
             d = "wait" => tasks[task].st \notin {"running", "done"}, d = "isCopied" => Cur.arg \notin copied
      PROVE  Misses /\ result = "running" /\ pc \in 1..Len(Program)
    BY <1>2, <1>4, <1>6 DEF Misses
<1>7. CASE Ensure
    <2>1. CASE connected
        <3>1. Goes(Cur.ok) /\ At("ensure")
            BY <1>5, <1>7, <2>1 DEF Ensure
        <3>2. UNCHANGED <<tasks, task, disk, copied, disks, faults>>
            BY <1>7 DEF Ensure
        <3> QED BY <1>2, <3>1, <3>2 DEF Passes
    <2>2. CASE ~connected
        <3>1. FailWith("other") /\ At("ensure") /\ UNCHANGED <<tasks, task, disk, copied, disks, faults>>
            BY <1>7, <2>2 DEF Ensure
        <3> QED BY <1>6, <3>1
    <2> QED BY <2>1, <2>2
<1>8. CASE Fail
    <2>1. FailWith("other") /\ At("fail") /\ UNCHANGED <<tasks, task, disk, copied, disks, faults>>
        BY <1>8 DEF Fail
    <2> QED BY <1>6, <2>1
<1>9. CASE Adopt
    <2>1. Goes(Cur.ok) /\ At("adopt")
        BY <1>5, <1>9 DEF Adopt
    <2>2. UNCHANGED <<tasks, task, disk, copied, disks, faults>>
        BY <1>9 DEF Adopt
    <2> QED BY <1>2, <2>1, <2>2 DEF Passes
<1>10. CASE Disk
    <2>1. Goes(Cur.ok) /\ At("disk")
        BY <1>5, <1>10 DEF Disk
    <2>2. UNCHANGED <<tasks, task, copied, disks, faults>> /\ disk' = Cur.arg
        BY <1>10 DEF Disk
    <2> QED BY <1>2, <2>1, <2>2 DEF Passes
<1>11. CASE Copied
    <2>1. Goes(Cur.ok) /\ At("copied")
        BY <1>5, <1>11 DEF Copied
    <2>2. UNCHANGED <<tasks, task, disk, disks, faults>> /\ copied' = copied \cup {Cur.arg}
        BY <1>11 DEF Copied
    <2> QED BY <1>2, <2>1, <2>2 DEF Passes
<1>12. CASE IsCopied
    <2>1. At("isCopied") /\ UNCHANGED <<tasks, task, copied, disks, faults>> /\ disk' = Cur.arg
        BY <1>12 DEF IsCopied
    <2>2. CASE Cur.arg \in copied
        <3>1. Goes(Cur.ok)
            BY <1>5, <1>12, <2>2 DEF IsCopied
        <3> QED BY <1>2, <2>1, <3>1 DEF Passes
    <2>3. CASE Cur.arg \notin copied
        <3>1. FailWith("other")
            BY <1>12, <2>3 DEF IsCopied
        <3> QED BY <1>6, <2>1, <2>3, <3>1
    <2> QED BY <2>2, <2>3
<1>13. CASE ReadOK
    <2>1. Goes(Cur.ok) /\ At("read")
        BY <1>5, <1>13 DEF ReadOK
    <2>2. UNCHANGED <<tasks, task, disk, copied, disks, faults>>
        BY <1>13 DEF ReadOK
    <2> QED BY <1>2, <2>1, <2>2 DEF Passes
<1>14. CASE LookupOK
    <2>1. Goes(Cur.ok) /\ At("lookup")
        BY <1>5, <1>14 DEF LookupOK
    <2>2. UNCHANGED <<tasks, task, disk, copied, disks, faults>>
        BY <1>14 DEF LookupOK
    <2> QED BY <1>2, <2>1, <2>2 DEF Passes
<1>15. CASE ReadFails
    <2>1. UNCHANGED <<tasks, task, disk, copied, disks, ctxDone>>
        BY <1>15 DEF ReadFails
    <2>2. CASE \E c \in ErrorClass : Faulty(c) /\ FailWith(c)
        <3>1. PICK c \in ErrorClass : Faulty(c) /\ FailWith(c)
            BY <2>2
        <3>2. faults' = faults + 1
            BY <1>1, <2>1, <3>1 DEF Faulty
        <3>3. At("read") \/ At("lookup")
            BY <1>3, <1>15 DEF ReadFails
        <3> QED BY <1>6, <2>1, <3>1, <3>2, <3>3
    <2>3. CASE At("lookup") /\ FailWith("notFound") /\ UNCHANGED faults
        BY <1>6, <2>1, <2>3
    <2> QED BY <1>15, <2>2, <2>3 DEF ReadFails
<1>16. CASE SendOK
    <2>1. Goes(Cur.ok) /\ At("send")
        BY <1>5, <1>16 DEF SendOK
    <2>2. UNCHANGED <<disk, copied, disks, faults>> /\ tasks' = Append(tasks, NewTask(Cur.arg)) /\ task' = Len(tasks) + 1
        BY <1>16 DEF SendOK
    <2> QED BY <1>2, <2>1, <2>2 DEF Passes
<1>17. CASE SendRefused
    <2>1. At("send") /\ Refusals(Cur.arg) # {}
        BY <1>17 DEF SendRefused
    <2>2. Cur.arg \in {"copyDisk", "deleteDisk", "register"}
        BY <1>3, <2>1
    <2>3. Refusals(Cur.arg) = {}
        BY <1>1, <2>2 DEF Refusals, Untouching
    <2> QED BY <2>1, <2>3
<1>18. CASE SendFails
    <2>1. UNCHANGED <<tasks, task, disk, copied, disks, ctxDone>> /\ At("send")
        BY <1>18 DEF SendFails
    <2>2. PICK c \in ErrorClass : Faulty(c) /\ FailWith(c)
        BY <1>18 DEF SendFails
    <2>3. faults' = faults + 1
        BY <1>1, <2>1, <2>2 DEF Faulty
    <2> QED BY <1>6, <2>1, <2>2, <2>3
<1>19. CASE ReplyLost \/ WaitGivesUp
    BY <1>1, <1>19 DEF ReplyLost, WaitGivesUp
<1>20. CASE WaitEnds
    <2>1. At("wait") /\ tasks[task].st # "running" /\ UNCHANGED <<tasks, task, disk, copied, disks, faults>>
        BY <1>20 DEF WaitEnds
    <2>2. CASE tasks[task].st = "done"
        <3>1. Goes(Cur.ok)
            BY <1>5, <1>20, <2>2 DEF WaitEnds
        <3> QED BY <1>2, <2>1, <2>2, <3>1 DEF Passes
    <2>3. CASE tasks[task].st # "done"
        <3>1. FailWith("other")
            BY <1>20, <2>3 DEF WaitEnds
        <3> QED BY <1>6, <2>1, <2>3, <3>1
    <2> QED BY <2>2, <2>3
<1>21. CASE Return
    BY <1>21 DEF Return, Returns
<1>22. CASE Parse \/ SetConnected \/ OnlyIf \/ Find \/ Allocate \/ AssertState \/ CurrentSnapshot \/ StateUnread
    BY <1>3, <1>22 DEF Parse, SetConnected, OnlyIf, Find, Allocate, AssertState, CurrentSnapshot, StateUnread
<1>23. CASE Gather \/ (\E l \in pending : Fetch(l)) \/ Collect \/ AskGuest \/ GuestRefuses
    BY <1>3, <1>23 DEF Gather, Fetch, Collect, AskGuest, GuestRefuses
<1> QED BY <1>7, <1>8, <1>9, <1>10, <1>11, <1>12, <1>13, <1>14, <1>15, <1>16, <1>17, <1>18, <1>19, <1>20, <1>21, <1>22, <1>23
        DEF Steps

\* A task of the clone ends well or by a fault.
LEMMA CloneTaskEnds ==
    ASSUME TypeInv, CloneInv, NEW i \in 1..Len(tasks), Succeed(i) \/ TaskFails(i), tasks[i].vm = 0,
           tasks[i].req \in {"copyDisk", "deleteDisk", "register"}
    PROVE  TaskEnds(i)
<1> DEFINE t == tasks[i]
<1>1. /\ tasks = [j \in 1..Len(tasks) |-> tasks[j]] /\ Len(tasks) \in Nat
      /\ t = [call |-> t.call, req |-> t.req, disk |-> t.disk, st |-> t.st, vm |-> t.vm]
    BY DEF TypeInv, IsTask
<1>2. UNCHANGED <<pc, result, task, disk, copied>>
    BY DEF Succeed, TaskFails, control, local
<1>3. ASSUME NEW u, tasks' = [tasks EXCEPT ![i] = u]
      PROVE  Len(tasks') = Len(tasks) /\ (\A j \in 1..Len(tasks) \ {i} : tasks'[j] = tasks[j]) /\ tasks'[i] = u
    <2>1. tasks' = [j \in 1..Len(tasks) |-> IF j = i THEN u ELSE tasks[j]]
        BY <1>1, <1>3
    <2> QED BY <1>1, <2>1
<1>4. MakesVM(t.req) <=> t.req = "register"
    BY DEF MakesVM, EffectOf, PowerEffect
<1>5. t.req \notin DOMAIN PowerEffect /\ (Untouching(t.req) <=> t.req # "register")
    BY DEF PowerEffect, Untouching
<1>6. CASE Succeed(i)
    <2>1. faults' = faults
        BY <1>6 DEF Succeed, env
    <2>2. \E vm : tasks' = [tasks EXCEPT ![i] = [call |-> t.call, req |-> t.req, disk |-> t.disk, st |-> "done", vm |-> vm]]
        <3>1. CASE t.req = "register"
            <4>0. MakesVM(t.req) /\ t.req \notin DOMAIN PowerEffect /\ ~Untouching(t.req)
                BY <1>4, <1>5, <3>1
            <4>1. PICK v \in VM : tasks' = [tasks EXCEPT ![i].st = "done", ![i].vm = v]
                BY <1>6, <4>0 DEF Succeed
            <4> DEFINE u == [t EXCEPT !.st = "done"]
            <4>2. u = [call |-> t.call, req |-> t.req, disk |-> t.disk, st |-> "done", vm |-> t.vm]
                BY <1>1
            <4>3. tasks' = [tasks EXCEPT ![i] = [u EXCEPT !.vm = v]]
                BY <4>1
            <4> HIDE DEF u
            <4>4. [u EXCEPT !.vm = v] = [call |-> t.call, req |-> t.req, disk |-> t.disk, st |-> "done", vm |-> v]
                BY <4>2
            <4> QED BY <4>3, <4>4
        <3>2. CASE t.req # "register"
            <4>1. tasks' = [tasks EXCEPT ![i].st = "done"]
                BY <1>4, <1>5, <1>6, <3>2 DEF Succeed
            <4> DEFINE u == [t EXCEPT !.st = "done"]
            <4>2. u = [call |-> t.call, req |-> t.req, disk |-> t.disk, st |-> "done", vm |-> t.vm]
                BY <1>1
            <4>3. tasks' = [tasks EXCEPT ![i] = u]
                BY <4>1
            <4> QED BY <4>2, <4>3
        <3> QED BY <3>1, <3>2
    <2>3. PICK vm : tasks' = [tasks EXCEPT ![i] = [call |-> t.call, req |-> t.req, disk |-> t.disk, st |-> "done", vm |-> vm]]
        BY <2>2
    <2>4. disks' = CASE t.req = "copyDisk"   -> disks \cup {t.disk}
                     [] t.req = "deleteDisk" -> disks \ {t.disk}
                     [] OTHER                -> disks
        BY <1>4, <1>5, <1>6 DEF Succeed
    <2> DEFINE u == [call |-> t.call, req |-> t.req, disk |-> t.disk, st |-> "done", vm |-> vm]
    <2>5. u.req = t.req /\ u.disk = t.disk /\ u.st = "done"
        OBVIOUS
    <2>6. Len(tasks') = Len(tasks) /\ (\A j \in 1..Len(tasks) \ {i} : tasks'[j] = tasks[j]) /\ tasks'[i] = u
        BY <1>3, <2>3
    <2> HIDE DEF u
    <2> QED BY <1>2, <2>1, <2>4, <2>5, <2>6 DEF TaskEnds
<1>7. CASE TaskFails(i)
    <2>1. tasks' = [tasks EXCEPT ![i].st = "failed"] /\ disks' = disks
        BY <1>7 DEF TaskFails
    <2>2. faults' = faults + 1
        BY <1>4, <1>5, <1>7 DEF TaskFails
    <2> DEFINE u == [t EXCEPT !.st = "failed"]
    <2>3. u.req = t.req /\ u.disk = t.disk /\ u.st = "failed"
        BY <1>1
    <2>4. tasks' = [tasks EXCEPT ![i] = u]
        BY <2>1
    <2> HIDE DEF u
    <2>5. Len(tasks') = Len(tasks) /\ (\A j \in 1..Len(tasks) \ {i} : tasks'[j] = tasks[j]) /\ tasks'[i] = u
        BY <1>3, <2>4
    <2> QED BY <1>2, <2>1, <2>2, <2>3, <2>5 DEF TaskEnds
<1> QED BY <1>6, <1>7



\* What is said of the tasks after a step that has left them alone.
LEMMA SameTasks ==
    ASSUME tasks' = tasks
    PROVE  /\ Idle' <=> Idle
           /\ Unregistered' <=> Unregistered
           /\ \A req : Awaiting(req) /\ task' = task /\ (faults = 1 => faults' = 1) => Awaiting(req)'
BY DEF Idle, Unregistered, Awaiting

\* A request sent is waited for.
LEMMA SentWaits ==
    ASSUME TypeInv, OneFailure, Idle, Unregistered, NEW req \in {"copyDisk", "deleteDisk", "register"},
           tasks' = Append(tasks, NewTask(req)), task' = Len(tasks) + 1
    PROVE  Awaiting(req)' /\ tasks'[task'].disk = disk /\ tasks'[task'].st = "running"
<1> DEFINE t == NewTask(req)
<1>1. t.req = req /\ t.disk = disk /\ t.st = "running" /\ t.vm = 0
    BY DEF NewTask, OneFailure, Untouching, MakesVM, EffectOf, PowerEffect
<1>2. Len(tasks) \in Nat /\ tasks = [i \in 1..Len(tasks) |-> tasks[i]]
    BY DEF TypeInv
<1> HIDE DEF t
<1>3. /\ Len(tasks') = Len(tasks) + 1 /\ \A i \in 1..Len(tasks) : tasks'[i] = tasks[i]
      /\ tasks'[Len(tasks) + 1] = t
    BY <1>2, Appended DEF t
<1>4. \A i \in 1..Len(tasks') \ {task'} : i \in 1..Len(tasks)
    BY <1>2, <1>3
<1>5. task' \in 1..Len(tasks')
    BY <1>2, <1>3
<1>6. \A i \in 1..Len(tasks') \ {task'} :
          tasks'[i].st # "running" /\ ~(tasks'[i].req = "register" /\ tasks'[i].st = "done")
    BY <1>3, <1>4 DEF Idle, Unregistered
<1> QED BY <1>1, <1>3, <1>5, <1>6 DEF Awaiting

\* The wait is over.
LEMMA Awaited ==
    ASSUME NEW req, Awaiting(req), tasks[task].st # "running"
    PROVE  Idle /\ (Unregistered <=> ~(req = "register" /\ tasks[task].st = "done"))
BY DEF Awaiting, Idle, Unregistered

\* The task waited for ends.
LEMMA AwaitedEnds ==
    ASSUME NEW req, Awaiting(req), TaskEnds(task), faults \in Nat, faults' <= 1
    PROVE  /\ Awaiting(req)' /\ tasks'[task'].disk = tasks[task].disk
           /\ \/ tasks'[task'].st = "done" /\ faults' = faults
              \/ tasks'[task'].st = "failed" /\ faults = 0 /\ faults' = 1 /\ disks' = disks
<1>1. /\ Len(tasks') = Len(tasks) /\ task' = task /\ tasks'[task].req = tasks[task].req
      /\ tasks'[task].disk = tasks[task].disk /\ \A j \in 1..Len(tasks) \ {task} : tasks'[j] = tasks[j]
    BY DEF TaskEnds
<1>2. \/ tasks'[task'].st = "done" /\ faults' = faults
      \/ tasks'[task'].st = "failed" /\ faults = 0 /\ faults' = 1 /\ disks' = disks
    BY <1>1 DEF TaskEnds
<1>3. Awaiting(req)'
    BY <1>1, <1>2 DEF Awaiting
<1> QED BY <1>1, <1>2, <1>3

\* Where control goes after the copy of a disk: to the next one or to the registration.
LEMMA CopyNext ==
    ASSUME NEW d \in Nat \ {0}, d <= Disks + 1, pc' = 4 * d + 1, Idle', Unregistered', copied' = 1..d - 1, disks' = 1..d - 1
    PROVE  Stages'
<1>1. Disks \in Nat
    BY CloneDoes
<1>2. CASE d <= Disks
    <2>1. d \in 1..Disks
        BY <1>1, <1>2
    <2>2. Copying(d)'
        BY DEF Copying
    <2> QED BY <2>1, <2>2 DEF Stages
<1>3. CASE d = Disks + 1
    <2>1. pc' = RegisterAt - 4 /\ RegisterAt \in Nat /\ RegisterAt >= 9 /\ d - 1 = Disks
        BY <1>1, <1>3 DEF RegisterAt
    <2>2. pc' \in RegisterAt - 4..RegisterAt - 1
        BY <2>1
    <2>3. Registering'
        BY <2>1, <2>2 DEF Registering, RegisterAt
    <2> QED BY <2>3 DEF Stages
<1> QED BY <1>1, <1>2, <1>3

\* Where control goes after a disk has been deleted: to the next one or to the end.
LEMMA CleanNext ==
    ASSUME NEW d \in Nat \ {0}, d <= Disks + 1, pc' = RegisterAt + 3 * d + 2, faults' = 1, Idle', Unregistered',
           copied' \subseteq 1..Disks, disks' = copied' \ (1..d - 1)
    PROVE  Stages'
<1>1. Disks \in Nat
    BY CloneDoes
<1>2. CASE d <= Disks
    <2>1. d \in 1..Disks
        BY <1>1, <1>2
    <2>2. Cleaning(d)'
        BY DEF Cleaning, RegisterAt
    <2> QED BY <2>1, <2>2 DEF Stages
<1>3. CASE d = Disks + 1
    <2>1. pc' = CloneEnd /\ d - 1 = Disks
        BY <1>1, <1>3 DEF RegisterAt, CloneEnd
    <2>2. disks' = {}
        BY <2>1
    <2>3. Cleaned'
        BY <2>1, <2>2 DEF Cleaned, CloneEnd
    <2> QED BY <2>3 DEF Stages
<1> QED BY <1>1, <1>2, <1>3


\* A step of the running clone within the limits of one failure.
CloneStep == /\ TypeInv /\ faults \in Nat /\ OneFailure /\ faults' <= 1 /\ result = "running"
             /\ pc \in 1..Len(Program) /\ (Misses \/ Passes)

\* What the clone has come to.
Settled == IF result = "running" THEN Stages ELSE Over

\* Where the clone goes: the step is repeated, goes on, or ends the operation.
LEMMA CloneGoes ==
    ASSUME CloneStep
    PROVE  /\ Disks \in Nat /\ pc \in 1..CloneEnd /\ Cur = EX!CloneVM[pc] /\ faults \in {0, 1} /\ faults' \in {faults, faults + 1}
           /\ Misses \/ Passes
           /\ Misses => \/ pc' = pc /\ result' = "running"
                        \/ Cur.err > 0 /\ pc' = pc + Cur.err /\ result' = "running"
                        \/ Cur.err = 0 /\ result' # "running"
           /\ Passes => pc' = pc + Cur.ok /\ result' = "running"
<1>1. Program = EX!CloneVM /\ Len(EX!CloneVM) = CloneEnd /\ Disks \in Nat
    BY CloneRuns, CloneDoes DEF CloneStep
<1>2. pc \in 1..CloneEnd /\ Cur = EX!CloneVM[pc]
    BY <1>1 DEF CloneStep, Cur
<1>3. faults \in {0, 1} /\ faults' \in {faults, faults + 1}
    BY DEF CloneStep, OneFailure, Misses, Passes
<1>4. ASSUME Misses
      PROVE  \/ pc' = pc /\ result' = "running"
             \/ Cur.err > 0 /\ pc' = pc + Cur.err /\ result' = "running"
             \/ Cur.err = 0 /\ result' # "running"
    BY <1>4 DEF CloneStep, Misses, Fails, Stays, Goes, Ends, ErrorCode
<1>5. ASSUME Passes PROVE pc' = pc + Cur.ok /\ result' = "running"
    BY <1>5 DEF CloneStep, Passes, Goes
<1> QED BY <1>1, <1>2, <1>3, <1>4, <1>5 DEF CloneStep

\* Reading the source.
LEMMA BeforeStep == ASSUME CloneStep, Before PROVE Settled'
<1>1. /\ Disks \in Nat /\ Cur = EX!CloneVM[pc] /\ pc \in 1..4
      /\ Misses \/ Passes
      /\ Misses => \/ pc' = pc /\ result' = "running"
                   \/ Cur.err > 0 /\ pc' = pc + Cur.err /\ result' = "running"
                   \/ Cur.err = 0 /\ result' # "running"
      /\ Passes => pc' = pc + Cur.ok /\ result' = "running"
    BY CloneGoes DEF Before
<1>2. Cur.ok = 1 /\ pc + Cur.err <= 5 /\ Cur.do \in {"ensure", "lookup", "read"}
    BY <1>1, CloneDoes
<1>3. UNCHANGED <<tasks, task, copied, disks>>
    BY <1>2 DEF CloneStep, Misses, Passes
<1>4. Idle' /\ Unregistered' /\ disks' = {} /\ copied' = {}
    BY <1>3, SameTasks DEF Before
<1>5. CASE result' # "running"
    BY <1>4, <1>5 DEF Settled, Over
<1>6. CASE result' = "running"
    <2>1. pc' \in 1..5
        <3>1. IsStep(Cur)
            BY ProgramSound DEF CloneStep, TypeInv, Cur
        <3>2. Cur.err \in Nat
            BY <3>1 DEF IsStep
        <3> QED BY <1>1, <1>2, <1>6, <3>2
    <2>2. CASE pc' \in 1..4
        BY <1>4, <1>6, <2>2 DEF Settled, Stages, Before
    <2>3. CASE pc' = 5
        <3>1. 5 = 4 * 1 + 1 /\ 1 \in Nat \ {0} /\ 1 <= Disks + 1 /\ 1..1 - 1 = {}
            BY <1>1
        <3>2. Stages'
            BY <1>4, <2>3, <3>1, CopyNext
        <3> QED BY <1>6, <3>2 DEF Settled
    <2> QED BY <2>1, <2>2, <2>3
<1> QED BY <1>5, <1>6

\* Copying a disk.
LEMMA CopyingStep == ASSUME CloneStep, NEW d \in 1..Disks, Copying(d) PROVE Settled'
<1>1. /\ Disks \in Nat /\ Cur = EX!CloneVM[pc] /\ faults \in {0, 1} /\ faults' \in {faults, faults + 1} /\ faults' <= 1
      /\ Misses \/ Passes
      /\ Misses => \/ pc' = pc /\ result' = "running"
                   \/ Cur.err > 0 /\ pc' = pc + Cur.err /\ result' = "running"
                   \/ Cur.err = 0 /\ result' # "running"
      /\ Passes => pc' = pc + Cur.ok /\ result' = "running"
    BY CloneGoes DEF CloneStep
<1>2. /\ copied = 1..d - 1 /\ d \in Nat \ {0} /\ d <= Disks + 1 /\ d + 1 <= Disks + 1 /\ d + 1 \in Nat \ {0}
      /\ 1..d - 1 \subseteq 1..Disks /\ (d + 1) - 1 = d
    BY <1>1 DEF Copying
<1>3. pc \in 5..RegisterAt /\ RegisterAt \in Nat
    BY <1>1 DEF Copying, RegisterAt
<1>4. Cur.ok = 1 /\ pc + Cur.err = RegisterAt + 5 /\ Cur.err # 0
    <2>1. Cur.ok = 1 /\ pc + Cur.err = RegisterAt + 5
        BY <1>1, <1>3, CloneDoes
    <2> QED BY <1>3, <2>1
<1>5. ASSUME Misses, pc' # pc, Idle, Unregistered, disks = 1..d - 1, faults' = 1 PROVE Settled'
    <2>1. pc' = RegisterAt + 5 /\ result' = "running"
        BY <1>1, <1>4, <1>5
    <2>2. RegisterAt + 5 = RegisterAt + 3 * 1 + 2 /\ 1 \in Nat \ {0} /\ 1 <= Disks + 1 /\ 1..1 - 1 = {}
        BY <1>1, <1>3
    <2>3. UNCHANGED <<tasks, copied, disks>>
        BY <1>5 DEF Misses
    <2>4. Idle' /\ Unregistered'
        BY <1>5, <2>3, SameTasks
    <2>5. copied' \subseteq 1..Disks /\ disks' = copied' \ (1..1 - 1)
        BY <1>2, <1>5, <2>2, <2>3
    <2>6. Stages'
        BY <1>5, <2>1, <2>2, <2>4, <2>5, CleanNext
    <2> QED BY <2>1, <2>6 DEF Settled
<1>6. ASSUME Copying(d)', result' = "running" PROVE Settled'
    BY <1>6 DEF Settled, Stages
<1>7. CASE pc = 4 * d + 1
    <2>1. Idle /\ Unregistered /\ disks = 1..d - 1
        BY <1>7 DEF Copying
    <2>2. Cur.do = "disk" /\ Cur.arg = d
        BY <1>1, <1>7, CopyAt
    <2>3. Passes /\ pc' = 4 * d + 2 /\ result' = "running" /\ UNCHANGED <<tasks, copied, disks>> /\ disk' = d
        BY <1>1, <1>2, <1>4, <1>7, <2>2 DEF Misses, Passes
    <2>4. Idle' /\ Unregistered'
        BY <2>1, <2>3, SameTasks
    <2>5. Copying(d)'
        BY <1>2, <2>1, <2>3, <2>4 DEF Copying
    <2> QED BY <1>6, <2>3, <2>5
<1>8. CASE pc = 4 * d + 2
    <2>1. Idle /\ Unregistered /\ disks = 1..d - 1 /\ disk = d
        BY <1>8 DEF Copying
    <2>2. Cur.do = "send" /\ Cur.arg = "copyDisk"
        BY <1>1, <1>8, CopyAt
    <2>3. CASE Passes
        <3>1. pc' = 4 * d + 3 /\ result' = "running"
            BY <1>1, <1>2, <1>4, <1>8, <2>2, <2>3 DEF Misses, Passes
        <3>2. tasks' = Append(tasks, NewTask("copyDisk")) /\ task' = Len(tasks) + 1 /\ UNCHANGED <<copied, disks>>
            BY <2>2, <2>3 DEF Passes
        <3>3. Awaiting("copyDisk")' /\ tasks'[task'].disk = d /\ tasks'[task'].st = "running"
            BY <2>1, <3>2, SentWaits DEF CloneStep
        <3>4. Copying(d)'
            BY <1>2, <2>1, <3>1, <3>2, <3>3 DEF Copying
        <3> QED BY <1>6, <3>1, <3>4
    <2>4. CASE Misses
        <3>1. faults' = 1
            BY <1>1, <2>2, <2>4 DEF Misses
        <3>2. CASE pc' = pc
            <4>1. UNCHANGED <<tasks, copied, disks, disk>>
                BY <2>2, <2>4 DEF Misses
            <4>2. Idle' /\ Unregistered'
                BY <2>1, <4>1, SameTasks
            <4>3. Copying(d)'
                BY <1>2, <1>8, <2>1, <3>2, <4>1, <4>2 DEF Copying
            <4>4. result' = "running"
                BY <1>1, <1>4, <2>4
            <4> QED BY <1>6, <4>3, <4>4
        <3> QED BY <1>5, <2>1, <2>4, <3>1, <3>2
    <2> QED BY <1>1, <2>3, <2>4
<1>9. CASE pc = 4 * d + 3
    <2>1. /\ Awaiting("copyDisk") /\ tasks[task].disk = d
          /\ disks = IF tasks[task].st = "done" THEN 1..d ELSE 1..d - 1
        BY <1>9 DEF Copying
    <2>2. Cur.do = "wait"
        BY <1>1, <1>9, CopyAt
    <2>3. UNCHANGED <<tasks, task, copied, disks>>
        BY <2>2 DEF CloneStep, Misses, Passes
    <2>4. CASE Passes
        <3>1. tasks[task].st = "done" /\ pc' = 4 * d + 4 /\ result' = "running"
            BY <1>1, <1>2, <1>4, <1>9, <2>2, <2>4 DEF Misses, Passes
        <3>2. Idle' /\ Unregistered'
            BY <2>1, <2>3, <3>1, Awaited, SameTasks
        <3>3. Copying(d)'
            BY <1>2, <2>1, <2>3, <3>1, <3>2 DEF Copying
        <3> QED BY <1>6, <3>1, <3>3
    <2>5. CASE Misses
        <3>1. tasks[task].st \notin {"running", "done"} /\ faults = 1
            BY <2>1, <2>2, <2>5 DEF Misses, Awaiting
        <3>2. faults' = 1 /\ Idle /\ Unregistered /\ disks = 1..d - 1
            BY <1>1, <2>1, <3>1, Awaited
        <3>3. CASE pc' = pc
            <4>1. Awaiting("copyDisk")'
                BY <2>1, <2>3, <3>2, SameTasks
            <4>2. Copying(d)'
                BY <1>2, <1>9, <2>1, <2>3, <3>3, <4>1 DEF Copying
            <4>3. result' = "running"
                BY <1>1, <1>4, <2>5
            <4> QED BY <1>6, <4>2, <4>3
        <3> QED BY <1>5, <2>5, <3>2, <3>3
    <2> QED BY <1>1, <2>4, <2>5
<1>10. CASE pc = 4 * d + 4
    <2>1. Idle /\ Unregistered /\ disks = 1..d
        BY <1>10 DEF Copying
    <2>2. Cur.do = "copied" /\ Cur.arg = d
        BY <1>1, <1>10, CopyAt
    <2>3. Passes /\ result' = "running" /\ UNCHANGED <<tasks, disks>> /\ copied' = copied \cup {d}
        BY <1>1, <2>2 DEF Misses, Passes
    <2>4. pc' = 4 * (d + 1) + 1
        BY <1>1, <1>2, <1>4, <1>10, <2>2, <2>3 DEF Misses
    <2>5. copied' = 1..(d + 1) - 1 /\ disks' = 1..(d + 1) - 1
        BY <1>2, <2>1, <2>3
    <2>6. Idle' /\ Unregistered'
        BY <2>1, <2>3, SameTasks
    <2>7. Stages'
        BY <1>2, <2>4, <2>5, <2>6, CopyNext
    <2> QED BY <2>3, <2>7 DEF Settled
<1> QED BY <1>7, <1>8, <1>9, <1>10 DEF Copying


\* Registering the VM.
LEMMA RegisteringStep == ASSUME CloneStep, Registering PROVE Settled'
<1>1. /\ Disks \in Nat /\ Cur = EX!CloneVM[pc] /\ faults \in {0, 1} /\ faults' \in {faults, faults + 1} /\ faults' <= 1
      /\ Misses \/ Passes
      /\ Misses => \/ pc' = pc /\ result' = "running"
                   \/ Cur.err > 0 /\ pc' = pc + Cur.err /\ result' = "running"
                   \/ Cur.err = 0 /\ result' # "running"
      /\ Passes => pc' = pc + Cur.ok /\ result' = "running"
    BY CloneGoes DEF CloneStep
<1>2. copied = 1..Disks /\ disks = 1..Disks
    BY DEF Registering
<1>3. pc \in RegisterAt - 4..RegisterAt /\ pc \in 5..RegisterAt /\ RegisterAt \in Nat
    BY <1>1 DEF Registering, RegisterAt
<1>4. Cur.ok = 1 /\ pc + Cur.err = RegisterAt + 5 /\ Cur.err # 0
    <2>1. Cur.ok = 1 /\ pc + Cur.err = RegisterAt + 5
        BY <1>1, <1>3, CloneDoes
    <2> QED BY <1>3, <2>1
<1>5. /\ pc \in RegisterAt - 4..RegisterAt - 2 => Cur.do = "read"
      /\ pc = RegisterAt - 1 => Cur.do = "send" /\ Cur.arg = "register"
      /\ pc = RegisterAt => Cur.do = "wait"
    BY <1>1, CloneDoes
<1>6. UNCHANGED <<copied, disks>>
    <2>1. Cur.do \in {"read", "send", "wait"}
        BY <1>3, <1>5
    <2> QED BY <2>1 DEF CloneStep, Misses, Passes
<1>7. ASSUME Misses, pc' # pc, Idle, Unregistered, faults' = 1 PROVE Settled'
    <2>1. pc' = RegisterAt + 5 /\ result' = "running"
        BY <1>1, <1>4, <1>7
    <2>2. RegisterAt + 5 = RegisterAt + 3 * 1 + 2 /\ 1 \in Nat \ {0} /\ 1 <= Disks + 1 /\ 1..1 - 1 = {}
        BY <1>1, <1>3
    <2>3. Idle' /\ Unregistered'
        BY <1>7, SameTasks DEF Misses
    <2>4. copied' \subseteq 1..Disks /\ disks' = copied' \ (1..1 - 1)
        BY <1>2, <1>6, <2>2
    <2>5. Stages'
        BY <1>7, <2>1, <2>2, <2>3, <2>4, CleanNext
    <2> QED BY <2>1, <2>5 DEF Settled
<1>8. ASSUME pc' \in RegisterAt - 4..RegisterAt - 1, Idle', Unregistered', result' = "running" PROVE Settled'
    <2>1. Registering'
        BY <1>2, <1>6, <1>8 DEF Registering, RegisterAt
    <2> QED BY <1>8, <2>1 DEF Settled, Stages
<1>9. ASSUME pc' = RegisterAt, Awaiting("register")', result' = "running" PROVE Settled'
    <2>1. Registering'
        BY <1>2, <1>6, <1>9 DEF Registering, RegisterAt
    <2> QED BY <1>9, <2>1 DEF Settled, Stages
<1>10. CASE pc \in RegisterAt - 4..RegisterAt - 1
    <2>1. Idle /\ Unregistered
        BY <1>3, <1>10 DEF Registering
    <2>2. CASE Misses
        <3>1. Cur.do \in {"read", "send"}
            BY <1>3, <1>5, <1>10
        <3>2. faults' = 1
            BY <1>1, <2>2, <3>1 DEF Misses
        <3>3. Idle' /\ Unregistered'
            BY <2>1, <2>2, SameTasks DEF Misses
        <3>4. CASE pc' = pc
            <4>1. result' = "running"
                BY <1>1, <1>4, <2>2
            <4> QED BY <1>8, <1>10, <3>3, <3>4, <4>1
        <3> QED BY <1>7, <2>1, <2>2, <3>2, <3>4
    <2>3. CASE Passes
        <3>1. pc' = pc + 1 /\ result' = "running"
            BY <1>1, <1>4, <2>3
        <3>2. CASE pc = RegisterAt - 1
            <4>1. Cur.do = "send" /\ Cur.arg = "register"
                BY <1>5, <3>2
            <4>2. tasks' = Append(tasks, NewTask("register")) /\ task' = Len(tasks) + 1
                BY <2>3, <4>1 DEF Passes
            <4>3. Awaiting("register")'
                BY <2>1, <4>2, SentWaits DEF CloneStep
            <4>4. pc' = RegisterAt
                BY <1>3, <3>1, <3>2
            <4> QED BY <1>9, <3>1, <4>3, <4>4
        <3>3. CASE pc # RegisterAt - 1
            <4>1. pc \in RegisterAt - 4..RegisterAt - 2 /\ pc' \in RegisterAt - 4..RegisterAt - 1
                BY <1>3, <1>10, <3>1, <3>3
            <4>2. Cur.do = "read"
                BY <1>5, <4>1
            <4>3. tasks' = tasks
                BY <2>3, <4>2 DEF Passes
            <4>4. Idle' /\ Unregistered'
                BY <2>1, <4>3, SameTasks
            <4> QED BY <1>8, <3>1, <4>1, <4>4
        <3> QED BY <3>2, <3>3
    <2> QED BY <1>1, <2>2, <2>3
<1>11. CASE pc = RegisterAt
    <2>1. Awaiting("register")
        BY <1>3, <1>11 DEF Registering
    <2>2. Cur.do = "wait"
        BY <1>5, <1>11
    <2>3. UNCHANGED <<tasks, task>>
        BY <2>2 DEF CloneStep, Misses, Passes
    <2>4. CASE Misses
        <3>1. tasks[task].st \notin {"running", "done"} /\ faults = 1
            BY <2>1, <2>2, <2>4 DEF Misses, Awaiting
        <3>2. faults' = 1 /\ Idle /\ Unregistered
            BY <1>1, <2>1, <3>1, Awaited
        <3>3. CASE pc' = pc
            <4>1. Awaiting("register")'
                BY <2>1, <2>3, <3>2, SameTasks
            <4>2. result' = "running"
                BY <1>1, <1>4, <2>4
            <4> QED BY <1>9, <1>11, <3>3, <4>1, <4>2
        <3> QED BY <1>7, <2>4, <3>2, <3>3
    <2>5. CASE Passes
        <3>1. tasks[task].st = "done"
            BY <2>2, <2>5 DEF Passes
        <3>2. pc' = RegisterAt + 1 /\ result' = "running"
            BY <1>1, <1>4, <1>11, <2>5
        <3>3. Idle' /\ ~Unregistered'
            BY <2>1, <2>3, <3>1, Awaited, SameTasks
        <3>4. pc' \in RegisterAt + 1..RegisterAt + 4
            BY <1>3, <3>2
        <3>5. Registered'
            BY <1>2, <1>6, <3>3, <3>4 DEF Registered, RegisterAt
        <3> QED BY <3>2, <3>5 DEF Settled, Stages
    <2> QED BY <1>1, <2>4, <2>5
<1> QED BY <1>3, <1>10, <1>11

\* Reading the clone.
LEMMA RegisteredStep == ASSUME CloneStep, Registered PROVE Settled'
<1>1. /\ Disks \in Nat /\ Cur = EX!CloneVM[pc] /\ pc \in 1..CloneEnd
      /\ Misses \/ Passes
      /\ Misses => \/ pc' = pc /\ result' = "running"
                   \/ Cur.err > 0 /\ pc' = pc + Cur.err /\ result' = "running"
                   \/ Cur.err = 0 /\ result' # "running"
      /\ Passes => pc' = pc + Cur.ok /\ result' = "running"
    BY CloneGoes
<1>2. pc \in RegisterAt + 1..RegisterAt + 4 /\ Idle /\ ~Unregistered /\ disks = 1..Disks
    BY <1>1 DEF Registered, RegisterAt, CloneEnd
<1>3. /\ Cur.err = 0 /\ Cur.ok = (IF pc = RegisterAt + 4 THEN 3 * Disks + 2 ELSE 1)
      /\ Cur.do \in {"adopt", "ensure", "lookup"}
    BY <1>1, <1>2, CloneDoes
<1>4. UNCHANGED <<tasks, disks>>
    BY <1>3 DEF CloneStep, Misses, Passes
<1>5. Idle' /\ ~Unregistered' /\ disks' = 1..Disks
    BY <1>2, <1>4, SameTasks
<1>6. CASE result' # "running"
    BY <1>5, <1>6 DEF Settled, Over
<1>7. CASE result' = "running"
    <2>1. pc' = pc \/ pc' = pc + Cur.ok
        BY <1>1, <1>3, <1>7
    <2>2. RegisterAt + 4 + (3 * Disks + 2) > CloneEnd /\ RegisterAt \in Nat
        BY <1>1 DEF RegisterAt, CloneEnd
    <2>3. pc' \in RegisterAt + 1..RegisterAt + 4 \/ pc' > CloneEnd
        <3>1. CASE pc = RegisterAt + 4
            BY <1>2, <1>3, <2>1, <2>2, <3>1
        <3>2. CASE pc # RegisterAt + 4
            BY <1>2, <1>3, <2>1, <2>2, <3>2
        <3> QED BY <3>1, <3>2
    <2>4. Registered'
        BY <1>5, <2>3 DEF Registered, RegisterAt, CloneEnd
    <2> QED BY <1>7, <2>4 DEF Settled, Stages
<1> QED BY <1>6, <1>7

\* Deleting a disk.
LEMMA CleaningStep == ASSUME CloneStep, NEW d \in 1..Disks, Cleaning(d) PROVE Settled'
<1>1. /\ Disks \in Nat /\ Cur = EX!CloneVM[pc] /\ faults' \in {faults, faults + 1} /\ faults' <= 1 /\ faults = 1
      /\ copied \subseteq 1..Disks
      /\ Misses \/ Passes
      /\ Misses => \/ pc' = pc /\ result' = "running"
                   \/ Cur.err > 0 /\ pc' = pc + Cur.err /\ result' = "running"
                   \/ Cur.err = 0 /\ result' # "running"
      /\ Passes => pc' = pc + Cur.ok /\ result' = "running"
    BY CloneGoes DEF CloneStep, Cleaning
<1>2. faults' = 1 /\ RegisterAt \in Nat
    BY <1>1 DEF RegisterAt
<1>3. d + 1 <= Disks + 1 /\ d + 1 \in Nat \ {0} /\ (d + 1) - 1 = d /\ d \in Nat
    BY <1>1
<1>4. ASSUME pc' = RegisterAt + 3 * (d + 1) + 2, Idle', Unregistered', copied' = copied, disks' = copied \ (1..d),
             result' = "running"
      PROVE  Settled'
    <2>1. copied' \subseteq 1..Disks /\ disks' = copied' \ (1..(d + 1) - 1)
        BY <1>1, <1>3, <1>4
    <2>2. Stages'
        BY <1>2, <1>3, <1>4, <2>1, CleanNext
    <2> QED BY <1>4, <2>2 DEF Settled
<1>5. ASSUME Cleaning(d)', result' = "running" PROVE Settled'
    BY <1>5 DEF Settled, Stages
<1>6. CASE pc = RegisterAt + 3 * d + 2
    <2>1. Idle /\ Unregistered /\ disks = copied \ (1..d - 1)
        BY <1>2, <1>3, <1>6 DEF Cleaning
    <2>2. Cur.do = "isCopied" /\ Cur.arg = d /\ Cur.ok = 1 /\ Cur.err = 3
        BY <1>1, <1>6, CleanAt
    <2>3. UNCHANGED <<tasks, task, copied, disks>>
        BY <2>2 DEF CloneStep, Misses, Passes
    <2>4. Idle' /\ Unregistered'
        BY <2>1, <2>3, SameTasks
    <2>5. CASE Misses
        <3>1. d \notin copied
            BY <2>2, <2>5 DEF Misses
        <3>2. disks' = copied \ (1..d)
            BY <1>3, <2>1, <2>3, <3>1
        <3>3. CASE pc' = pc
            <4>1. result' = "running"
                BY <1>1, <2>2, <2>5
            <4>2. Cleaning(d)'
                BY <1>1, <1>2, <1>6, <2>1, <2>3, <2>4, <3>3 DEF Cleaning, RegisterAt
            <4> QED BY <1>5, <4>1, <4>2
        <3>4. CASE pc' # pc
            <4>1. pc' = RegisterAt + 3 * (d + 1) + 2 /\ result' = "running"
                BY <1>1, <1>2, <1>3, <1>6, <2>2, <2>5, <3>4
            <4> QED BY <1>4, <2>3, <2>4, <3>2, <4>1
        <3> QED BY <3>3, <3>4
    <2>6. CASE Passes
        <3>1. pc' = RegisterAt + 3 * d + 3 /\ result' = "running"
            BY <1>1, <1>2, <1>3, <1>6, <2>2, <2>6
        <3>2. disk' = d
            BY <2>2, <2>6 DEF Passes
        <3>3. Cleaning(d)'
            BY <1>1, <1>2, <2>1, <2>3, <2>4, <3>1, <3>2 DEF Cleaning, RegisterAt
        <3> QED BY <1>5, <3>1, <3>3
    <2> QED BY <1>1, <2>5, <2>6
<1>7. CASE pc = RegisterAt + 3 * d + 3
    <2>1. Idle /\ Unregistered /\ disks = copied \ (1..d - 1) /\ disk = d
        BY <1>2, <1>3, <1>7 DEF Cleaning
    <2>2. Cur.do = "send" /\ Cur.arg = "deleteDisk" /\ Cur.ok = 1
        BY <1>1, <1>7, CleanAt
    <2>3. Passes
        BY <1>1, <2>2 DEF Misses
    <2>4. pc' = RegisterAt + 3 * d + 4 /\ result' = "running"
        BY <1>1, <1>2, <1>3, <1>7, <2>2, <2>3
    <2>5. /\ tasks' = Append(tasks, NewTask("deleteDisk")) /\ task' = Len(tasks) + 1
          /\ UNCHANGED <<copied, disks>>
        BY <2>2, <2>3 DEF Passes
    <2>6. Awaiting("deleteDisk")' /\ tasks'[task'].disk = d /\ tasks'[task'].st = "running"
        BY <2>1, <2>5, SentWaits DEF CloneStep
    <2>7. Cleaning(d)'
        BY <1>1, <1>2, <2>1, <2>4, <2>5, <2>6 DEF Cleaning, RegisterAt
    <2> QED BY <1>5, <2>4, <2>7
<1>8. CASE pc = RegisterAt + 3 * d + 4
    <2>1. /\ Awaiting("deleteDisk") /\ tasks[task].st \in {"running", "done"}
          /\ disks = copied \ (IF tasks[task].st = "done" THEN 1..d ELSE 1..d - 1)
        BY <1>2, <1>3, <1>8 DEF Cleaning
    <2>2. Cur.do = "wait" /\ Cur.ok = 1
        BY <1>1, <1>8, CleanAt
    <2>3. Passes
        BY <1>1, <2>1, <2>2 DEF Misses, Awaiting
    <2>4. pc' = RegisterAt + 3 * (d + 1) + 2 /\ result' = "running"
        BY <1>1, <1>2, <1>3, <1>8, <2>2, <2>3
    <2>5. tasks[task].st = "done" /\ UNCHANGED <<tasks, copied, disks>>
        BY <2>2, <2>3 DEF Passes
    <2>6. Idle' /\ Unregistered'
        BY <2>1, <2>5, Awaited, SameTasks
    <2> QED BY <1>4, <2>1, <2>4, <2>5, <2>6
<1> QED BY <1>6, <1>7, <1>8 DEF Cleaning

\* Returning the first error.
LEMMA CleanedStep == ASSUME CloneStep, Cleaned PROVE Settled'
<1>1. /\ Cur = EX!CloneVM[pc]
      /\ Misses \/ Passes
      /\ Misses => \/ pc' = pc /\ result' = "running"
                   \/ Cur.err > 0 /\ pc' = pc + Cur.err /\ result' = "running"
                   \/ Cur.err = 0 /\ result' # "running"
    BY CloneGoes
<1>2. Cur.do = "fail" /\ Cur.err = 0
    <2>1. Cur = EX!CloneVM[CloneEnd]
        BY <1>1 DEF Cleaned
    <2> QED BY <2>1, CloneDoes
<1>3. Misses
    BY <1>1, <1>2 DEF Passes
<1>4. Idle' /\ Unregistered' /\ disks' = {}
    BY <1>3, SameTasks DEF Misses, Cleaned
<1>5. CASE result' # "running"
    BY <1>4, <1>5 DEF Settled, Over
<1>6. CASE result' = "running"
    <2>1. pc' = pc
        BY <1>1, <1>2, <1>3, <1>6
    <2>2. Cleaned'
        BY <1>4, <2>1 DEF Cleaned, CloneEnd
    <2> QED BY <1>6, <2>2 DEF Settled, Stages
<1> QED BY <1>5, <1>6


\* No task of the clone is running but the one it waits for.
LEMMA TaskStep ==
    ASSUME TypeInv, faults \in Nat, faults' <= 1, OneFailure, Settled, NEW i \in 1..Len(tasks),
           tasks[i].st = "running", tasks[i].vm = 0 /\ tasks[i].req \in {"copyDisk", "deleteDisk", "register"} => TaskEnds(i)
    PROVE  Settled'
<1>1. ~Idle
    BY DEF Idle
<1>2. result = "running" /\ Disks \in Nat
    BY <1>1, CloneDoes DEF Settled, Over
<1>3. ASSUME NEW req \in {"copyDisk", "deleteDisk", "register"}, Awaiting(req)
      PROVE  /\ Awaiting(req)' /\ tasks'[task'].disk = tasks[task].disk
             /\ \/ tasks'[task'].st = "done" /\ faults' = faults
                \/ tasks'[task'].st = "failed" /\ faults = 0 /\ faults' = 1 /\ disks' = disks
             /\ UNCHANGED <<pc, result, task, copied>>
             /\ tasks[task].req = req /\ tasks[task].st = "running"
             /\ tasks'[task'].st = "done" =>
                  disks' = CASE req = "copyDisk"   -> disks \cup {tasks[task].disk}
                             [] req = "deleteDisk" -> disks \ {tasks[task].disk}
                             [] OTHER              -> disks
    <2>1. i = task /\ tasks[task].req = req
        BY <1>3 DEF Awaiting
    <2>2. tasks[i].vm = 0 /\ tasks[i].req \in {"copyDisk", "deleteDisk", "register"}
        BY <1>3, <2>1 DEF Awaiting
    <2>3. TaskEnds(task)
        BY <2>1, <2>2
    <2>4. /\ Awaiting(req)' /\ tasks'[task'].disk = tasks[task].disk
          /\ \/ tasks'[task'].st = "done" /\ faults' = faults
             \/ tasks'[task'].st = "failed" /\ faults = 0 /\ faults' = 1 /\ disks' = disks
        BY <1>3, <2>3, AwaitedEnds
    <2>5. UNCHANGED <<pc, result, task, copied>>
        BY <2>3 DEF TaskEnds
    <2>6. tasks'[task'].st = "done" =>
            disks' = CASE req = "copyDisk"   -> disks \cup {tasks[task].disk}
                       [] req = "deleteDisk" -> disks \ {tasks[task].disk}
                       [] OTHER              -> disks
        BY <2>1, <2>3, <2>5 DEF TaskEnds
    <2> QED BY <2>1, <2>4, <2>5, <2>6
<1>4. ASSUME NEW d \in 1..Disks, Copying(d) PROVE Settled'
    <2>1. /\ copied = 1..d - 1 /\ pc = 4 * d + 3 /\ Awaiting("copyDisk") /\ tasks[task].disk = d
          /\ disks = IF tasks[task].st = "done" THEN 1..d ELSE 1..d - 1
        BY <1>1, <1>4 DEF Copying
    <2>2. /\ Awaiting("copyDisk")' /\ tasks'[task'].disk = d
          /\ tasks'[task'].st = "done" \/ (tasks'[task'].st = "failed" /\ disks' = disks)
          /\ UNCHANGED <<pc, result, task, copied>>
          /\ tasks[task].st = "running"
          /\ tasks'[task'].st = "done" => disks' = disks \cup {d}
        BY <1>3, <2>1
    <2>3. disks' = IF tasks'[task'].st = "done" THEN 1..d ELSE 1..d - 1
        <3>1. (1..d - 1) \cup {d} = 1..d
            BY <1>2
        <3> QED BY <2>1, <2>2, <3>1
    <2>4. Copying(d)'
        BY <2>1, <2>2, <2>3 DEF Copying
    <2> QED BY <1>2, <2>2, <2>4 DEF Settled, Stages
<1>5. ASSUME NEW d \in 1..Disks, Cleaning(d) PROVE Settled'
    <2>1. /\ faults = 1 /\ copied \subseteq 1..Disks /\ pc = RegisterAt + 3 * d + 4 /\ Awaiting("deleteDisk")
          /\ tasks[task].disk = d
          /\ disks = copied \ (IF tasks[task].st = "done" THEN 1..d ELSE 1..d - 1)
        BY <1>1, <1>5 DEF Cleaning
    <2>2. /\ Awaiting("deleteDisk")' /\ tasks'[task'].disk = d
          /\ tasks'[task'].st = "done" /\ faults' = 1
          /\ UNCHANGED <<pc, result, task, copied>>
          /\ tasks[task].st = "running" /\ disks' = disks \ {d}
        BY <1>3, <2>1
    <2>3. disks' = copied' \ (1..d)
        <3>1. (1..d - 1) \cup {d} = 1..d
            BY <1>2
        <3>2. disks = copied \ (1..d - 1)
            BY <2>1, <2>2
        <3> QED BY <2>2, <3>1, <3>2
    <2>4. Cleaning(d)'
        BY <2>1, <2>2, <2>3 DEF Cleaning, RegisterAt
    <2> QED BY <1>2, <2>2, <2>4 DEF Settled, Stages
<1>6. CASE Registering
    <2>1. copied = 1..Disks /\ disks = 1..Disks /\ pc = RegisterAt /\ Awaiting("register")
        BY <1>1, <1>6 DEF Registering
    <2>2. /\ Awaiting("register")' /\ UNCHANGED <<pc, result, copied>>
          /\ tasks'[task'].st = "done" \/ (tasks'[task'].st = "failed" /\ disks' = disks)
          /\ tasks'[task'].st = "done" => disks' = disks
        BY <1>3, <2>1
    <2>3. Registering'
        BY <2>1, <2>2 DEF Registering, RegisterAt
    <2> QED BY <1>2, <2>2, <2>3 DEF Settled, Stages
<1>7. ~Before /\ ~Registered /\ ~Cleaned
    BY <1>1 DEF Before, Registered, Cleaned
<1> QED BY <1>2, <1>4, <1>5, <1>6, <1>7 DEF Settled, Stages

\* What is said of the clone where nothing that concerns it happens.
LEMMA CloneRests ==
    ASSUME Settled, UNCHANGED <<pc, result, task, disk, copied, disks, tasks, faults>>
    PROVE  Settled'
<1>1. \A req : Awaiting(req) => Awaiting(req)'
    BY SameTasks
<1>2. Before => Before'
    BY SameTasks DEF Before
<1>3. \A d \in 1..Disks : (Copying(d) => Copying(d)') /\ (Cleaning(d) => Cleaning(d)')
    <2>1. ASSUME NEW d \in 1..Disks, Copying(d) PROVE Copying(d)'
        BY <1>1, <2>1, SameTasks DEF Copying
    <2>2. ASSUME NEW d \in 1..Disks, Cleaning(d) PROVE Cleaning(d)'
        BY <1>1, <2>2, SameTasks DEF Cleaning, RegisterAt
    <2> QED BY <2>1, <2>2
<1>4. (Registering => Registering') /\ (Registered => Registered')
    BY <1>1, SameTasks DEF Registering, Registered, RegisterAt, CloneEnd
<1>5. (Cleaned => Cleaned') /\ (Over => Over')
    BY SameTasks DEF Cleaned, Over, CloneEnd
<1> QED BY <1>2, <1>3, <1>4, <1>5 DEF Settled, Stages


\* No step takes the clone out of its stages.
LEMMA CloneKept == ASSUME TypeInv, CloneInv, [Next]_vars PROVE CloneInv'
<1>1. faults \in Nat /\ (Len(ops) = 0 => disks = {}) /\ (OneFailure => Settled)
    BY DEF CloneInv, Settled
<1>2. ASSUME NEW o \in DOMAIN Operations[prov], Call(o) PROVE CloneInv'
    <2>1. /\ ops' = Append(ops, o) /\ pc' = 1 /\ result' = "running" /\ copied' = {}
          /\ UNCHANGED <<tasks, disks, faults>>
        BY <1>2 DEF Call
    <2>2. Len(ops') = Len(ops) + 1 /\ Len(ops) \in Nat
        <3>1. ops \in Seq(DOMAIN Operations[prov])
            BY DEF TypeInv
        <3> QED BY <2>1, <3>1
    <2>3. ASSUME OneFailure' PROVE Stages'
        <3>1. Len(ops') = 1
            BY <2>3 DEF OneFailure
        <3> DEFINE n == Len(ops)  k == Len(ops')
        <3>2. Len(ops) = 0
            <4>1. n \in Nat /\ k = n + 1 /\ k = 1
                BY <2>2, <3>1
            <4> HIDE DEF n, k
            <4>2. n = 0
                BY <4>1
            <4> QED BY <4>2 DEF n
        <3>3. Len(tasks) = 0 /\ disks = {}
            <4>1. \A i \in 1..Len(tasks) : tasks[i].call \in 1..0
                BY <3>2 DEF TypeInv
            <4>2. \A i \in 1..Len(tasks) : FALSE
                BY <4>1
            <4>3. Len(tasks) \in Nat
                BY DEF TypeInv
            <4> QED BY <1>1, <3>2, <4>2, <4>3
        <3>4. Before'
            BY <2>1, <3>3 DEF Before, Idle, Unregistered
        <3> QED BY <3>4 DEF Stages
    <2> QED BY <1>1, <2>1, <2>2, <2>3 DEF CloneInv
<1>3. ASSUME UNCHANGED <<prov, ops>>, faults' \in {faults, faults + 1}, gaveUp \subseteq gaveUp', ctxDone => ctxDone',
             disks' = disks \/ Len(ops) # 0, OneFailure' => Settled'
      PROVE  CloneInv'
    BY <1>1, <1>3 DEF CloneInv, Settled
<1>4. ASSUME UNCHANGED <<prov, ops>>, faults' \in {faults, faults + 1}, gaveUp \subseteq gaveUp', ctxDone => ctxDone', OneFailure'
      PROVE  OneFailure /\ Settled /\ faults' <= 1
    <2>1. OneFailure
        BY <1>1, <1>4 DEF OneFailure
    <2> QED BY <1>1, <1>4, <2>1 DEF OneFailure
<1>5. ASSUME NEW i \in DOMAIN tasks PROVE i \in 1..Len(tasks) /\ Len(ops) # 0
    <2>1. i \in 1..Len(tasks) /\ tasks[i].call \in 1..Len(ops)
        BY DEF TypeInv
    <2> QED BY <2>1
<1>6. CASE \E o \in DOMAIN Operations[prov] : Call(o)
    BY <1>2, <1>6
<1>7. CASE ~\E o \in DOMAIN Operations[prov] : Call(o)
    <2>1. UNCHANGED <<prov, ops>> /\ faults' \in {faults, faults + 1} /\ gaveUp \subseteq gaveUp' /\ (ctxDone => ctxDone')
        BY <1>7, Worsens
    <2>2. CASE Steps
        <3>1. disks' = disks
            BY <2>2 DEF Steps, Ensure, Parse, SetConnected, Fail, OnlyIf, Adopt, Disk, Copied, IsCopied, Find, ReadOK,
                        Allocate, LookupOK, AssertState, CurrentSnapshot, ReadFails, StateUnread, Gather, Fetch, Collect,
                        SendOK, SendRefused, SendFails, ReplyLost, AskGuest, GuestRefuses, WaitEnds, WaitGivesUp, Return, remote
        <3>2. ASSUME OneFailure' PROVE Settled'
            <4>1. OneFailure /\ Settled /\ faults' <= 1
                BY <1>4, <2>1, <3>2
            <4>2. result = "running" /\ (Returns \/ (pc \in 1..Len(Program) /\ (Misses \/ Passes)))
                BY <2>2, <3>2, <4>1, CloneMoves
            <4>3. Stages
                BY <4>1, <4>2 DEF Settled
            <4>4. CASE Returns
                <5>1. pc > CloneEnd /\ result' = "ok" /\ UNCHANGED <<tasks, disks>> /\ Disks \in Nat
                    BY <4>1, <4>4, CloneRuns, CloneDoes DEF Returns
                <5>2. Registered
                    BY <4>3, <5>1 DEF Stages, Before, Copying, Registering, Registered, Cleaning, Cleaned, RegisterAt, CloneEnd
                <5>3. Idle' /\ ~Unregistered' /\ disks' = 1..Disks
                    BY <5>1, <5>2, SameTasks DEF Registered
                <5>4. Over'
                    BY <5>3 DEF Over
                <5> QED BY <5>1, <5>4 DEF Settled
            <4>5. CASE pc \in 1..Len(Program) /\ (Misses \/ Passes)
                <5>1. CloneStep
                    BY <1>1, <4>1, <4>2, <4>5 DEF CloneStep
                <5> QED BY <4>3, <5>1, BeforeStep, CopyingStep, CleaningStep, RegisteringStep, RegisteredStep, CleanedStep
                        DEF Stages
            <4> QED BY <4>2, <4>4, <4>5
        <3> QED BY <1>3, <2>1, <3>1, <3>2
    <2>3. ASSUME NEW i \in DOMAIN tasks, Succeed(i) \/ TaskFails(i) PROVE CloneInv'
        <3>1. i \in 1..Len(tasks) /\ Len(ops) # 0
            BY <1>5
        <3>2. tasks[i].st = "running"
            BY <2>3 DEF Succeed, TaskFails
        <3>3. tasks[i].vm = 0 /\ tasks[i].req \in {"copyDisk", "deleteDisk", "register"} => TaskEnds(i)
            BY <2>3, <3>1, CloneTaskEnds
        <3>4. ASSUME OneFailure' PROVE Settled'
            <4>1. OneFailure /\ Settled /\ faults' <= 1
                BY <1>4, <2>1, <3>4
            <4> QED BY <1>1, <3>1, <3>2, <3>3, <4>1, TaskStep
        <3> QED BY <1>3, <2>1, <3>1, <3>4
    <2>4. ASSUME UNCHANGED <<pc, result, task, disk, copied, disks, tasks, faults>> PROVE CloneInv'
        <3>1. ASSUME OneFailure' PROVE Settled'
            <4>1. Settled
                BY <1>4, <2>1, <3>1
            <4> QED BY <2>4, <4>1, CloneRests
        <3> QED BY <1>3, <2>1, <2>4, <3>1
    <2>5. CASE Expire
        <3>1. ctxDone' /\ disks' = disks
            BY <2>5 DEF Expire, remote
        <3>2. ~OneFailure'
            BY <3>1 DEF OneFailure
        <3> QED BY <1>3, <2>1, <3>1, <3>2
    <2>6. ASSUME NEW v \in VM, NEW p \in PowerState, Admin(v, p) PROVE CloneInv'
        BY <2>4, <2>6 DEF Admin, control, local
    <2>7. CASE Done \/ UNCHANGED vars
        BY <2>4, <2>7 DEF Done, vars, control, local, remote, env
    <2> QED BY <1>7, <2>2, <2>3, <2>5, <2>6, <2>7 DEF Next, PowerState
<1> QED BY <1>6, <1>7

\* An ESXi clone that a single failure ends leaves no copied disk behind, and a registered clone keeps all of its disks
\* (CloneVM and cleanupDisks of esxi/clone.go), for any number of disks and wherever the failure happens.
THEOREM DisksKept == Spec => []DisksFollowClone
<1>1. ASSUME Init PROVE TypeInv /\ CloneInv
    <2>1. TypeInv
        BY <1>1 DEF Init, TypeInv
    <2>2. faults = 0 /\ disks = {} /\ Len(ops) = 0
        BY <1>1 DEF Init
    <2>3. ~OneFailure
        BY <2>2 DEF OneFailure
    <2> QED BY <2>1, <2>2, <2>3 DEF CloneInv
<1>2. ASSUME TypeInv /\ CloneInv, [Next]_vars PROVE (TypeInv /\ CloneInv)'
    BY <1>2, TypeStep, CloneKept
<1>3. ASSUME TypeInv /\ CloneInv PROVE DisksFollowClone
    <2>1. SUFFICES ASSUME OneFailure, result # "running"
                   PROVE  disks = IF \E i \in DOMAIN tasks : tasks[i].req = "register" /\ tasks[i].st = "done"
                                  THEN 1..Disks ELSE {}
        BY DEF DisksFollowClone, OneFailure
    <2>2. Over
        BY <1>3, <2>1 DEF CloneInv
    <2>3. DOMAIN tasks = 1..Len(tasks)
        BY <1>3 DEF TypeInv
    <2> QED BY <2>2, <2>3 DEF Over, Unregistered
<1> QED BY <1>1, <1>2, <1>3, PTL DEF Spec


=============================================================================
