--------------------------- MODULE StartupProofs ---------------------------
(***************************************************************************)
(* The properties of module Startup for any inputs, any number of          *)
(* instances and any set of existing directories.  What NewClient has made *)
(* when it comes to an instance is one mount for each earlier instance     *)
(* that was not skipped, and it listens on the addresses of these mounts   *)
(* and on nothing else; the configuration that it works with is the one    *)
(* that parseConfig accepted.                                              *)
(***************************************************************************)
EXTENDS Startup, SequenceTheorems, FiniteSetTheorems, TLAPS

\* What the command was started with.
Started == \E in \in Inputs : \E a \in ArgLists(in) : input = [in EXCEPT !.args = a]

\* Nothing is made before the configuration is there.
Fresh ==
    /\ result \in {"load", "dialer"} =>
          dialer = <<>> /\ pos = 1 /\ mnts = <<>> /\ open = {} /\ skipped = {}
    /\ result = "load" => insts = <<>>

\* The configuration that NewClient and the dialer work with was accepted.
Accepts ==
    /\ result \notin {"load", "error"} \/ dialer # <<>> => conf = loadConfig(input) /\ parseConfig(input)
    /\ dialer # <<>> => dialer = <<DialerOptions(conf, insts)>>

\* The instances, the mounts and the position are what their names say.
Shapes ==
    /\ Len(insts) \in Nat /\ DOMAIN insts = 1..Len(insts)
    /\ IsSeq(mnts)
    /\ pos \in Nat /\ 1 <= pos /\ pos <= Len(insts) + 1

\* The process listens on the addresses of its mounts, until it gives up.
Listening == open = IF result = "error" THEN {} ELSE {mnts[k].addr : k \in DOMAIN mnts}

\* The mounts are those of the earlier instances that were not skipped.
MountedSoFar ==
    /\ skipped \subseteq 1..(pos - 1)
    /\ {mnts[k].inst : k \in DOMAIN mnts} = (1..(pos - 1)) \ skipped
    /\ \A j, k \in DOMAIN mnts : j < k => mnts[j].inst < mnts[k].inst
    /\ ~conf.skip => skipped = {}

\* Each has the dial options of its instance.
OptionsOfInstance == \A k \in DOMAIN mnts : mnts[k].opts = dialOptions(conf, insts[mnts[k].inst])

\* The inductive invariant of startup.
StartupInv ==
    /\ Started /\ Fresh /\ Accepts /\ Shapes /\ Listening /\ MountedSoFar /\ OptionsOfInstance
-----------------------------------------------------------------------------
\* A function on 1..n is a sequence of its elements.
LEMMA FunctionIsSeq ==
    ASSUME NEW n \in Nat, NEW T, NEW s \in [1..n -> T]
    PROVE  IsSeq(s) /\ Len(s) = n /\ DOMAIN s = 1..n
<1>1. DOMAIN s = 1..n
  OBVIOUS
<1>2. s \in [1..n -> ToSet(s)]
  BY <1>1 DEF ToSet
<1>3. s \in Seq(ToSet(s))
  BY <1>2
<1> QED
  BY <1>1, <1>3, LenProperties DEF IsSeq

\* What Append makes of a sequence.
LEMMA AppendIsSeq ==
    ASSUME NEW s, IsSeq(s), NEW x
    PROVE  /\ IsSeq(Append(s, x))
           /\ Len(s) \in Nat /\ DOMAIN s = 1..Len(s)
           /\ DOMAIN Append(s, x) = 1..(Len(s) + 1)
           /\ \A k \in DOMAIN s : Append(s, x)[k] = s[k]
           /\ Append(s, x)[Len(s) + 1] = x
<1> DEFINE T == ToSet(s) \cup {x}
<1>1. s \in Seq(T) /\ x \in T
  BY SeqMonotonic DEF IsSeq
<1> HIDE DEF T
<1>2. Len(s) \in Nat /\ DOMAIN s = 1..Len(s)
  BY <1>1, LenProperties
<1>3. Append(s, x) \in Seq(T) /\ Len(Append(s, x)) = Len(s) + 1
  BY <1>1
<1>4. /\ DOMAIN Append(s, x) = 1..(Len(s) + 1)
      /\ Append(s, x) \in [1..(Len(s) + 1) -> T]
  BY <1>3, LenProperties
<1>5. IsSeq(Append(s, x))
  <2>1. Len(s) + 1 \in Nat
    BY <1>2
  <2> QED
    BY <2>1, <1>4, FunctionIsSeq
<1> QED
  BY <1>1, <1>2, <1>4, <1>5
-----------------------------------------------------------------------------
\* The started command, for what its input has.
LEMMA InputTypes ==
    ASSUME Started
    PROVE  /\ IsSeq(input.args) /\ \A k \in DOMAIN input.args : WellFormed(input.args[k])
           /\ Slots(input.envInsts) /\ Slots(input.fileInsts)
           /\ input.opts \subseteq Options
           /\ \A s \in Sources :
                 /\ "port" \in DOMAIN input[s] /\ input[s].port # <<>> => input[s].port[1] \in Int
                 /\ "unix" \in DOMAIN input[s] /\ input[s].unix # <<>> => IsSeq(input[s].unix[1])
<1>1. PICK in \in Inputs : \E a \in ArgLists(in) : input = [in EXCEPT !.args = a]
  BY DEF Started
<1>2. PICK a \in ArgLists(in) : input = [in EXCEPT !.args = a]
  BY <1>1
<1>3. {"args", "envInsts", "fileInsts", "opts"} \cup Sources \subseteq DOMAIN in
  BY InputAssumption
<1>4. /\ input.args = a /\ input.envInsts = in.envInsts /\ input.fileInsts = in.fileInsts
      /\ input.opts = in.opts /\ \A s \in Sources : input[s] = in[s]
  BY <1>2, <1>3 DEF Sources
<1> HIDE DEF Sources
<1> QED
  BY <1>4, InputAssumption, StartupAssumption

\* The numbers that follow the first one and are there, without a gap.
LEMMA TakenSlots ==
    ASSUME NEW s, Slots(s), NEW taken, taken = {k \in 3..Len(s) : \A j \in 3..k : s[j] # <<>>}
    PROVE  /\ Cardinality(taken) \in Nat
           /\ \A k \in 1..Cardinality(taken) : k + 2 \in taken
<1>1. Len(s) \in Nat
  BY LenProperties DEF Slots, IsSeq
<1>2. IsFiniteSet(3..Len(s)) /\ taken \in SUBSET (3..Len(s))
  BY <1>1, FS_Interval
<1>3. IsFiniteSet(taken) /\ Cardinality(taken) \in Nat
  BY <1>2, FS_Subset, FS_CardinalityType
<1>4. ASSUME NEW k \in 1..Cardinality(taken), k + 2 \notin taken
      PROVE  FALSE
  <2>1. taken \in SUBSET (3..(k + 1))
    <3> SUFFICES ASSUME NEW j \in taken, j > k + 1 PROVE FALSE
      BY <1>1, <1>3
    <3>1. j \in 3..Len(s) /\ \A i \in 3..j : s[i] # <<>>
      OBVIOUS
    <3>2. k + 2 \in 3..Len(s) /\ k + 2 <= j
      BY <1>1, <1>3, <3>1
    <3>3. \A i \in 3..(k + 2) : i \in 3..j
      BY <1>1, <3>1, <3>2
    <3>4. k + 2 \in taken
      BY <3>1, <3>2, <3>3
    <3> QED
      BY <3>4, <1>4
  <2>2. IsFiniteSet(3..(k + 1)) /\ Cardinality(3..(k + 1)) = k - 1
    <3>1. k \in Nat /\ k >= 1 /\ k + 1 \in Int /\ 3 \in Int
      BY <1>3
    <3>2. /\ IsFiniteSet(3..(k + 1))
          /\ Cardinality(3..(k + 1)) = IF 3 > k + 1 THEN 0 ELSE (k + 1) - 3 + 1
      BY <3>1, FS_Interval
    <3> QED
      BY <3>1, <3>2
  <2>3. Cardinality(taken) <= k - 1
    BY <2>1, <2>2, FS_Subset
  <2> QED
    BY <2>3, <1>3
<1> QED
  BY <1>3, <1>4

\* The instances of a source of numbered ones.
LEMMA NumberedInstances ==
    ASSUME NEW s, Slots(s)
    PROVE  IsSeq(numbered(s)) /\ \A k \in DOMAIN numbered(s) : WellFormed(numbered(s)[k])
<1> DEFINE first == IF s[1] # <<>> THEN s[1] ELSE s[2]
           taken == {k \in 3..Len(s) : \A j \in 3..k : s[j] # <<>>}
           more == [k \in 1..Cardinality(taken) |-> s[k + 2][1]]
<1>1. Len(s) \in Nat /\ Len(s) >= 2 /\ DOMAIN s = 1..Len(s)
  BY LenProperties DEF Slots, IsSeq
<1>2. \A k \in DOMAIN s : s[k] # <<>> => 1 \in DOMAIN s[k] /\ WellFormed(s[k][1])
  <2> SUFFICES ASSUME NEW k \in DOMAIN s, s[k] # <<>> PROVE 1 \in DOMAIN s[k] /\ WellFormed(s[k][1])
    OBVIOUS
  <2>1. s[k] \in Seq(ToSet(s[k])) /\ \A j \in DOMAIN s[k] : WellFormed(s[k][j])
    BY DEF Slots, IsSeq
  <2>2. Len(s[k]) \in Nat \ {0} /\ DOMAIN s[k] = 1..Len(s[k])
    BY <2>1, EmptySeq, LenProperties
  <2> QED
    BY <2>1, <2>2
<1>3. IsSeq(first) /\ \A k \in DOMAIN first : WellFormed(first[k])
  BY <1>1 DEF Slots
<1>4. /\ Cardinality(taken) \in Nat
      /\ \A k \in 1..Cardinality(taken) : k + 2 \in DOMAIN s /\ s[k + 2] # <<>>
  <2>1. Cardinality(taken) \in Nat /\ \A k \in 1..Cardinality(taken) : k + 2 \in taken
    BY TakenSlots
  <2> QED
    BY <2>1, <1>1
<1>5. DOMAIN more = 1..Cardinality(taken) /\ \A k \in DOMAIN more : WellFormed(more[k])
  BY <1>2, <1>4
<1>6. CASE first = <<>>
  <2>1. numbered(s) = <<>>
    BY <1>6 DEF numbered
  <2>2. <<>> \in Seq(ToSet(<<>>)) /\ DOMAIN (<<>>) = {}
    BY EmptySeq
  <2> QED
    BY <2>1, <2>2 DEF IsSeq
<1>7. CASE first # <<>>
  <2>1. numbered(s) = first \o more
    BY <1>7 DEF numbered
  <2> DEFINE T == {i \in ToSet(first) \cup ToSet(more) : WellFormed(i)}
  <2> HIDE DEF more, first, taken
  <2>2. more \in Seq(T)
    <3>1. more \in [1..Cardinality(taken) -> T]
      BY <1>5 DEF ToSet, more
    <3> QED
      BY <3>1, <1>4
  <2>3. first \in Seq(T)
    <3>1. Len(first) \in Nat /\ first \in [1..Len(first) -> ToSet(first)]
      BY <1>3, LenProperties DEF IsSeq
    <3>2. first \in [1..Len(first) -> T]
      BY <3>1, <1>3
    <3> QED
      BY <3>1, <3>2
  <2>4. first \o more \in Seq(T)
    BY <2>2, <2>3
  <2>5. /\ Len(first \o more) \in Nat /\ first \o more \in [1..Len(first \o more) -> T]
        /\ DOMAIN (first \o more) = 1..Len(first \o more)
    BY <2>4, LenProperties
  <2>6. IsSeq(first \o more)
    BY <2>5, FunctionIsSeq
  <2>7. \A k \in DOMAIN (first \o more) : (first \o more)[k] \in T
    BY <2>5
  <2> QED
    BY <2>1, <2>6, <2>7
<1> QED
  BY <1>6, <1>7

\* The arguments or numbered instances, whichever are taken.
LEMMA InstancesAreSeq ==
    ASSUME Started
    PROVE  IsSeq(instances(input)) /\ \A k \in DOMAIN instances(input) : WellFormed(instances(input)[k])
<1> DEFINE env == input.envInsts
           file == input.fileInsts
           v == viperInsts(input)
           n == Len(env) + Len(file)
<1>1. Slots(env) /\ Slots(file)
  BY InputTypes
<1> HIDE DEF env, file
<1>2. /\ Len(env) \in Nat /\ Len(env) >= 2 /\ DOMAIN env = 1..Len(env)
      /\ Len(file) \in Nat /\ Len(file) >= 2 /\ DOMAIN file = 1..Len(file)
  BY <1>1, LenProperties DEF Slots, IsSeq
<1>3. IsSeq(<<>>) /\ Len(<<>>) = 0 /\ DOMAIN (<<>>) = {}
  BY EmptySeq DEF IsSeq
<1>4. Slots(v)
  <2> n \in Nat /\ n >= 2
    BY <1>2
  <2>1. DOMAIN v = 1..n
    BY DEF viperInsts, env, file
  <2>2. IsSeq(v) /\ Len(v) = n
    <3>1. v \in [1..n -> ToSet(v)]
      BY DEF viperInsts, ToSet, env, file
    <3> HIDE DEF v, n
    <3> QED
      BY <3>1, FunctionIsSeq
  <2>3. ASSUME NEW k \in DOMAIN v
        PROVE  v[k] = <<>> \/ (\E j \in DOMAIN env : v[k] = env[j]) \/ \E j \in DOMAIN file : v[k] = file[j]
    BY <2>1, <1>2 DEF viperInsts, Slot, env, file
  <2>4. ASSUME NEW k \in DOMAIN v
        PROVE  IsSeq(v[k]) /\ Len(v[k]) <= 1 /\ \A j \in DOMAIN v[k] : WellFormed(v[k][j])
    <3> HIDE DEF v
    <3> QED
      BY <2>3, <1>1, <1>3 DEF Slots
  <2> HIDE DEF v, n
  <2> QED
    BY <2>2, <2>4 DEF Slots
<1>5. IsSeq(numbered(env)) /\ \A k \in DOMAIN numbered(env) : WellFormed(numbered(env)[k])
  BY <1>1, NumberedInstances
<1>6. IsSeq(numbered(v)) /\ \A k \in DOMAIN numbered(v) : WellFormed(numbered(v)[k])
  BY <1>4, NumberedInstances
<1>7. IsSeq(input.args) /\ \A k \in DOMAIN input.args : WellFormed(input.args[k])
  BY InputTypes
<1> QED
  BY <1>5, <1>6, <1>7 DEF instances, env
-----------------------------------------------------------------------------
\* The command starts with nothing configured and nothing mounted.
LEMMA InitStartup == Init => StartupInv
<1> SUFFICES ASSUME Init PROVE StartupInv
  OBVIOUS
<1>1. IsSeq(<<>>) /\ Len(<<>>) = 0 /\ DOMAIN (<<>>) = {}
  BY EmptySeq DEF IsSeq
<1>2. Started /\ Fresh /\ Accepts
  BY DEF Init, Started, Fresh, Accepts
<1>3. Shapes /\ Listening /\ MountedSoFar /\ OptionsOfInstance
  BY <1>1 DEF Init, Shapes, Listening, MountedSoFar, OptionsOfInstance
<1> QED
  BY <1>2, <1>3 DEF StartupInv

\* An instance that fails is skipped, or everything is undone.
LEMMA FailKeeps ==
    ASSUME StartupInv, NEW why, Mounting, Fail(why)
    PROVE  StartupInv'
<1> USE DEF StartupInv
<1>1. result = "running" /\ pos \in Nat /\ 1 <= pos /\ pos <= Len(insts) /\ Len(insts) \in Nat
  BY DEF Mounting, Shapes
<1>2. UNCHANGED <<input, conf, insts, dialer, mnts>>
  BY DEF Fail, given
<1>3. CASE conf.skip /\ skipped' = skipped \cup {pos} /\ pos' = pos + 1 /\ UNCHANGED <<open, result>>
  <2>1. Started' /\ Fresh' /\ Accepts'
    BY <1>1, <1>2, <1>3 DEF Started, Fresh, Accepts
  <2>2. Shapes'
    BY <1>1, <1>2, <1>3 DEF Shapes, IsSeq
  <2>3. Listening'
    BY <1>2, <1>3 DEF Listening
  <2>4. MountedSoFar'
    <3>1. 1..(pos' - 1) = (1..(pos - 1)) \cup {pos}
      BY <1>1, <1>3
    <3>2. pos \notin 1..(pos - 1)
      BY <1>1
    <3>3. (1..(pos' - 1)) \ skipped' = (1..(pos - 1)) \ skipped
      BY <1>3, <3>1, <3>2
    <3>4. skipped' \subseteq 1..(pos' - 1) /\ (~conf.skip => skipped = {})'
      BY <1>2, <1>3, <3>1 DEF MountedSoFar
    <3> QED
      BY <1>2, <3>3, <3>4 DEF MountedSoFar
  <2>5. OptionsOfInstance'
    BY <1>2 DEF OptionsOfInstance
  <2> QED
    BY <2>1, <2>2, <2>3, <2>4, <2>5
<1>4. CASE ~conf.skip /\ result' = "error" /\ open' = CloseMounts /\ UNCHANGED <<skipped, pos>>
  <2>1. Started' /\ Fresh' /\ Accepts'
    BY <1>1, <1>2, <1>4 DEF Started, Fresh, Accepts
  <2>2. Shapes'
    BY <1>2, <1>4 DEF Shapes, IsSeq
  <2>3. Listening'
    BY <1>1, <1>2, <1>4 DEF Listening, CloseMounts
  <2>4. MountedSoFar'
    BY <1>2, <1>4 DEF MountedSoFar
  <2>5. OptionsOfInstance'
    BY <1>2 DEF OptionsOfInstance
  <2> QED
    BY <2>1, <2>2, <2>3, <2>4, <2>5
<1> QED
  BY <1>3, <1>4 DEF Fail

\* An instance that is mounted comes after all earlier ones.
LEMMA MountKeeps ==
    ASSUME StartupInv, Mount
    PROVE  StartupInv'
<1> USE DEF StartupInv
<1> DEFINE m == [inst |-> pos, addr |-> Address(conf, Inst, pos), opts |-> dialOptions(conf, Inst)]
<1>1. result = "running" /\ pos \in Nat /\ 1 <= pos /\ pos <= Len(insts) /\ Len(insts) \in Nat
  BY DEF Mount, Addressed, Mounting, Shapes
<1>2. /\ UNCHANGED <<input, conf, insts, dialer, skipped, result>>
      /\ mnts' = Append(mnts, m) /\ open' = open \cup {m.addr} /\ pos' = pos + 1
  BY DEF Mount, given
<1>3. m.inst = pos /\ m.opts = dialOptions(conf, insts[pos])
  BY DEF Inst
<1> HIDE DEF m
<1>4. /\ IsSeq(mnts') /\ Len(mnts) \in Nat /\ DOMAIN mnts = 1..Len(mnts)
      /\ DOMAIN mnts' = 1..(Len(mnts) + 1)
      /\ \A k \in DOMAIN mnts : mnts'[k] = mnts[k]
      /\ mnts'[Len(mnts) + 1] = m
  BY <1>2, AppendIsSeq DEF Shapes
<1>5. /\ {mnts'[k].inst : k \in DOMAIN mnts'} = {mnts[k].inst : k \in DOMAIN mnts} \cup {pos}
      /\ {mnts'[k].addr : k \in DOMAIN mnts'} = {mnts[k].addr : k \in DOMAIN mnts} \cup {m.addr}
  BY <1>3, <1>4
<1>6. \A k \in DOMAIN mnts : mnts[k].inst \in 1..(pos - 1)
  BY DEF MountedSoFar
<1>7. Started' /\ Fresh' /\ Accepts'
  BY <1>1, <1>2 DEF Started, Fresh, Accepts
<1>8. Shapes'
  BY <1>1, <1>2, <1>4 DEF Shapes
<1>9. Listening'
  BY <1>1, <1>2, <1>5 DEF Listening
<1>10. MountedSoFar'
  <2>1. 1..(pos' - 1) = (1..(pos - 1)) \cup {pos} /\ pos \notin 1..(pos - 1)
    BY <1>1, <1>2
  <2>2. skipped' \subseteq 1..(pos' - 1) /\ (~conf.skip => skipped = {})'
    BY <1>2, <2>1 DEF MountedSoFar
  <2>3. {mnts'[k].inst : k \in DOMAIN mnts'} = (1..(pos' - 1)) \ skipped'
    BY <1>2, <1>5, <2>1 DEF MountedSoFar
  <2>4. ASSUME NEW j \in DOMAIN mnts', NEW k \in DOMAIN mnts', j < k
        PROVE  mnts'[j].inst < mnts'[k].inst
    <3>1. j \in DOMAIN mnts /\ mnts'[j] = mnts[j]
      BY <1>4, <2>4
    <3>2. CASE k \in DOMAIN mnts
      BY <1>4, <2>4, <3>1, <3>2 DEF MountedSoFar
    <3>3. CASE k = Len(mnts) + 1
      BY <1>1, <1>3, <1>4, <1>6, <3>1, <3>3
    <3> QED
      BY <1>4, <3>2, <3>3
  <2> QED
    BY <2>2, <2>3, <2>4 DEF MountedSoFar
<1>11. OptionsOfInstance'
  <2> SUFFICES ASSUME NEW k \in DOMAIN mnts'
               PROVE  mnts'[k].opts = dialOptions(conf, insts[mnts'[k].inst])
    BY <1>2 DEF OptionsOfInstance
  <2> QED
    BY <1>3, <1>4 DEF OptionsOfInstance
<1> QED
  BY <1>7, <1>8, <1>9, <1>10, <1>11

\* Every step of startup keeps the invariant.
LEMMA StepStartup == StartupInv /\ [Next]_vars => StartupInv'
<1> SUFFICES ASSUME StartupInv, [Next]_vars PROVE StartupInv'
  OBVIOUS
<1> USE DEF StartupInv
<1>1. CASE LoadConfig
  <2>1. /\ result = "load"
        /\ UNCHANGED <<input, dialer, pos, mnts, open, skipped>>
    BY <1>1 DEF LoadConfig
  <2>2. CASE /\ parseConfig(input) /\ conf' = loadConfig(input)
             /\ insts' = [k \in DOMAIN instances(input) |-> InstanceConnConfig(instances(input)[k])]
             /\ result' = "dialer"
    <3>1. Len(insts') \in Nat /\ DOMAIN insts' = 1..Len(insts')
      <4>1. /\ Len(instances(input)) \in Nat
            /\ DOMAIN instances(input) = 1..Len(instances(input))
        BY InstancesAreSeq, LenProperties DEF IsSeq
      <4>2. insts' \in [1..Len(instances(input)) -> {insts'[k] : k \in DOMAIN insts'}]
        BY <2>2, <4>1
      <4> QED
        BY <4>1, <4>2, FunctionIsSeq
    <3>2. mnts = <<>> /\ mnts' = <<>> /\ pos = 1 /\ skipped = {} /\ dialer = <<>> /\ open = {}
      BY <2>1 DEF Fresh
    <3>3. Started' /\ Fresh' /\ Accepts'
      BY <2>1, <2>2, <3>2 DEF Started, Fresh, Accepts
    <3>4. Shapes'
      BY <2>1, <3>1, <3>2 DEF Shapes, IsSeq
    <3>5. Listening' /\ MountedSoFar' /\ OptionsOfInstance'
      BY <2>1, <2>2, <3>2 DEF Listening, MountedSoFar, OptionsOfInstance
    <3> QED
      BY <3>3, <3>4, <3>5
  <2>3. CASE result' = "error" /\ UNCHANGED <<conf, insts>>
    <3>1. Started' /\ Fresh' /\ Accepts' /\ Shapes'
      BY <2>1, <2>3 DEF Started, Fresh, Accepts, Shapes, IsSeq
    <3>2. Listening' /\ MountedSoFar' /\ OptionsOfInstance'
      BY <2>1, <2>3 DEF Listening, MountedSoFar, OptionsOfInstance, Fresh
    <3> QED
      BY <3>1, <3>2
  <2> QED
    BY <1>1, <2>2, <2>3 DEF LoadConfig
<1>2. CASE GcloudFails \/ Done
  <2>1. /\ UNCHANGED <<input, conf, insts, dialer, pos, mnts, open, skipped>>
        /\ (result = "dialer" /\ result' = "error") \/ (result = "running" /\ result' = "client")
    BY <1>2 DEF GcloudFails, Done, given
  <2>2. Started' /\ Fresh' /\ Accepts' /\ Shapes'
    BY <2>1 DEF Started, Fresh, Accepts, Shapes, IsSeq
  <2>3. Listening' /\ MountedSoFar' /\ OptionsOfInstance'
    BY <2>1 DEF Listening, MountedSoFar, OptionsOfInstance, Fresh
  <2> QED
    BY <2>2, <2>3
<1>3. CASE NewDialer
  <2>1. /\ UNCHANGED <<input, conf, insts, pos, mnts, open, skipped>>
        /\ result = "dialer" /\ result' \in {"fuse", "running", "error"}
        /\ dialer' \in {<<>>, <<DialerOptions(conf, insts)>>}
    BY <1>3 DEF NewDialer, configureFUSE, Fresh
  <2>2. Started' /\ Fresh' /\ Accepts' /\ Shapes'
    BY <2>1 DEF Started, Fresh, Accepts, Shapes, IsSeq
  <2>3. Listening' /\ MountedSoFar' /\ OptionsOfInstance'
    BY <2>1 DEF Listening, MountedSoFar, OptionsOfInstance, Fresh
  <2> QED
    BY <2>2, <2>3
<1>4. CASE EngineFails
  BY <1>4, FailKeeps DEF EngineFails
<1>5. CASE SocketPathFails
  BY <1>5, FailKeeps DEF SocketPathFails
<1>6. CASE ListenFails
  BY <1>6, FailKeeps DEF ListenFails, Addressed
<1>7. CASE Mount
  BY <1>7, MountKeeps
<1>8. CASE UNCHANGED vars
  BY <1>8 DEF vars, given, Started, Fresh, Accepts, Shapes, IsSeq, Listening, MountedSoFar,
     OptionsOfInstance
<1> QED
  BY <1>1, <1>2, <1>3, <1>4, <1>5, <1>6, <1>7, <1>8 DEF Next

\* The invariant holds of every behaviour of startup.
THEOREM StartupInvariance == Spec => []StartupInv
BY InitStartup, StepStartup, PTL DEF Spec
-----------------------------------------------------------------------------
\* When NewClient fails, every listener it had opened is closed, however many
\* instances were mounted before and whichever way the last one failed.
THEOREM FailureClosesAll == Spec => []NothingLeftListening
<1>1. StartupInv => NothingLeftListening
  BY DEF StartupInv, Listening, NothingLeftListening
<1> QED
  BY <1>1, StartupInvariance, PTL

\* Done is the only step that makes a client, and it comes past the last instance.
LEMMA ClientIsComplete == Spec => [](result = "client" => pos = Len(insts) + 1)
<1> DEFINE Complete == result = "client" => pos = Len(insts) + 1
<1>1. Init => Complete
  BY DEF Init
<1>2. StartupInv /\ Complete /\ [Next]_vars => Complete'
  <2> SUFFICES ASSUME StartupInv, Complete, [Next]_vars PROVE Complete'
    OBVIOUS
  <2>1. CASE Done
    BY <2>1 DEF Done, StartupInv, Shapes, given
  <2>2. CASE LoadConfig \/ GcloudFails \/ NewDialer
    BY <2>2 DEF LoadConfig, GcloudFails, NewDialer, configureFUSE
  <2>3. ASSUME NEW why, Mounting, Fail(why) PROVE Complete'
    BY <2>3 DEF Mounting, Fail
  <2>4. CASE EngineFails \/ SocketPathFails \/ ListenFails
    BY <2>3, <2>4 DEF EngineFails, SocketPathFails, ListenFails, Addressed
  <2>5. CASE Mount
    BY <2>5 DEF Mount, Addressed, Mounting
  <2>6. CASE UNCHANGED vars
    BY <2>6 DEF vars, given
  <2> QED
    BY <2>1, <2>2, <2>4, <2>5, <2>6 DEF Next
<1> QED
  BY <1>1, <1>2, StartupInvariance, PTL DEF Spec

\* A client has one mount for each instance that was not skipped, in order, and
\* skips one only under the flag: no failure ends the loop early and none leaves
\* two mounts for an instance.
THEOREM EveryInstance == Spec => []EveryInstanceMounted
<1>1. StartupInv /\ (result = "client" => pos = Len(insts) + 1) => EveryInstanceMounted
  <2> SUFFICES ASSUME StartupInv, result = "client", pos = Len(insts) + 1
               PROVE  /\ {mnts[k].inst : k \in DOMAIN mnts} = DOMAIN insts \ skipped
                      /\ \A j, k \in DOMAIN mnts : j < k => mnts[j].inst < mnts[k].inst
                      /\ ~conf.skip => skipped = {}
    BY DEF EveryInstanceMounted
  <2>1. 1..(pos - 1) = DOMAIN insts
    BY DEF StartupInv, Shapes
  <2> QED
    BY <2>1 DEF StartupInv, MountedSoFar
<1> QED
  BY <1>1, StartupInvariance, ClientIsComplete, PTL
-----------------------------------------------------------------------------
\* Two elements of a set with at most one are the same.
LEMMA AtMostOneSame ==
    ASSUME NEW S, IsFiniteSet(S), Cardinality(S) <= 1, NEW a \in S, NEW b \in S
    PROVE  a = b
<1>1. CASE Cardinality(S) = 1
  <2>1. PICK x : S = {x}
    BY <1>1, FS_Singleton
  <2> QED
    BY <2>1
<1>2. CASE Cardinality(S) = 0
  BY <1>2, FS_EmptySet
<1> QED
  BY <1>1, <1>2, FS_CardinalityType

\* The switch of credentialsOpt picks the one credential that is set.
LEMMA SourceIsCredential ==
    ASSUME NEW c, OneCredential(c), NEW o \in Credentials, c[o]
    PROVE  Source(c) = o
<1> DEFINE S == {n \in Credentials : c[n]}
<1>1. IsFiniteSet(S)
  <2>1. IsFiniteSet(Credentials)
    <3>1. IsFiniteSet({"token"} \cup {"credentialsFile"})
      BY FS_Singleton, FS_AddElement
    <3>2. IsFiniteSet({"token"} \cup {"credentialsFile"} \cup {"credentialsJSON"})
      BY <3>1, FS_AddElement
    <3>3. IsFiniteSet({"token"} \cup {"credentialsFile"} \cup {"credentialsJSON"} \cup {"gcloudAuth"})
      BY <3>2, FS_AddElement
    <3>4. Credentials = {"token"} \cup {"credentialsFile"} \cup {"credentialsJSON"} \cup {"gcloudAuth"}
      BY DEF Credentials
    <3> QED
      BY <3>3, <3>4
  <2> QED
    BY <2>1, FS_Subset
<1>2. Cardinality(S) <= 1
  BY DEF OneCredential, AtMostOne
<1> HIDE DEF S
<1>3. \A n \in S : n = o
  <2>1. o \in S
    BY DEF S
  <2> QED
    BY <1>1, <1>2, <2>1, AtMostOneSame
<1>4. \A n \in Credentials : c[n] => n = o
  BY <1>3 DEF S
<1> QED
  BY <1>4 DEF Source, Credentials

\* No credential that is asked for is ignored, whichever source asks, because
\* parseConfig has refused every configuration with two of them.
THEOREM CredentialUsed == Spec => []CredentialsAsAsked
<1>1. ASSUME StartupInv, dialer # <<>>,
             NEW o \in Credentials, NEW s \in Sources,
             o \in DOMAIN input[s], input[s][o] = <<TRUE>>, FirstSetter(input, o) = s
      PROVE  dialer[1].source = o
  <2>1. conf = loadConfig(input) /\ parseConfig(input) /\ dialer = <<DialerOptions(conf, insts)>>
    BY <1>1 DEF StartupInv, Accepts
  <2>2. OneCredential(conf)
    BY <2>1 DEF parseConfig, ValidGlobal
  <2>3. Given(input, o) = <<TRUE>>
    BY <1>1 DEF Given, Sources
  <2>4. Given(input, o) # <<>> /\ Given(input, o)[1]
    BY <2>3
  <2>5. o \in DOMAIN Default
    BY DEF Default, Credentials
  <2>6. conf[o]
    BY <2>1, <2>4, <2>5 DEF loadConfig
  <2>7. Source(conf) = o
    BY <2>2, <2>6, SourceIsCredential
  <2> QED
    BY <2>1, <2>7 DEF DialerOptions
<1>2. StartupInv => CredentialsAsAsked
  BY <1>1 DEF CredentialsAsAsked
<1> QED
  BY <1>2, StartupInvariance, PTL

\* What dialOptions says of IAM login is what the instance says.
LEMMA OptionsSayIAM ==
    ASSUME NEW g, NEW i
    PROVE  /\ <<"iamAuthN", "true">> \in dialOptions(g, i) <=> i.iamAuthN = "true"
           /\ <<"iamAuthN", "false">> \in dialOptions(g, i) <=> i.iamAuthN = "false"
<1> DEFINE own == {<<"iamAuthN", i.iamAuthN>> : x \in {i.iamAuthN} \ {"nil"}}
           other == {<<"sqlData">>, <<"privateIP">>, <<"psc">>, <<"autoIP">>}
           proto == {<<"protocol", "uds">>, <<"protocol", "tcp">>}
<1>1. dialOptions(g, i) \subseteq own \cup other \cup proto /\ own \subseteq dialOptions(g, i)
  BY DEF dialOptions
<1>2. \A b \in {"true", "false"} : <<"iamAuthN", b>> \notin other \cup proto
  OBVIOUS
<1>3. \A b \in {"true", "false"} : <<"iamAuthN", b>> \in own <=> i.iamAuthN = b
  OBVIOUS
<1> HIDE DEF own, other, proto
<1> QED
  BY <1>1, <1>2, <1>3

\* A mount logs in with IAM where its instance or the global flag asks for it,
\* with a dialer that is prepared for it, and never where its instance says no,
\* although one instance that asks turns the dialer's default on for all.
THEOREM IAMWhereAsked == Spec => []IAMLoginWhereAsked
<1>1. ASSUME StartupInv, dialer # <<>>, NEW k \in DOMAIN mnts, NEW i, i = insts[mnts[k].inst]
      PROVE  /\ i.iamAuthN = "true" \/ (i.iamAuthN = "nil" /\ conf.iamAuthN) =>
                   /\ DialsWithIAM(mnts[k]) /\ dialer[1].iam
                   /\ conf.chain # <<>> \/ conf.loginToken => dialer[1].loginSource
             /\ i.iamAuthN = "false" => ~DialsWithIAM(mnts[k])
  <2>1. conf = loadConfig(input) /\ parseConfig(input) /\ dialer = <<DialerOptions(conf, insts)>>
    BY <1>1 DEF StartupInv, Accepts
  <2>2. IAMFlags(conf)
    BY <2>1 DEF parseConfig, ValidGlobal
  <2>3. /\ dialer[1].iam = iamAuthNEnabled(conf, insts)
        /\ dialer[1].loginSource = LoginSource(conf, insts)
    BY <2>1 DEF DialerOptions
  <2>4. mnts[k].inst \in DOMAIN insts
    <3>1. mnts[k].inst \in 1..(pos - 1)
      BY <1>1 DEF StartupInv, MountedSoFar
    <3> QED
      BY <1>1, <3>1 DEF StartupInv, Shapes
  <2>5. /\ <<"iamAuthN", "true">> \in mnts[k].opts <=> i.iamAuthN = "true"
        /\ <<"iamAuthN", "false">> \in mnts[k].opts <=> i.iamAuthN = "false"
    BY <1>1, OptionsSayIAM DEF StartupInv, OptionsOfInstance
  <2>6. ASSUME i.iamAuthN = "true" \/ (i.iamAuthN = "nil" /\ conf.iamAuthN)
        PROVE  /\ DialsWithIAM(mnts[k]) /\ dialer[1].iam
               /\ conf.chain # <<>> \/ conf.loginToken => dialer[1].loginSource
    <3>1. iamAuthNEnabled(conf, insts)
      BY <1>1, <2>4, <2>6 DEF iamAuthNEnabled
    <3>2. DialsWithIAM(mnts[k])
      BY <2>3, <2>5, <2>6, <3>1 DEF DialsWithIAM
    <3>3. conf.chain # <<>> \/ conf.loginToken => LoginSource(conf, insts)
      BY <2>2, <3>1 DEF LoginSource, IAMFlags
    <3> QED
      BY <2>3, <3>1, <3>2, <3>3
  <2>7. i.iamAuthN = "false" => ~DialsWithIAM(mnts[k])
    BY <2>5 DEF DialsWithIAM
  <2> QED
    BY <2>6, <2>7
<1>2. StartupInv => IAMLoginWhereAsked
  BY <1>1 DEF IAMLoginWhereAsked
<1> QED
  BY <1>2, StartupInvariance, PTL
-----------------------------------------------------------------------------
(***************************************************************************)
(* The addresses that the proxy chooses by itself.  The counters of the    *)
(* engines start apart, and the counter for unknown engines starts at 0,   *)
(* so that they can meet: 1434 instances of unknown engines draw the ports *)
(* up to 1433, where SQL Server starts.  Up to that many instances in all, *)
(* no two of them get the same address.                                    *)
(***************************************************************************)

\* The names of the instances tell them apart, and none is that of a socket.
NamesApart ==
    /\ Len(insts) <= Len(Names)
    /\ \A j, k \in DOMAIN Names : Names[j] = Names[k] => j = k
    /\ \A k \in DOMAIN Names : Names[k] # PgSocket

FewInstances == Len(insts) <= 1434

\* The proxy chooses every address.
Automatic ==
    /\ NamesApart /\ FewInstances
    /\ \A k \in DOMAIN insts : insts[k].port = 0 /\ insts[k].path = <<>>

Counters == {"global", "POSTGRES", "MYSQL", "SQLSERVER"}

\* A port is a number and a directory a path.
ConfigTypes ==
    result \in {"dialer", "running"} =>
        /\ conf.port \in Int /\ IsSeq(conf.unix)
        /\ \A k \in DOMAIN insts : IsSeq(insts[k].unix)

\* The counters have moved on by at most one port for each instance so far, and
\* with a global port only that one has.
PortsDrawn ==
    /\ ports \in [Counters -> Int]
    /\ \A c \in Counters : newPortConfig(conf.port)[c] <= ports[c]
    /\ conf.port # 0 => \A c \in Counters \ {"global"} : ports[c] = newPortConfig(0)[c]
    /\ (ports["global"] - conf.port) + (ports["POSTGRES"] - 5432) + (ports["MYSQL"] - 3306)
          + (ports["SQLSERVER"] - 1433) <= pos - 1

\* An address that was drawn from a counter or belongs to an earlier name.
Chosen(a) ==
    \/ /\ a.net = "tcp" /\ a.port \in Int
       /\ \E c \in Counters : newPortConfig(conf.port)[c] <= a.port /\ a.port < ports[c]
    \/ \E j \in 1..(pos - 1) : a.net = "unix" /\ a = UnixAddress(conf, insts[j], j)

AddressesChosen == \A a \in open : Chosen(a)

\* The inductive invariant of the chosen addresses.
ChosenInv ==
    /\ ConfigTypes
    /\ result \in {"load", "dialer"} => failure # "inuse"
    /\ Automatic => /\ failure # "inuse"
                    /\ result = "running" => PortsDrawn /\ AddressesChosen
-----------------------------------------------------------------------------
\* What Append has put together can be taken apart.
LEMMA AppendApart ==
    ASSUME NEW s, IsSeq(s), NEW t, IsSeq(t), NEW x, NEW y, Append(s, x) = Append(t, y)
    PROVE  s = t /\ x = y
<1> DEFINE S == ToSet(s) \cup ToSet(t) \cup {x, y}
<1>1. s \in Seq(S) /\ t \in Seq(S) /\ x \in S /\ y \in S
  BY SeqMonotonic DEF IsSeq
<1> HIDE DEF S
<1> QED
  BY <1>1, AppendInjective

\* What loadConfig and InstanceConnConfig make of well-formed inputs.
LEMMA LoadedTypes ==
    ASSUME Started
    PROVE  /\ loadConfig(input).port \in Int /\ IsSeq(loadConfig(input).unix)
           /\ \A k \in DOMAIN instances(input) : IsSeq(InstanceConnConfig(instances(input)[k]).unix)
<1>1. IsSeq(<<>>)
  BY EmptySeq DEF IsSeq
<1>2. ASSUME NEW o \in {"port", "unix"}, Given(input, o) # <<>>
      PROVE  \E s \in Sources : o \in DOMAIN input[s] /\ Given(input, o) = input[s][o]
  BY <1>2 DEF Given, FirstSetter, Sources
<1>3. \A o \in {"port", "unix"} : o \in DOMAIN Default /\ o \notin input.opts
  <2>1. input.opts \subseteq Options
    BY InputTypes
  <2> QED
    BY <2>1 DEF Default, Options, LegacyIP
<1>4. loadConfig(input).port \in Int
  <2>1. loadConfig(input).port = IF Given(input, "port") # <<>> THEN Given(input, "port")[1] ELSE 0
    BY <1>3 DEF loadConfig, Default
  <2>2. CASE Given(input, "port") # <<>>
    <3>1. PICK s \in Sources : "port" \in DOMAIN input[s] /\ Given(input, "port") = input[s].port
      BY <1>2, <2>2
    <3>2. Given(input, "port")[1] \in Int
      BY <2>2, <3>1, InputTypes
    <3> QED
      BY <2>1, <2>2, <3>2
  <2> QED
    BY <2>1, <2>2
<1>5. IsSeq(loadConfig(input).unix)
  <2>1. loadConfig(input).unix = IF Given(input, "unix") # <<>> THEN Given(input, "unix")[1] ELSE <<>>
    BY <1>3 DEF loadConfig, Default
  <2>2. CASE Given(input, "unix") # <<>>
    <3>1. PICK s \in Sources : "unix" \in DOMAIN input[s] /\ Given(input, "unix") = input[s].unix
      BY <1>2, <2>2
    <3>2. IsSeq(Given(input, "unix")[1])
      BY <2>2, <3>1, InputTypes
    <3> QED
      BY <2>1, <2>2, <3>2
  <2> QED
    BY <1>1, <2>1, <2>2
<1>6. ASSUME NEW k \in DOMAIN instances(input)
      PROVE  IsSeq(InstanceConnConfig(instances(input)[k]).unix)
  <2>1. WellFormed(instances(input)[k])
    BY InstancesAreSeq
  <2> QED
    BY <1>1, <2>1 DEF InstanceConnConfig, Param, WellFormed
<1> QED
  BY <1>4, <1>5, <1>6

\* The counter of a port that the proxy chooses.
LEMMA ChosenCounter ==
    ASSUME NEW i, i.port = 0
    PROVE  Counter(conf, i) \in Counters /\ (conf.port # 0 => Counter(conf, i) = "global")
BY DEF Counter, Counters

\* The address of the next instance is free.
LEMMA NextAddressFree ==
    ASSUME StartupInv, ConfigTypes, Automatic, Mounting, PortsDrawn, AddressesChosen
    PROVE  ~InUse(Address(conf, Inst, pos))
<1> DEFINE a == Address(conf, Inst, pos)
<1>1. /\ result = "running" /\ pos \in 1..Len(insts) /\ Len(insts) \in Nat /\ pos \in Nat
      /\ DOMAIN insts = 1..Len(insts)
  BY DEF Mounting, StartupInv, Shapes
<1>2. Inst = insts[pos] /\ Inst.port = 0 /\ Inst.path = <<>>
  BY <1>1 DEF Inst, Automatic
<1>3. /\ conf.port \in Int /\ IsSeq(conf.unix)
      /\ \A k \in DOMAIN insts : IsSeq(insts[k].unix)
  BY <1>1 DEF ConfigTypes
<1>4. CASE networkType(conf, Inst) = "tcp"
  <2> DEFINE c == Counter(conf, Inst)
  <2>1. a.net = "tcp" /\ a.port = ports[c]
    BY <1>2, <1>4 DEF Address, TCPAddress
  <2>2. c \in Counters /\ (conf.port # 0 => c = "global")
    BY <1>2, ChosenCounter
  <2> HIDE DEF c, a
  <2>3. ASSUME NEW d \in Counters, newPortConfig(conf.port)[d] <= ports[c], ports[c] < ports[d]
        PROVE  FALSE
    <3>1. \A e \in Counters : ports[e] \in Int
      BY DEF PortsDrawn
    <3>2. CASE conf.port # 0
      <4>1. c = "global"
        BY <2>2, <3>2
      <4>2. CASE d = "global"
        BY <2>3, <3>1, <4>1, <4>2
      <4>3. CASE d # "global"
        <5>1. ports[d] = newPortConfig(0)[d] /\ newPortConfig(conf.port)[d] = newPortConfig(0)[d]
          BY <3>2, <4>3 DEF PortsDrawn, newPortConfig, Counters
        <5> QED
          BY <2>2, <2>3, <3>1, <5>1
      <4> QED
        BY <4>2, <4>3
    <3>3. CASE conf.port = 0
      <4> DEFINE g == ports["global"]
                 p == ports["POSTGRES"]
                 m == ports["MYSQL"]
                 s == ports["SQLSERVER"]
      <4>1. g \in Int /\ p \in Int /\ m \in Int /\ s \in Int
        BY <3>1 DEF Counters
      <4>2. 0 <= g /\ 5432 <= p /\ 3306 <= m /\ 1433 <= s
        BY <3>3 DEF PortsDrawn, newPortConfig, Counters
      <4>3. (g - 0) + (p - 5432) + (m - 3306) + (s - 1433) <= pos - 1
        BY <3>3 DEF PortsDrawn
      <4>4. pos <= 1434
        BY <1>1 DEF Automatic, FewInstances
      <4>5. /\ d = "global" => 0 <= ports[c] /\ ports[c] < g
            /\ d = "POSTGRES" => 5432 <= ports[c] /\ ports[c] < p
            /\ d = "MYSQL" => 3306 <= ports[c] /\ ports[c] < m
            /\ d = "SQLSERVER" => 1433 <= ports[c] /\ ports[c] < s
        BY <2>3, <3>3 DEF newPortConfig
      <4>6. ports[c] \in {g, p, m, s}
        BY <2>2 DEF Counters
      <4> HIDE DEF g, p, m, s
      <4>7. d \in {"global", "POSTGRES", "MYSQL", "SQLSERVER"}
        BY DEF Counters
      <4>8. ports[c] \in Int
        BY <2>2, <3>1
      <4> QED
        BY <1>1, <4>1, <4>2, <4>3, <4>4, <4>5, <4>6, <4>7, <4>8
    <3> QED
      BY <3>2, <3>3
  <2>4. a \notin open
    BY <2>1, <2>3 DEF AddressesChosen, Chosen
  <2> QED
    BY <2>4 DEF InUse, a
<1>5. CASE networkType(conf, Inst) # "tcp"
  <2> DEFINE dir(k) == IF conf.unix # <<>> THEN conf.unix ELSE insts[k].unix
             base(k) == Append(dir(k), Names[k])
  <2>1. \A k \in DOMAIN insts : IsSeq(dir(k)) /\ IsSeq(base(k))
    BY <1>3, AppendIsSeq
  <2>2. \A k \in DOMAIN insts : SocketBase(conf, insts[k], k) = base(k)
    BY DEF SocketBase, Automatic
  <2>3. \A k \in DOMAIN insts :
            /\ UnixAddress(conf, insts[k], k).net = "unix"
            /\ UnixAddress(conf, insts[k], k).path \in {base(k), Append(base(k), PgSocket)}
    BY <2>2 DEF UnixAddress
  <2>4. a = UnixAddress(conf, insts[pos], pos)
    BY <1>2, <1>5 DEF Address
  <2>5. \A k \in DOMAIN insts : k \in DOMAIN Names
    <3>1. DOMAIN Names = 1..Len(Names) /\ Len(Names) \in Nat
      BY StartupAssumption, LenProperties
    <3> QED
      BY <1>1, <3>1 DEF Automatic, NamesApart
  <2> HIDE DEF a, dir, base
  <2>6. ASSUME NEW j \in 1..(pos - 1), UnixAddress(conf, insts[j], j) = UnixAddress(conf, insts[pos], pos)
        PROVE  FALSE
    <3>1. j \in DOMAIN insts /\ pos \in DOMAIN insts /\ j # pos
      BY <1>1
    <3>2. Names[j] # Names[pos] /\ Names[j] # PgSocket /\ Names[pos] # PgSocket
      BY <2>5, <3>1 DEF Automatic, NamesApart
    <3>3. /\ IsSeq(dir(j)) /\ IsSeq(base(j)) /\ IsSeq(dir(pos)) /\ IsSeq(base(pos))
      BY <2>1, <3>1
    <3>4. base(j) # base(pos)
      BY <3>2, <3>3, AppendApart DEF base
    <3>5. base(j) # Append(base(pos), PgSocket) /\ base(pos) # Append(base(j), PgSocket)
      BY <3>2, <3>3, AppendApart DEF base
    <3>6. Append(base(j), PgSocket) # Append(base(pos), PgSocket)
      <4> SUFFICES ASSUME Append(base(j), PgSocket) = Append(base(pos), PgSocket) PROVE FALSE
        OBVIOUS
      <4>1. base(j) = base(pos)
        <5> HIDE DEF base
        <5> QED
          BY <3>3, AppendApart
      <4> QED
        BY <3>4, <4>1
    <3> QED
      BY <2>3, <2>6, <3>1, <3>4, <3>5, <3>6
  <2>7. a \notin open
    BY <1>1, <2>3, <2>4, <2>6 DEF AddressesChosen, Chosen
  <2> QED
    BY <2>7 DEF InUse, a
<1> QED
  BY <1>4, <1>5

\* A port that the proxy draws moves one counter on by one.
LEMMA DrawOne ==
    ASSUME PortsDrawn, conf.port \in Int, pos \in Nat, NEW c \in Counters, conf.port # 0 => c = "global",
           ports' = Draw(c), conf' = conf, pos' = pos + 1
    PROVE  PortsDrawn' /\ ports'[c] = ports[c] + 1 /\ \A d \in Counters \ {c} : ports'[d] = ports[d]
<1>1. ports \in [Counters -> Int] /\ ports' = [ports EXCEPT ![c] = @ + 1]
  BY DEF PortsDrawn, Draw, Counters
<1>2. ports' \in [Counters -> Int] /\ ports'[c] = ports[c] + 1 /\ \A d \in Counters \ {c} : ports'[d] = ports[d]
  BY <1>1
<1>3. \A d \in Counters : newPortConfig(conf.port)[d] \in Int
  BY DEF newPortConfig, Counters
<1>4. \A d \in Counters : newPortConfig(conf'.port)[d] <= ports'[d]
  BY <1>1, <1>2, <1>3 DEF PortsDrawn
<1>5. conf'.port # 0 => \A d \in Counters \ {"global"} : ports'[d] = newPortConfig(0)[d]
  BY <1>2 DEF PortsDrawn
<1>6. (ports'["global"] - conf'.port) + (ports'["POSTGRES"] - 5432) + (ports'["MYSQL"] - 3306)
          + (ports'["SQLSERVER"] - 1433) <= pos' - 1
  <2> DEFINE g == ports["global"]
             p == ports["POSTGRES"]
             m == ports["MYSQL"]
             s == ports["SQLSERVER"]
  <2>1. g \in Int /\ p \in Int /\ m \in Int /\ s \in Int
    BY <1>1 DEF Counters
  <2>2. (g - conf.port) + (p - 5432) + (m - 3306) + (s - 1433) <= pos - 1
    BY DEF PortsDrawn
  <2>3. CASE c = "global"
    <3>1. ports'["global"] = g + 1 /\ ports'["POSTGRES"] = p /\ ports'["MYSQL"] = m /\ ports'["SQLSERVER"] = s
      BY <1>2, <2>3 DEF Counters
    <3> QED
      BY <2>1, <2>2, <3>1
  <2>4. CASE c = "POSTGRES"
    <3>1. ports'["global"] = g /\ ports'["POSTGRES"] = p + 1 /\ ports'["MYSQL"] = m /\ ports'["SQLSERVER"] = s
      BY <1>2, <2>4 DEF Counters
    <3> QED
      BY <2>1, <2>2, <3>1
  <2>5. CASE c = "MYSQL"
    <3>1. ports'["global"] = g /\ ports'["POSTGRES"] = p /\ ports'["MYSQL"] = m + 1 /\ ports'["SQLSERVER"] = s
      BY <1>2, <2>5 DEF Counters
    <3> QED
      BY <2>1, <2>2, <3>1
  <2>6. CASE c = "SQLSERVER"
    <3>1. ports'["global"] = g /\ ports'["POSTGRES"] = p /\ ports'["MYSQL"] = m /\ ports'["SQLSERVER"] = s + 1
      BY <1>2, <2>6 DEF Counters
    <3> QED
      BY <2>1, <2>2, <3>1
  <2> QED
    BY <2>3, <2>4, <2>5, <2>6 DEF Counters
<1> QED
  BY <1>2, <1>4, <1>5, <1>6 DEF PortsDrawn

\* Going on to the next instance, with or without a port drawn, keeps what is
\* known of the ports and of the addresses that were in use.
LEMMA NextInstance ==
    ASSUME StartupInv, ConfigTypes, Automatic, Mounting, PortsDrawn, AddressesChosen,
           pos' = pos + 1, UNCHANGED <<conf, insts>>, ports' = ports \/ Addressed
    PROVE  PortsDrawn' /\ \A a \in open : Chosen(a)'
<1>1. /\ result = "running" /\ pos \in 1..Len(insts) /\ Len(insts) \in Nat /\ pos \in Nat
      /\ DOMAIN insts = 1..Len(insts)
  BY DEF Mounting, StartupInv, Shapes
<1>2. conf.port \in Int
  BY <1>1 DEF ConfigTypes
<1>3. Inst.port = 0
  BY <1>1 DEF Inst, Automatic
<1>4. PortsDrawn' /\ \A c \in Counters : ports[c] \in Int /\ ports'[c] \in Int /\ ports[c] <= ports'[c]
  <2>1. CASE ports' = ports
    <3>1. pos - 1 <= pos' - 1
      BY <1>1
    <3>2. \A c \in Counters : ports[c] \in Int
      BY DEF PortsDrawn
    <3>3. (ports["global"] - conf.port) + (ports["POSTGRES"] - 5432) + (ports["MYSQL"] - 3306)
            + (ports["SQLSERVER"] - 1433) \in Int
      BY <1>2, <3>2 DEF Counters
    <3> QED
      BY <1>1, <2>1, <3>2, <3>3 DEF PortsDrawn
  <2>2. CASE ports' = Draw(Counter(conf, Inst))
    <3>1. Counter(conf, Inst) \in Counters /\ (conf.port # 0 => Counter(conf, Inst) = "global")
      BY <1>3, ChosenCounter
    <3>2. /\ PortsDrawn' /\ ports'[Counter(conf, Inst)] = ports[Counter(conf, Inst)] + 1
          /\ \A d \in Counters \ {Counter(conf, Inst)} : ports'[d] = ports[d]
      BY <1>1, <1>2, <2>2, <3>1, DrawOne
    <3>3. \A d \in Counters : ports[d] \in Int
      BY DEF PortsDrawn
    <3> QED
      BY <3>1, <3>2, <3>3
  <2> QED
    BY <2>1, <2>2 DEF Addressed
<1>5. \A c \in Counters : newPortConfig(conf.port)[c] \in Int
  BY <1>2 DEF newPortConfig, Counters
<1>6. ASSUME NEW a \in open PROVE Chosen(a)'
  <2> SUFFICES \/ /\ a.net = "tcp" /\ a.port \in Int
                  /\ \E c \in Counters : newPortConfig(conf.port)[c] <= a.port /\ a.port < ports'[c]
               \/ \E j \in 1..(pos' - 1) : a.net = "unix" /\ a = UnixAddress(conf, insts[j], j)
    BY DEF Chosen
  <2>1. CASE /\ a.net = "tcp" /\ a.port \in Int
             /\ \E c \in Counters : newPortConfig(conf.port)[c] <= a.port /\ a.port < ports[c]
    BY <1>4, <1>5, <2>1
  <2>2. CASE \E j \in 1..(pos - 1) : a.net = "unix" /\ a = UnixAddress(conf, insts[j], j)
    BY <1>1, <2>2
  <2> QED
    BY <2>1, <2>2 DEF AddressesChosen, Chosen
<1> QED
  BY <1>4, <1>6

\* Nothing is chosen before the configuration is there.
LEMMA InitChosen == Init => ChosenInv
BY DEF Init, ChosenInv, ConfigTypes

\* A failure of an instance that does not come from an address in use.
LEMMA FailChosen ==
    ASSUME StartupInv, ChosenInv, Mounting, NEW why, Fail(why), ports' = ports \/ Addressed,
           Automatic => why # "inuse"
    PROVE  ChosenInv'
<1>1. /\ result = "running" /\ UNCHANGED <<conf, insts>> /\ failure' = why
      /\ \/ pos' = pos + 1 /\ UNCHANGED <<open, result>>
         \/ result' = "error"
  BY DEF Mounting, Fail, given
<1>2. ConfigTypes'
  BY <1>1 DEF ChosenInv, ConfigTypes, IsSeq
<1>3. Automatic' <=> Automatic
  BY <1>1 DEF Automatic, NamesApart, FewInstances
<1>4. ASSUME Automatic, result' = "running" PROVE PortsDrawn' /\ AddressesChosen'
  <2>1. pos' = pos + 1 /\ open' = open
    BY <1>1, <1>4
  <2>2. PortsDrawn' /\ \A a \in open : Chosen(a)'
    BY <1>1, <1>4, <2>1, NextInstance DEF ChosenInv
  <2> QED
    BY <2>1, <2>2 DEF AddressesChosen
<1>5. result' \notin {"load", "dialer"}
  BY <1>1
<1> QED
  BY <1>1, <1>2, <1>3, <1>4, <1>5 DEF ChosenInv

\* A mount takes an address that was free, and that stays known.
LEMMA MountChosen ==
    ASSUME StartupInv, ChosenInv, Mount
    PROVE  ChosenInv'
<1> DEFINE a == Address(conf, Inst, pos)
<1>1. /\ result = "running" /\ UNCHANGED <<conf, insts, failure, result>> /\ pos' = pos + 1
      /\ open' = open \cup {a} /\ Mounting /\ Addressed
  BY DEF Mount, Addressed, Mounting, given
<1>2. ConfigTypes'
  BY <1>1 DEF ChosenInv, ConfigTypes, IsSeq
<1>3. Automatic' <=> Automatic
  BY <1>1 DEF Automatic, NamesApart, FewInstances
<1>4. ASSUME Automatic PROVE PortsDrawn' /\ AddressesChosen'
  <2> USE <1>4
  <2>1. PortsDrawn /\ AddressesChosen /\ ConfigTypes /\ conf.port \in Int
    BY <1>1 DEF ChosenInv, ConfigTypes
  <2>2. PortsDrawn' /\ \A b \in open : Chosen(b)'
    BY <1>1, <2>1, NextInstance
  <2>3. pos \in 1..Len(insts) /\ pos \in Nat /\ DOMAIN insts = 1..Len(insts)
    BY <1>1 DEF Mounting, StartupInv, Shapes
  <2>4. Inst = insts[pos] /\ Inst.port = 0
    BY <2>3 DEF Inst, Automatic
  <2>5. ASSUME NEW b, b = a PROVE Chosen(b)'
    <3>1. CASE networkType(conf, Inst) = "tcp"
      <4> DEFINE c == Counter(conf, Inst)
      <4>1. b.net = "tcp" /\ b.port = ports[c]
        BY <2>4, <2>5, <3>1 DEF Address, TCPAddress
      <4>2. c \in Counters /\ (conf.port # 0 => c = "global")
        BY <2>4, ChosenCounter
      <4>3. ports' = Draw(c)
        BY <1>1, <3>1 DEF Addressed
      <4> HIDE DEF a, c
      <4>4. ports'[c] = ports[c] + 1
        BY <1>1, <2>1, <2>3, <4>2, <4>3, DrawOne
      <4>5. ports[c] \in Int /\ newPortConfig(conf.port)[c] <= ports[c]
        BY <2>1, <4>2 DEF PortsDrawn
      <4>6. newPortConfig(conf.port)[c] <= b.port /\ b.port < ports'[c] /\ b.port \in Int
        BY <4>1, <4>4, <4>5
      <4> QED
        BY <1>1, <4>1, <4>2, <4>6 DEF Chosen
    <3>2. CASE networkType(conf, Inst) # "tcp"
      <4>1. b = UnixAddress(conf, insts[pos], pos)
        BY <2>4, <2>5, <3>2 DEF Address
      <4>2. b.net = "unix"
        BY <4>1 DEF UnixAddress
      <4>3. pos \in 1..(pos' - 1)
        BY <1>1, <2>3
      <4> HIDE DEF a
      <4> QED
        BY <1>1, <4>1, <4>2, <4>3 DEF Chosen
    <3> QED
      BY <3>1, <3>2
  <2> HIDE DEF a
  <2> QED
    BY <1>1, <2>2, <2>5 DEF AddressesChosen
<1> QED
  BY <1>1, <1>2, <1>3, <1>4 DEF ChosenInv

\* Every step keeps the invariant of the chosen addresses.
LEMMA StepChosen == StartupInv /\ ChosenInv /\ [Next]_vars => ChosenInv'
<1> SUFFICES ASSUME StartupInv, ChosenInv, [Next]_vars PROVE ChosenInv'
  OBVIOUS
<1>1. CASE LoadConfig
  <2>1. result = "load" /\ failure' = failure /\ failure # "inuse" /\ result' \in {"dialer", "error"}
    BY <1>1 DEF LoadConfig, ChosenInv
  <2>2. ConfigTypes'
    <3> SUFFICES ASSUME result' = "dialer"
                 PROVE  /\ conf'.port \in Int /\ IsSeq(conf'.unix)
                        /\ \A k \in DOMAIN insts' : IsSeq(insts'[k].unix)
      BY <2>1 DEF ConfigTypes, IsSeq
    <3>1. /\ conf' = loadConfig(input)
          /\ insts' = [k \in DOMAIN instances(input) |-> InstanceConnConfig(instances(input)[k])]
      BY <1>1 DEF LoadConfig
    <3> QED
      BY <3>1, LoadedTypes DEF StartupInv
  <2> QED
    BY <2>1, <2>2 DEF ChosenInv
<1>2. CASE GcloudFails \/ Done
  <2>1. /\ UNCHANGED <<conf, insts>> /\ failure' \in {failure, "gcloud"}
        /\ result' \in {"error", "client"}
    BY <1>2 DEF GcloudFails, Done, given
  <2>2. Automatic' <=> Automatic
    BY <2>1 DEF Automatic, NamesApart, FewInstances
  <2> QED
    BY <2>1, <2>2 DEF ChosenInv, ConfigTypes
<1>3. CASE NewDialer
  <2>1. /\ UNCHANGED <<conf, insts, pos, open, failure>> /\ result = "dialer"
        /\ result' \in {"fuse", "running", "error"} /\ failure # "inuse"
        /\ result' = "running" => ports' = newPortConfig(conf.port)
    BY <1>3 DEF NewDialer, configureFUSE, ChosenInv
  <2>2. ConfigTypes' /\ conf.port \in Int
    BY <2>1 DEF ChosenInv, ConfigTypes, IsSeq
  <2>3. pos = 1 /\ open = {}
    BY <2>1 DEF StartupInv, Fresh
  <2>4. ASSUME result' = "running" PROVE PortsDrawn' /\ AddressesChosen'
    <3>1. AddressesChosen'
      BY <2>1, <2>3 DEF AddressesChosen
    <3>2. ports' = newPortConfig(conf.port)
      BY <2>1, <2>4
    <3>3. PortsDrawn'
      BY <2>1, <2>2, <2>3, <3>2 DEF PortsDrawn, newPortConfig, Counters
    <3> QED
      BY <3>1, <3>3
  <2> QED
    BY <2>1, <2>2, <2>4 DEF ChosenInv
<1>4. CASE EngineFails
  <2>1. Mounting /\ Fail("engine") /\ ports' = ports
    BY <1>4 DEF EngineFails
  <2> QED
    BY <2>1, FailChosen
<1>5. CASE SocketPathFails
  <2>1. Mounting /\ Fail("path") /\ ports' = ports
    BY <1>5 DEF SocketPathFails
  <2> QED
    BY <2>1, FailChosen
<1>6. CASE ListenFails
  <2> DEFINE why == IF InUse(Address(conf, Inst, pos)) THEN "inuse" ELSE "listen"
  <2>1. Mounting /\ Fail(why) /\ Addressed
    BY <1>6 DEF ListenFails, Addressed
  <2>2. Automatic => ~InUse(Address(conf, Inst, pos))
    BY <2>1, NextAddressFree DEF ChosenInv, Mounting
  <2>3. Automatic => why # "inuse"
    BY <2>2
  <2> HIDE DEF why
  <2> QED
    BY <2>1, <2>3, FailChosen
<1>7. CASE Mount
  BY <1>7, MountChosen
<1>8. CASE UNCHANGED vars
  BY <1>8 DEF vars, given, ChosenInv, ConfigTypes, IsSeq, Automatic, NamesApart, FewInstances,
     PortsDrawn, AddressesChosen, Chosen
<1> QED
  BY <1>1, <1>2, <1>3, <1>4, <1>5, <1>6, <1>7, <1>8 DEF Next

\* Up to 1434 instances whose names differ, Listen meets an address of this
\* process only if the configuration names a port or the path of a socket: the
\* addresses that portConfig and newUnixSocketMount choose are all different.
THEOREM NoConflict == Spec => [](NamesApart /\ FewInstances => NoSelfConflict)
<1>1. Spec => []ChosenInv
  BY InitChosen, StepChosen, StartupInvariance, PTL DEF Spec
<1>2. ChosenInv => (NamesApart /\ FewInstances => NoSelfConflict)
  BY DEF ChosenInv, Automatic, NoSelfConflict
<1> QED
  BY <1>1, <1>2, PTL
============================================================================
