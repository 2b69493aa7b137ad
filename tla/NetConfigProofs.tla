-------------------------- MODULE NetConfigProofs --------------------------
(***************************************************************************)
(* Proofs about module NetConfig, for any number of processes and device   *)
(* names: the types, NothingLeft, UndoIsWhatWasDone and OthersKept.        *)
(*                                                                         *)
(* The argument: a device with a process's name on it is that process's,   *)
(* which is past its creation and before its close (Devices); what Apply   *)
(* found is a device that is there, and only such a device has settings    *)
(* (Found); what is on the undo stack follows from where the process       *)
(* stands (Stacked); and the host route is withdrawn by the process that   *)
(* added it, on the way out (Routed).                                      *)
(***************************************************************************)
EXTENDS NetConfig, SequenceTheorems, TLAPS

Owning == {"apply", "addr", "up", "route", "host", "running", "rollback",
           "hostback", "close"}

Devices ==
    \A n \in Names : link[n] \in Procs => Name(link[n]) = n /\ pc[link[n]] \in Owning

Found ==
    /\ \A p \in Procs : at[p] # "none" => Present(at[p])
    /\ \A p \in Procs : conf[p] # {} => Present(p)
    /\ \A p \in Procs : pc[p] = "killed" => at[p] = "none"

\* The undo stacks: with or without an address, and a route.
Stacks == {<<>>, <<"addr">>, <<"up">>, <<"addr", "up">>, <<"up", "route">>,
           <<"addr", "up", "route">>}

StacksAt(place) ==
    CASE place = "up"                     -> {<<>>, <<"addr">>}
      [] place = "route"                  -> {<<"up">>, <<"addr", "up">>}
      [] place \in {"host", "running"}    -> Stacks \ {<<>>, <<"addr">>}
      [] place \in {"rollback", "killed"} -> Stacks
      [] OTHER                            -> {<<>>}

Stacked ==
    /\ undo \in [Procs -> Stacks]
    /\ \A p \in Procs : undo[p] \in StacksAt(pc[p])

Routed == \A p \in Procs : relay = p => pc[p] \in {"running", "rollback", "hostback"}

\* The types but for the undo stacks.
Kinds ==
    /\ opt \in [Procs -> Options]
    /\ pc \in [Procs -> PCs]
    /\ link \in [Names -> Procs \union {"none", "leftover", "foreign"}]
    /\ conf \in [Procs -> SUBSET (Settings \X (Procs \union {"orphan"}))]
    /\ at \in [Procs -> Procs \union {"none"}]
    /\ ran \subseteq Procs
    /\ relay \in Procs \union {"none", "foreign", "orphan"}

Inv == Kinds /\ Devices /\ Found /\ Stacked /\ Routed /\ UndoIsWhatWasDone

-----------------------------------------------------------------------------
(***************************************************************************)
(* The stacks.                                                             *)
(***************************************************************************)
\* Every stack is short, and of settings.
LEMMA StackTyped ==
  ASSUME NEW u \in Stacks
  PROVE  u \in UNION {[1 .. n -> Settings] : n \in 0 .. 3}
  <1> SUFFICES \E n \in 0 .. 3 : u \in [1 .. n -> Settings]
    OBVIOUS
  <1>1. CASE u = <<>>
    <2>1. u \in [1 .. 0 -> Settings]
      BY <1>1
    <2>2. QED
      BY <2>1
  <1>2. CASE u \in {<<"addr">>, <<"up">>}
    <2>1. u \in [1 .. 1 -> Settings]
      BY <1>2 DEF Settings
    <2>2. QED
      BY <2>1
  <1>3. CASE u \in {<<"addr", "up">>, <<"up", "route">>}
    <2>1. u \in [1 .. 2 -> Settings]
      BY <1>3 DEF Settings
    <2>2. QED
      BY <2>1
  <1>4. CASE u = <<"addr", "up", "route">>
    <2>1. u \in [1 .. 3 -> Settings]
      BY <1>4 DEF Settings
    <2>2. QED
      BY <2>1
  <1>5. QED
    BY <1>1, <1>2, <1>3, <1>4 DEF Stacks

\* What is on a stack is a setting.
LEMMA StackSettings ==
  ASSUME NEW u \in Stacks
  PROVE  ToSet(u) \subseteq Settings
  BY DEF Stacks, Settings, ToSet

\* What pushing one more setting makes of a stack.
LEMMA PushStack ==
  ASSUME NEW u \in Stacks, NEW s \in Settings
  PROVE  ToSet(Append(u, s)) = ToSet(u) \union {s}
  BY DEF Stacks, Settings, ToSet

\* Front and Last undo Append.
LEMMA FrontOfAppend ==
  ASSUME NEW S, NEW v \in Seq(S), NEW x \in S
  PROVE  Front(Append(v, x)) = v /\ Last(Append(v, x)) = x
  <1> DEFINE w == Append(v, x)
  <1>1. /\ Len(w) = Len(v) + 1
        /\ \A i \in 1 .. Len(v) : w[i] = v[i]
        /\ w[Len(v) + 1] = x
    BY AppendProperties
  <1>2. Len(v) \in Nat /\ \A i \in 1 .. Len(v) : v[i] \in S
    BY ElementOfSeq, LenProperties
  <1> HIDE DEF w
  <1>3. /\ SubSeq(w, 1, Len(v)) \in Seq(S)
        /\ Len(SubSeq(w, 1, Len(v))) = Len(v)
        /\ \A i \in 1 .. Len(v) : SubSeq(w, 1, Len(v))[i] = v[i]
    <2>1. \A i \in 1 .. Len(v) : w[i] \in S
      BY <1>1, <1>2
    <2>2. /\ SubSeq(w, 1, Len(v)) \in Seq(S)
          /\ Len(SubSeq(w, 1, Len(v))) = IF 1 <= Len(v) THEN Len(v) - 1 + 1 ELSE 0
          /\ \A i \in 1 .. Len(v) - 1 + 1 : SubSeq(w, 1, Len(v))[i] = w[1 + i - 1]
      BY <1>2, <2>1, SubSeqProperties, 1 \in Int, Len(v) \in Int
    <2>3. QED
      BY <1>1, <1>2, <2>2
  <1>4. SubSeq(w, 1, Len(v)) = v
    BY <1>3, SeqEqual
  <1>5. Front(w) = v /\ Last(w) = x
    BY <1>1, <1>2, <1>4 DEF Front, Last
  <1>6. QED
    BY <1>5 DEF w

\* What popping the latest setting leaves of a stack: under "up" there is the
\* address, if anything.
LEMMA PopStack ==
  ASSUME NEW u \in Stacks, u # <<>>
  PROVE  /\ Front(u) \in Stacks
         /\ Last(u) \in Settings
         /\ ToSet(u) = ToSet(Front(u)) \union {Last(u)}
         /\ Last(u) \notin ToSet(Front(u))
         /\ Last(u) = "up" => ToSet(Front(u)) \subseteq {"addr"}
  <1>1. CASE u = <<"addr">>
    <2>1. Front(u) = <<>> /\ Last(u) = "addr"
      <3>1. u = Append(<<>>, "addr")
        BY <1>1
      <3>2. <<>> \in Seq(Settings) /\ "addr" \in Settings
        BY DEF Settings
      <3>3. QED
        BY <3>1, <3>2, FrontOfAppend
    <2>2. QED
      BY <1>1, <2>1 DEF Stacks, Settings, ToSet
  <1>2. CASE u = <<"up">>
    <2>1. Front(u) = <<>> /\ Last(u) = "up"
      <3>1. u = Append(<<>>, "up")
        BY <1>2
      <3>2. <<>> \in Seq(Settings) /\ "up" \in Settings
        BY DEF Settings
      <3>3. QED
        BY <3>1, <3>2, FrontOfAppend
    <2>2. QED
      BY <1>2, <2>1 DEF Stacks, Settings, ToSet
  <1>3. CASE u = <<"addr", "up">>
    <2>1. Front(u) = <<"addr">> /\ Last(u) = "up"
      <3>1. u = Append(<<"addr">>, "up")
        BY <1>3
      <3>2. <<"addr">> \in Seq(Settings) /\ "up" \in Settings
        BY DEF Settings
      <3>3. QED
        BY <3>1, <3>2, FrontOfAppend
    <2>2. QED
      BY <1>3, <2>1 DEF Stacks, Settings, ToSet
  <1>4. CASE u = <<"up", "route">>
    <2>1. Front(u) = <<"up">> /\ Last(u) = "route"
      <3>1. u = Append(<<"up">>, "route")
        BY <1>4
      <3>2. <<"up">> \in Seq(Settings) /\ "route" \in Settings
        BY DEF Settings
      <3>3. QED
        BY <3>1, <3>2, FrontOfAppend
    <2>2. QED
      BY <1>4, <2>1 DEF Stacks, Settings, ToSet
  <1>5. CASE u = <<"addr", "up", "route">>
    <2>1. Front(u) = <<"addr", "up">> /\ Last(u) = "route"
      <3>1. u = Append(<<"addr", "up">>, "route")
        BY <1>5
      <3>2. <<"addr", "up">> \in Seq(Settings) /\ "route" \in Settings
        BY DEF Settings
      <3>3. QED
        BY <3>1, <3>2, FrontOfAppend
    <2>2. QED
      BY <1>5, <2>1 DEF Stacks, Settings, ToSet
  <1>6. QED
    BY <1>1, <1>2, <1>3, <1>4, <1>5 DEF Stacks

\* Where each of Apply's calls takes the stacks it may find.
LEMMA ApplyStacks ==
  /\ \A u \in StacksAt("addr") : Append(u, "addr") \in StacksAt("up") \intersect Stacks
  /\ \A u \in StacksAt("up") : Append(u, "up") \in StacksAt("route") \intersect Stacks
  /\ \A u \in StacksAt("route") : Append(u, "route") \in StacksAt("host") \intersect Stacks
  /\ StacksAt("route") \subseteq StacksAt("host")
  <1>1. /\ StacksAt("addr") = {<<>>}
        /\ StacksAt("up") = {<<>>, <<"addr">>}
        /\ StacksAt("route") = {<<"up">>, <<"addr", "up">>}
        /\ StacksAt("host") = Stacks \ {<<>>, <<"addr">>}
    BY DEF StacksAt
  <1>2. /\ Append(<<>>, "addr") = <<"addr">>
        /\ Append(<<>>, "up") = <<"up">>
        /\ Append(<<"addr">>, "up") = <<"addr", "up">>
        /\ Append(<<"up">>, "route") = <<"up", "route">>
        /\ Append(<<"addr", "up">>, "route") = <<"addr", "up", "route">>
    <2>1. <<"addr">> = Append(<<>>, "addr")
      OBVIOUS
    <2>2. <<"up">> = Append(<<>>, "up")
      OBVIOUS
    <2>3. <<"addr", "up">> = Append(<<"addr">>, "up")
      OBVIOUS
    <2>4. <<"up", "route">> = Append(<<"up">>, "route")
      OBVIOUS
    <2>5. <<"addr", "up", "route">> = Append(<<"addr", "up">>, "route")
      OBVIOUS
    <2>6. QED
      BY <2>1, <2>2, <2>3, <2>4, <2>5
  <1>3. /\ <<"up">> \notin {<<>>, <<"addr">>}
        /\ <<"addr", "up">> \notin {<<>>, <<"addr">>}
        /\ <<"up", "route">> \notin {<<>>, <<"addr">>}
        /\ <<"addr", "up", "route">> \notin {<<>>, <<"addr">>}
    <2>1. Len(<<>>) = 0 /\ Len(<<"addr">>) = 1 /\ Len(<<"up">>) = 1
      OBVIOUS
    <2>2. Len(<<"addr", "up">>) = 2 /\ Len(<<"up", "route">>) = 2
      OBVIOUS
    <2>3. Len(<<"addr", "up", "route">>) = 3
      OBVIOUS
    <2>4. <<"up">>[1] # <<"addr">>[1]
      OBVIOUS
    <2>5. QED
      BY <2>1, <2>2, <2>3, <2>4
  <1>4. QED
    BY <1>1, <1>2, <1>3 DEF Stacks

\* A step of Apply takes the stack along: what it pushed belongs where it
\* goes, and a rollback takes any stack.
LEMMA StepStacks ==
  ASSUME Stacked, pc \in [Procs -> PCs], NEW p \in Procs, NEW s, NEW next \in PCs,
         \A u \in StacksAt(s) : Append(u, s) \in StacksAt(next) \intersect Stacks,
         Step(p, s, next)
  PROVE  Stacked'
  <1>1. PICK done \in BOOLEAN :
           /\ undo' = IF done THEN [undo EXCEPT ![p] = Append(@, s)] ELSE undo
           /\ pc' = [pc EXCEPT ![p] = IF done THEN next ELSE "rollback"]
    BY DEF Step, Push, Goes
  <1>2. pc[p] = s
    BY DEF Step
  <1>3. undo \in [Procs -> Stacks] /\ \A q \in Procs : undo[q] \in StacksAt(pc[q])
    BY DEF Stacked
  <1>4. CASE done
    <2>1. Append(undo[p], s) \in StacksAt(next) \intersect Stacks
      BY <1>2, <1>3
    <2>2. undo' \in [Procs -> Stacks]
      BY <1>1, <1>3, <1>4, <2>1
    <2>3. \A q \in Procs : undo'[q] \in StacksAt(pc'[q])
      BY <1>1, <1>3, <1>4, <2>1
    <2>4. QED
      BY <2>2, <2>3 DEF Stacked
  <1>5. CASE ~done
    <2>1. StacksAt("rollback") = Stacks
      BY DEF StacksAt
    <2>2. \A q \in Procs : undo'[q] \in StacksAt(pc'[q])
      BY <1>1, <1>3, <1>5, <2>1
    <2>3. QED
      BY <1>1, <1>3, <1>5, <2>2 DEF Stacked
  <1>6. QED
    BY <1>4, <1>5

LEMMA KindsInv ==
  ASSUME Inv, [Next]_vars
  PROVE  Kinds'
  <1> USE OptionsAssumption, ProcsAssumption DEF Inv, Kinds, PCs, Nobody,
          Settings
  <1>1. ASSUME NEW p \in Procs, Check(p) PROVE Kinds'
    BY <1>1 DEF Check, Goes
  <1>2. ASSUME NEW p \in Procs, DeleteTun(p) PROVE Kinds'
    BY SMTT(30), <1>2 DEF DeleteTun, Goes, Vanish, IsTun, Name
  <1>3. ASSUME NEW p \in Procs, Create(p) PROVE Kinds'
    <2>1. link' \in [Names -> Procs \union {"none", "leftover", "foreign"}] /\ pc' \in [Procs -> PCs]
      BY <1>3 DEF Create, Goes, Name
    <2>2. QED
      BY <1>3, <2>1 DEF Create
  <1>4. ASSUME NEW p \in Procs, NoCall(p) PROVE Kinds'
    BY <1>4 DEF NoCall, Goes
  <1>5. ASSUME NEW p \in Procs, FindLink(p) PROVE Kinds'
    BY <1>5 DEF FindLink, Goes, Name
  <1>6. ASSUME NEW p \in Procs, Apply(p) PROVE Kinds'
    BY SMTT(30), <1>6 DEF Apply, Step, Skip, Asked, Goes, Push, IsSet, Name
  <1>7. ASSUME NEW p \in Procs, EnsureHostRoute(p) PROVE Kinds'
    BY <1>7 DEF EnsureHostRoute, Goes, Reachable
  <1>8. ASSUME NEW p \in Procs, EndSession(p) PROVE Kinds'
    BY <1>8 DEF EndSession, Goes
  <1>9. ASSUME NEW p \in Procs, ForwarderCloses(p) PROVE Kinds'
    BY <1>9 DEF ForwarderCloses, Vanish, Present, Name
  <1>10. ASSUME NEW p \in Procs, RollbackStep(p) PROVE Kinds'
    <2>1. UNCHANGED <<opt, pc, link, at, ran, relay>>
      BY <1>10 DEF RollbackStep
    <2>2. CASE at[p] = "none"
      BY <1>10, <2>1, <2>2 DEF RollbackStep
    <2>3. CASE at[p] # "none"
      <3>1. at[p] \in Procs
        BY <2>3
      <3>2. Withdrawn(Last(undo[p]), conf[at[p]], p) \subseteq conf[at[p]]
        BY DEF Withdrawn
      <3>3. conf' = [conf EXCEPT ![at[p]] = Withdrawn(Last(undo[p]), conf[at[p]], p)]
        BY <1>10, <2>3 DEF RollbackStep
      <3>4. conf' \in [Procs -> SUBSET (Settings \X (Procs \union {"orphan"}))]
        BY <3>1, <3>2, <3>3
      <3>5. QED
        BY <2>1, <3>4
    <2>4. QED
      BY <2>2, <2>3
  <1>11. ASSUME NEW p \in Procs, RollbackEnds(p) PROVE Kinds'
    BY <1>11 DEF RollbackEnds, Goes
  <1>12. ASSUME NEW p \in Procs, RollbackHostRoute(p) PROVE Kinds'
    BY <1>12 DEF RollbackHostRoute, RouteDel, Goes
  <1>13. ASSUME NEW p \in Procs, Close(p) PROVE Kinds'
    <2>1. CASE Present(p)
      <3>1. link' = [link EXCEPT ![Name(p)] = "none"]
        BY <1>13, <2>1 DEF Close, Vanish
      <3>2. /\ conf' = [q \in Procs |-> IF link[Name(p)] = q THEN {} ELSE conf[q]]
            /\ at' = [q \in Procs |-> IF at[q] = link[Name(p)] THEN "none" ELSE at[q]]
        BY <1>13, <2>1 DEF Close, Vanish
      <3>3. UNCHANGED <<opt, ran, relay>> /\ pc' \in [Procs -> PCs]
        BY <1>13 DEF Close, Goes
      <3>4. link' \in [Names -> Procs \union {"none", "leftover", "foreign"}]
        BY <3>1
      <3>5. /\ conf' \in [Procs -> SUBSET (Settings \X (Procs \union {"orphan"}))]
            /\ at' \in [Procs -> Procs \union {"none"}]
        BY <3>2
      <3>6. QED
        BY <3>3, <3>4, <3>5
    <2>2. CASE ~Present(p)
      BY <1>13, <2>2 DEF Close, Goes
    <2>3. QED
      BY <2>1, <2>2
  <1>14. ASSUME NEW p \in Procs, Kill(p) PROVE Kinds'
    BY <1>14 DEF Kill, Goes, Name, Orphaned
  <1>15. ASSUME NEW p \in Procs, Restart(p) PROVE Kinds'
    BY <1>15 DEF Restart, Goes
  <1>16. CASE UNCHANGED vars
    BY <1>16 DEF vars
  <1>17. QED
    BY <1>1, <1>2, <1>3, <1>4, <1>5, <1>6, <1>7, <1>8, <1>9, <1>10, <1>11,
       <1>12, <1>13, <1>14, <1>15, <1>16 DEF Next

LEMMA DevicesInv ==
  ASSUME Inv, [Next]_vars
  PROVE  Devices'
  <1> USE OptionsAssumption, ProcsAssumption DEF Inv, Kinds, Devices, Name,
          Nobody, Owning
  <1>1. ASSUME NEW p \in Procs, Check(p) PROVE Devices'
    BY <1>1 DEF Check, Goes
  <1>2. ASSUME NEW p \in Procs, DeleteTun(p) PROVE Devices'
    BY <1>2 DEF DeleteTun, Goes, Vanish, IsTun, Name
  <1>3. ASSUME NEW p \in Procs, Create(p) PROVE Devices'
    BY <1>3 DEF Create, Goes, Name
  <1>4. ASSUME NEW p \in Procs, NoCall(p) PROVE Devices'
    BY <1>4 DEF NoCall, Goes
  <1>5. ASSUME NEW p \in Procs, FindLink(p) PROVE Devices'
    BY <1>5 DEF FindLink, Goes, Name
  <1>6. ASSUME NEW p \in Procs, Apply(p) PROVE Devices'
    BY <1>6 DEF Apply, Step, Skip, Asked, Goes, Push, IsSet, Name
  <1>7. ASSUME NEW p \in Procs, EnsureHostRoute(p) PROVE Devices'
    BY <1>7 DEF EnsureHostRoute, Goes, Reachable
  <1>8. ASSUME NEW p \in Procs, EndSession(p) PROVE Devices'
    BY <1>8 DEF EndSession, Goes
  <1>9. ASSUME NEW p \in Procs, ForwarderCloses(p) PROVE Devices'
    BY <1>9 DEF ForwarderCloses, Vanish, Present, Name
  <1>10. ASSUME NEW p \in Procs, RollbackStep(p) PROVE Devices'
    BY <1>10 DEF RollbackStep, Pop
  <1>11. ASSUME NEW p \in Procs, RollbackEnds(p) PROVE Devices'
    BY <1>11 DEF RollbackEnds, Goes
  <1>12. ASSUME NEW p \in Procs, RollbackHostRoute(p) PROVE Devices'
    BY <1>12 DEF RollbackHostRoute, RouteDel, Goes
  <1>13. ASSUME NEW p \in Procs, Close(p) PROVE Devices'
    BY <1>13 DEF Close, Goes, Vanish, Present, Name
  <1>14. ASSUME NEW p \in Procs, Kill(p) PROVE Devices'
    BY <1>14 DEF Kill, Goes, Name, Orphaned
  <1>15. ASSUME NEW p \in Procs, Restart(p) PROVE Devices'
    BY <1>15 DEF Restart, Goes
  <1>16. CASE UNCHANGED vars
    BY <1>16 DEF vars
  <1>17. QED
    BY <1>1, <1>2, <1>3, <1>4, <1>5, <1>6, <1>7, <1>8, <1>9, <1>10, <1>11,
       <1>12, <1>13, <1>14, <1>15, <1>16 DEF Next

LEMMA StackedInv ==
  ASSUME Inv, [Next]_vars
  PROVE  Stacked'
  <1> USE OptionsAssumption, ProcsAssumption DEF Inv, Kinds, PCs, Stacked,
          StacksAt, Stacks
  <1>1. ASSUME NEW p \in Procs, Check(p) PROVE Stacked'
    BY <1>1 DEF Check, Goes
  <1>2. ASSUME NEW p \in Procs, DeleteTun(p) PROVE Stacked'
    <2>1. UNCHANGED undo /\ undo[p] = <<>>
      BY <1>2 DEF DeleteTun
    <2>2. \E there \in {"create", "gone"} : pc' = [pc EXCEPT ![p] = there]
      BY <1>2 DEF DeleteTun, Goes
    <2>3. QED
      BY <2>1, <2>2
  <1>3. ASSUME NEW p \in Procs, Create(p) PROVE Stacked'
    BY <1>3 DEF Create, Goes, Name
  <1>4. ASSUME NEW p \in Procs, NoCall(p) PROVE Stacked'
    BY <1>4 DEF NoCall, Goes
  <1>5. ASSUME NEW p \in Procs, FindLink(p) PROVE Stacked'
    BY <1>5 DEF FindLink, Goes, Name
  <1>6. ASSUME NEW p \in Procs, Apply(p) PROVE Stacked'
    <2>1. CASE Step(p, "addr", "up")
      BY <2>1, ApplyStacks, StepStacks DEF Inv, Kinds, PCs
    <2>2. CASE Step(p, "up", "route")
      BY <2>2, ApplyStacks, StepStacks DEF Inv, Kinds, PCs
    <2>3. CASE Step(p, "route", "host")
      BY <2>3, ApplyStacks, StepStacks DEF Inv, Kinds, PCs
    <2>4. CASE Skip(p, "addr", "up")
      BY <2>4 DEF Skip, Goes
    <2>5. CASE Skip(p, "route", "host")
      <3>1. pc' = [pc EXCEPT ![p] = "host"] /\ pc[p] = "route" /\ UNCHANGED undo
        BY <2>5 DEF Skip, Goes
      <3>2. undo[p] \in StacksAt("host")
        BY <3>1, ApplyStacks
      <3>3. QED
        BY <3>1, <3>2
    <2>6. QED
      BY <1>6, <2>1, <2>2, <2>3, <2>4, <2>5 DEF Apply
  <1>7. ASSUME NEW p \in Procs, EnsureHostRoute(p) PROVE Stacked'
    BY <1>7 DEF EnsureHostRoute, Goes, Reachable
  <1>8. ASSUME NEW p \in Procs, EndSession(p) PROVE Stacked'
    BY <1>8 DEF EndSession, Goes
  <1>9. ASSUME NEW p \in Procs, ForwarderCloses(p) PROVE Stacked'
    BY <1>9 DEF ForwarderCloses, Vanish, Present, Name
  <1>10. ASSUME NEW p \in Procs, RollbackStep(p) PROVE Stacked'
    <2>1. undo' = [undo EXCEPT ![p] = Front(undo[p])] /\ pc[p] = "rollback" /\ UNCHANGED pc
      BY <1>10 DEF RollbackStep, Pop
    <2>2. undo[p] \in Stacks /\ undo[p] # <<>>
      BY <1>10 DEF RollbackStep
    <2>3. Front(undo[p]) \in Stacks
      BY <2>2, PopStack
    <2> HIDE DEF Stacks
    <2>4. undo' \in [Procs -> Stacks]
      BY <2>1, <2>3
    <2>5. \A q \in Procs : undo'[q] \in StacksAt(pc'[q])
      BY <2>1, <2>3
    <2>6. QED
      BY <2>4, <2>5
  <1>11. ASSUME NEW p \in Procs, RollbackEnds(p) PROVE Stacked'
    BY <1>11 DEF RollbackEnds, Goes
  <1>12. ASSUME NEW p \in Procs, RollbackHostRoute(p) PROVE Stacked'
    BY <1>12 DEF RollbackHostRoute, RouteDel, Goes
  <1>13. ASSUME NEW p \in Procs, Close(p) PROVE Stacked'
    BY <1>13 DEF Close, Goes, Vanish, Present, Name
  <1>14. ASSUME NEW p \in Procs, Kill(p) PROVE Stacked'
    BY <1>14 DEF Kill, Goes, Name, Orphaned
  <1>15. ASSUME NEW p \in Procs, Restart(p) PROVE Stacked'
    BY <1>15 DEF Restart, Goes
  <1>16. CASE UNCHANGED vars
    BY <1>16 DEF vars
  <1>17. QED
    BY <1>1, <1>2, <1>3, <1>4, <1>5, <1>6, <1>7, <1>8, <1>9, <1>10, <1>11,
       <1>12, <1>13, <1>14, <1>15, <1>16 DEF Next

LEMMA RoutedInv ==
  ASSUME Inv, [Next]_vars
  PROVE  Routed'
  <1> USE OptionsAssumption, ProcsAssumption DEF Inv, Kinds, Routed, PCs,
          Nobody
  <1>1. ASSUME NEW p \in Procs, Check(p) PROVE Routed'
    BY <1>1 DEF Check, Goes
  <1>2. ASSUME NEW p \in Procs, DeleteTun(p) PROVE Routed'
    BY <1>2 DEF DeleteTun, Goes, Vanish, IsTun, Name
  <1>3. ASSUME NEW p \in Procs, Create(p) PROVE Routed'
    BY <1>3 DEF Create, Goes, Name
  <1>4. ASSUME NEW p \in Procs, NoCall(p) PROVE Routed'
    BY <1>4 DEF NoCall, Goes
  <1>5. ASSUME NEW p \in Procs, FindLink(p) PROVE Routed'
    BY <1>5 DEF FindLink, Goes, Name
  <1>6. ASSUME NEW p \in Procs, Apply(p) PROVE Routed'
    BY <1>6 DEF Apply, Step, Skip, Asked, Goes, Push, IsSet, Name
  <1>7. ASSUME NEW p \in Procs, EnsureHostRoute(p) PROVE Routed'
    BY <1>7 DEF EnsureHostRoute, Goes, Reachable
  <1>8. ASSUME NEW p \in Procs, EndSession(p) PROVE Routed'
    BY <1>8 DEF EndSession, Goes
  <1>9. ASSUME NEW p \in Procs, ForwarderCloses(p) PROVE Routed'
    BY <1>9 DEF ForwarderCloses, Vanish, Present, Name
  <1>10. ASSUME NEW p \in Procs, RollbackStep(p) PROVE Routed'
    BY <1>10 DEF RollbackStep, Pop
  <1>11. ASSUME NEW p \in Procs, RollbackEnds(p) PROVE Routed'
    BY <1>11 DEF RollbackEnds, Goes
  <1>12. ASSUME NEW p \in Procs, RollbackHostRoute(p) PROVE Routed'
    BY <1>12 DEF RollbackHostRoute, RouteDel, Goes
  <1>13. ASSUME NEW p \in Procs, Close(p) PROVE Routed'
    BY <1>13 DEF Close, Goes, Vanish, Present, Name
  <1>14. ASSUME NEW p \in Procs, Kill(p) PROVE Routed'
    BY <1>14 DEF Kill, Goes, Name, Orphaned
  <1>15. ASSUME NEW p \in Procs, Restart(p) PROVE Routed'
    BY <1>15 DEF Restart, Goes
  <1>16. CASE UNCHANGED vars
    BY <1>16 DEF vars
  <1>17. QED
    BY <1>1, <1>2, <1>3, <1>4, <1>5, <1>6, <1>7, <1>8, <1>9, <1>10, <1>11,
       <1>12, <1>13, <1>14, <1>15, <1>16 DEF Next

LEMMA FoundInv ==
  ASSUME Inv, [Next]_vars
  PROVE  Found'
  <1> USE OptionsAssumption, ProcsAssumption DEF Inv, Kinds, Devices, Found,
          Present, Name, Nobody, Owning
  <1>1. ASSUME NEW p \in Procs, Check(p) PROVE Found'
    BY <1>1 DEF Check, Goes
  <1>2. ASSUME NEW p \in Procs, DeleteTun(p) PROVE Found'
    BY <1>2 DEF DeleteTun, Goes, Vanish, IsTun, Name
  <1>3. ASSUME NEW p \in Procs, Create(p) PROVE Found'
    BY <1>3 DEF Create, Goes, Name
  <1>4. ASSUME NEW p \in Procs, NoCall(p) PROVE Found'
    BY <1>4 DEF NoCall, Goes
  <1>5. ASSUME NEW p \in Procs, FindLink(p) PROVE Found'
    <2>1. CASE link[Name(p)] \in Procs
      <3>1. at' = [at EXCEPT ![p] = link[Name(p)]] /\ UNCHANGED <<opt, link, conf>>
        BY <1>5, <2>1 DEF FindLink
      <3>2. Present(link[Name(p)])
        BY <2>1
      <3>3. \A q \in Procs : pc'[q] = "killed" => q # p /\ pc[q] = "killed"
        BY <1>5 DEF FindLink, Goes
      <3>4. \A q \in Procs : at'[q] = IF q = p THEN link[Name(p)] ELSE at[q]
        BY <3>1
      <3>5. (\A q \in Procs : at[q] # "none" => Present(at[q]))'
        BY <3>1, <3>2, <3>4
      <3>6. (\A q \in Procs : conf[q] # {} => Present(q))'
        BY <3>1
      <3>7. (\A q \in Procs : pc[q] = "killed" => at[q] = "none")'
        BY <3>3, <3>4
      <3>8. QED
        BY <3>5, <3>6, <3>7
    <2>2. CASE link[Name(p)] \notin Procs
      BY <1>5, <2>2 DEF FindLink, Goes
    <2>3. QED
      BY <2>1, <2>2
  <1>6. ASSUME NEW p \in Procs, Apply(p) PROVE Found'
    BY <1>6 DEF Apply, Step, Skip, Asked, Goes, Push, IsSet, Name
  <1>7. ASSUME NEW p \in Procs, EnsureHostRoute(p) PROVE Found'
    BY <1>7 DEF EnsureHostRoute, Goes, Reachable
  <1>8. ASSUME NEW p \in Procs, EndSession(p) PROVE Found'
    BY <1>8 DEF EndSession, Goes
  <1>9. ASSUME NEW p \in Procs, ForwarderCloses(p) PROVE Found'
    BY <1>9 DEF ForwarderCloses, Vanish, Present, Name
  <1>10. ASSUME NEW p \in Procs, RollbackStep(p) PROVE Found'
    BY <1>10 DEF RollbackStep, Pop
  <1>11. ASSUME NEW p \in Procs, RollbackEnds(p) PROVE Found'
    BY <1>11 DEF RollbackEnds, Goes
  <1>12. ASSUME NEW p \in Procs, RollbackHostRoute(p) PROVE Found'
    BY <1>12 DEF RollbackHostRoute, RouteDel, Goes
  <1>13. ASSUME NEW p \in Procs, Close(p) PROVE Found'
    BY <1>13 DEF Close, Goes, Vanish, Present, Name
  <1>14. ASSUME NEW p \in Procs, Kill(p) PROVE Found'
    BY <1>14 DEF Kill, Goes, Name, Orphaned
  <1>15. ASSUME NEW p \in Procs, Restart(p) PROVE Found'
    BY <1>15 DEF Restart, Goes
  <1>16. CASE UNCHANGED vars
    BY <1>16 DEF vars
  <1>17. QED
    BY <1>1, <1>2, <1>3, <1>4, <1>5, <1>6, <1>7, <1>8, <1>9, <1>10, <1>11,
       <1>12, <1>13, <1>14, <1>15, <1>16 DEF Next

-----------------------------------------------------------------------------
(***************************************************************************)
(* UndoIsWhatWasDone.                                                      *)
(***************************************************************************)
\* A device that goes takes its settings along, and nobody finds it again.
LEMMA VanishUndo ==
  ASSUME Inv, NEW n \in Names, Vanish(n), UNCHANGED undo
  PROVE  UndoIsWhatWasDone'
  <1> USE ProcsAssumption DEF Inv, Kinds, UndoIsWhatWasDone, Nobody
  <1>1. /\ \A q \in Procs : conf'[q] = IF link[n] = q THEN {} ELSE conf[q]
        /\ \A q \in Procs : at'[q] = IF at[q] = link[n] THEN "none" ELSE at[q]
    BY DEF Vanish
  <1>2. ASSUME NEW p \in Procs, NEW d \in Procs, NEW s \in Settings, <<s, p>> \in conf'[d]
        PROVE  at'[p] = d /\ s \in ToSet(undo'[p])
    BY <1>1, <1>2
  <1>3. ASSUME NEW p \in Procs, at'[p] # "none", NEW s \in ToSet(undo'[p])
        PROVE  <<s, p>> \in conf'[at'[p]] \/ (s # "addr" /\ <<"up", p>> \notin conf'[at'[p]])
    BY <1>1, <1>3
  <1>4. QED
    BY <1>2, <1>3

\* What a step of Apply sets, it pushes.
LEMMA StepUndo ==
  ASSUME Inv, NEW p \in Procs, NEW s \in Settings, NEW next, Step(p, s, next)
  PROVE  UndoIsWhatWasDone'
  <1> USE ProcsAssumption DEF Inv, Kinds, UndoIsWhatWasDone, Nobody
  <1>1. PICK done \in BOOLEAN :
          /\ done => at[p] # "none"
          /\ conf' = IF done THEN [conf EXCEPT ![at[p]] = @ \union {<<s, p>>}] ELSE conf
          /\ undo' = IF done THEN [undo EXCEPT ![p] = Append(@, s)] ELSE undo
    BY DEF Step, Push
  <1>2. UNCHANGED at /\ pc[p] = s
    BY DEF Step
  <1>3. CASE ~done
    BY <1>1, <1>2, <1>3
  <1>4. CASE done
    <2>1. at[p] \in Procs
      BY <1>1, <1>4
    <2>2. undo[p] \in Stacks
      BY DEF Stacked
    <2>3. /\ ToSet(undo'[p]) = ToSet(undo[p]) \union {s}
          /\ \A q \in Procs \ {p} : undo'[q] = undo[q]
      BY <1>1, <1>4, <2>2, PushStack DEF Stacked
    <2>4. /\ conf'[at[p]] = conf[at[p]] \union {<<s, p>>}
          /\ \A d \in Procs \ {at[p]} : conf'[d] = conf[d]
      BY <1>1, <1>4, <2>1
    <2>5. s = "up" => ToSet(undo[p]) \subseteq {"addr"}
      BY <1>2 DEF Stacked, StacksAt, ToSet
    <2>6. ASSUME NEW q \in Procs, NEW d \in Procs, NEW t \in Settings, <<t, q>> \in conf'[d]
          PROVE  at'[q] = d /\ t \in ToSet(undo'[q])
      <3>1. CASE <<t, q>> \in conf[d]
        BY <1>2, <2>3, <3>1
      <3>2. CASE <<t, q>> \notin conf[d]
        BY <1>2, <2>3, <2>4, <2>6, <3>2
      <3>3. QED
        BY <3>1, <3>2
    <2>7. ASSUME NEW q \in Procs, at'[q] # "none", NEW t \in ToSet(undo'[q])
          PROVE  <<t, q>> \in conf'[at'[q]] \/ (t # "addr" /\ <<"up", q>> \notin conf'[at'[q]])
      <3>1. at[q] \in Procs /\ at'[q] = at[q] /\ conf[at[q]] \subseteq conf'[at[q]]
        BY <1>2, <2>4, <2>7
      <3>2. CASE q # p
        <4>1. <<"up", q>> \in conf'[at[q]] => <<"up", q>> \in conf[at[q]]
          BY <2>4, <3>1, <3>2
        <4>2. QED
          BY <2>3, <2>7, <3>1, <3>2, <4>1
      <3>3. CASE q = p /\ t = s
        BY <2>4, <3>1, <3>3
      <3>4. CASE q = p /\ t # s
        <4>1. t \in ToSet(undo[p])
          BY <2>3, <2>7, <3>4
        <4>2. CASE s = "up"
          BY <2>5, <3>1, <3>4, <4>1, <4>2
        <4>3. CASE s # "up"
          <5>1. <<"up", p>> \in conf'[at[p]] => <<"up", p>> \in conf[at[p]]
            BY <2>4, <4>3
          <5>2. QED
            BY <3>1, <3>4, <4>1, <5>1
        <4>4. QED
          BY <4>2, <4>3
      <3>5. QED
        BY <3>2, <3>3, <3>4
    <2>8. QED
      BY <2>6, <2>7
  <1>5. QED
    BY <1>3, <1>4

\* Rollback withdraws what it pops; a link it takes down leaves the addresses.
LEMMA RollbackUndo ==
  ASSUME Inv, NEW p \in Procs, RollbackStep(p)
  PROVE  UndoIsWhatWasDone'
  <1> USE ProcsAssumption DEF Inv, Kinds, UndoIsWhatWasDone, Nobody
  <1> DEFINE l == Last(undo[p])
             f == Front(undo[p])
  <1>1. /\ undo[p] \in Stacks /\ undo[p] # <<>>
        /\ undo' = [undo EXCEPT ![p] = f]
        /\ UNCHANGED at
        /\ conf' = IF at[p] # "none" THEN [conf EXCEPT ![at[p]] = Withdrawn(l, @, p)] ELSE conf
    BY DEF RollbackStep, Pop, Stacked
  <1>2. /\ l \in Settings
        /\ ToSet(undo[p]) = ToSet(f) \union {l} /\ l \notin ToSet(f)
        /\ l = "up" => ToSet(f) \subseteq {"addr"}
    BY <1>1, PopStack
  <1>3. undo'[p] = f /\ \A q \in Procs \ {p} : undo'[q] = undo[q]
    BY <1>1 DEF Stacked
  <1> HIDE DEF l, f
  <1>4. CASE at[p] = "none"
    <2>1. conf' = conf /\ \A d \in Procs, t \in Settings : <<t, p>> \notin conf[d]
      BY <1>1, <1>4
    <2>2. QED
      BY <1>1, <1>2, <1>3, <1>4, <2>1
  <1>5. CASE at[p] # "none"
    <2>1. /\ at[p] \in Procs
          /\ conf'[at[p]] = Withdrawn(l, conf[at[p]], p)
          /\ \A d \in Procs \ {at[p]} : conf'[d] = conf[d]
      BY <1>1, <1>5
    <2>2. /\ l = "up" => \A q \in Procs, t \in Settings :
                <<t, q>> \in conf'[at[p]] <=> <<t, q>> \in conf[at[p]] /\ t = "addr"
          /\ l # "up" => \A q \in Procs, t \in Settings :
                <<t, q>> \in conf'[at[p]] <=> <<t, q>> \in conf[at[p]] /\ <<t, q>> # <<l, p>>
      BY <2>1 DEF Withdrawn
    <2>3. \A d, q \in Procs, t \in Settings : <<t, q>> \in conf'[d] => <<t, q>> \in conf[d]
      BY <2>1, <2>2
    <2>4. \A t \in Settings : <<t, p>> \in conf'[at[p]] => t # l
      BY <2>2
    <2>5. ASSUME NEW q \in Procs, NEW d \in Procs, NEW t \in Settings, <<t, q>> \in conf'[d]
          PROVE  at'[q] = d /\ t \in ToSet(undo'[q])
      <3>1. at[q] = d /\ t \in ToSet(undo[q])
        <4>1. <<t, q>> \in conf[d]
          BY <2>3, <2>5
        <4>2. QED
          BY <4>1
      <3>2. CASE q = p
        BY <1>1, <1>2, <1>3, <2>4, <2>5, <3>1, <3>2
      <3>3. CASE q # p
        BY <1>1, <1>3, <3>1, <3>3
      <3>4. QED
        BY <3>2, <3>3
    <2>6. ASSUME NEW q \in Procs, at'[q] # "none", NEW t \in ToSet(undo'[q])
          PROVE  <<t, q>> \in conf'[at'[q]] \/ (t # "addr" /\ <<"up", q>> \notin conf'[at'[q]])
      <3>1. at[q] \in Procs /\ at'[q] = at[q]
        BY <1>1, <2>6
      <3>2. t \in ToSet(undo[q]) /\ (q = p => t # l)
        BY <1>2, <1>3, <2>6
      <3>3. t \in Settings
        <4>1. undo[q] \in Stacks
          BY DEF Stacked
        <4>2. QED
          BY <3>2, <4>1, StackSettings
      <3>4. <<t, q>> \in conf[at[q]] \/ (t # "addr" /\ <<"up", q>> \notin conf[at[q]])
        BY <3>1, <3>2
      <3>5. <<"up", q>> \notin conf[at[q]] => <<"up", q>> \notin conf'[at[q]]
        BY <2>3, <3>1 DEF Settings
      <3>6. CASE at[q] # at[p]
        BY <2>1, <3>1, <3>4, <3>6
      <3>7. CASE at[q] = at[p] /\ l # "up"
        BY <2>2, <3>1, <3>2, <3>3, <3>4, <3>5, <3>7
      <3>8. CASE at[q] = at[p] /\ l = "up"
        <4>1. <<"up", q>> \notin conf'[at[q]]
          BY <2>2, <3>8 DEF Settings
        <4>2. t = "addr" => <<t, q>> \in conf'[at[q]]
          BY <2>2, <3>3, <3>4, <3>8
        <4>3. QED
          BY <3>1, <4>1, <4>2
      <3>9. QED
        BY <3>6, <3>7, <3>8
    <2>7. QED
      BY <2>5, <2>6
  <1>6. QED
    BY <1>4, <1>5

\* What a killed process had set is nobody's.
LEMMA KillUndo ==
  ASSUME Inv, NEW p \in Procs, Kill(p)
  PROVE  UndoIsWhatWasDone'
  <1> USE ProcsAssumption DEF Inv, Kinds, UndoIsWhatWasDone, Nobody
  <1>1. /\ UNCHANGED undo
        /\ \A d \in Procs : conf'[d] = IF d = p THEN {} ELSE Orphaned(p, conf[d])
        /\ \A q \in Procs : at'[q] = IF at[q] = p \/ q = p THEN "none" ELSE at[q]
    BY DEF Kill
  <1>2. \A d, q \in Procs, t \in Settings :
          <<t, q>> \in Orphaned(p, conf[d]) <=> <<t, q>> \in conf[d] /\ q # p
    <2>1. SUFFICES ASSUME NEW d \in Procs, NEW q \in Procs, NEW t \in Settings
                   PROVE  <<t, q>> \in Orphaned(p, conf[d]) <=> <<t, q>> \in conf[d] /\ q # p
      OBVIOUS
    <2>2. q # "orphan"
      OBVIOUS
    <2>3. QED
      BY <2>2 DEF Orphaned
  <1>3. ASSUME NEW q \in Procs, NEW d \in Procs, NEW t \in Settings, <<t, q>> \in conf'[d]
        PROVE  at'[q] = d /\ t \in ToSet(undo'[q])
    <2>1. d # p /\ <<t, q>> \in Orphaned(p, conf[d])
      BY <1>1, <1>3
    <2>2. q # p /\ <<t, q>> \in conf[d]
      BY <1>2, <2>1
    <2>3. at[q] = d /\ t \in ToSet(undo[q])
      BY <2>2
    <2>4. QED
      BY <1>1, <2>1, <2>2, <2>3
  <1>4. ASSUME NEW q \in Procs, at'[q] # "none", NEW t \in ToSet(undo'[q])
        PROVE  <<t, q>> \in conf'[at'[q]] \/ (t # "addr" /\ <<"up", q>> \notin conf'[at'[q]])
    <2>1. q # p /\ at[q] # p /\ at[q] \in Procs /\ at'[q] = at[q]
      BY <1>1, <1>4
    <2>2. t \in Settings
      BY <1>1, <1>4, StackSettings DEF Stacked
    <2>3. conf'[at[q]] = Orphaned(p, conf[at[q]])
      BY <1>1, <2>1
    <2>4. <<t, q>> \in conf'[at[q]] <=> <<t, q>> \in conf[at[q]]
      BY <1>2, <2>1, <2>2, <2>3
    <2>5. <<"up", q>> \in conf'[at[q]] <=> <<"up", q>> \in conf[at[q]]
      <3>1. "up" \in Settings
        BY DEF Settings
      <3>2. QED
        BY <1>2, <2>1, <2>3, <3>1
    <2>6. QED
      BY <1>1, <1>4, <2>1, <2>4, <2>5
  <1>5. QED
    BY <1>3, <1>4

LEMMA UndoInv ==
  ASSUME Inv, [Next]_vars
  PROVE  UndoIsWhatWasDone'
  <1>1. ASSUME NEW p \in Procs, Check(p) PROVE UndoIsWhatWasDone'
    BY <1>1 DEF Check, Goes, Inv, UndoIsWhatWasDone
  <1>2. ASSUME NEW p \in Procs, DeleteTun(p) PROVE UndoIsWhatWasDone'
    <2>1. CASE Vanish(Name(p))
      <3>1. Name(p) \in Names
        BY OptionsAssumption DEF Inv, Kinds, Name
      <3>2. QED
        BY <1>2, <2>1, <3>1, VanishUndo DEF DeleteTun
    <2>2. CASE UNCHANGED <<link, conf, at>>
      BY <1>2, <2>2 DEF DeleteTun, Inv, UndoIsWhatWasDone
    <2>3. QED
      BY <1>2, <2>1, <2>2 DEF DeleteTun
  <1>3. ASSUME NEW p \in Procs, Create(p) PROVE UndoIsWhatWasDone'
    BY <1>3 DEF Create, Goes, Name, Inv, UndoIsWhatWasDone
  <1>4. ASSUME NEW p \in Procs, NoCall(p) PROVE UndoIsWhatWasDone'
    BY <1>4 DEF NoCall, Goes, Inv, UndoIsWhatWasDone
  <1>5. ASSUME NEW p \in Procs, FindLink(p) PROVE UndoIsWhatWasDone'
    <2>1. undo[p] = <<>> /\ UNCHANGED <<conf, undo>>
      BY <1>5 DEF FindLink, Inv, Stacked, StacksAt
    <2>2. ToSet(undo[p]) = {}
      BY <2>1 DEF ToSet
    <2>3. \A q \in Procs \ {p} : at'[q] = at[q]
      BY <1>5 DEF FindLink, Inv, Kinds
    <2>4. QED
      BY <2>1, <2>2, <2>3 DEF Inv, UndoIsWhatWasDone
  <1>6. ASSUME NEW p \in Procs, Apply(p) PROVE UndoIsWhatWasDone'
    <2>1. ASSUME NEW s \in Settings, NEW next, Step(p, s, next)
          PROVE  UndoIsWhatWasDone'
      BY <2>1, StepUndo
    <2>2. ASSUME NEW s, NEW next, Skip(p, s, next)
          PROVE  UndoIsWhatWasDone'
      BY <2>2 DEF Skip, Inv, UndoIsWhatWasDone
    <2>3. QED
      BY <1>6, <2>1, <2>2 DEF Apply, Settings
  <1>7. ASSUME NEW p \in Procs, EnsureHostRoute(p) PROVE UndoIsWhatWasDone'
    BY <1>7 DEF EnsureHostRoute, Goes, Reachable, Inv, UndoIsWhatWasDone
  <1>8. ASSUME NEW p \in Procs, EndSession(p) PROVE UndoIsWhatWasDone'
    BY <1>8 DEF EndSession, Goes, Inv, UndoIsWhatWasDone
  <1>9. ASSUME NEW p \in Procs, ForwarderCloses(p) PROVE UndoIsWhatWasDone'
    <2>1. Name(p) \in Names
      BY OptionsAssumption DEF Inv, Kinds, Name
    <2>2. QED
      BY <1>9, <2>1, VanishUndo DEF ForwarderCloses
  <1>10. ASSUME NEW p \in Procs, RollbackStep(p) PROVE UndoIsWhatWasDone'
    BY <1>10, RollbackUndo
  <1>11. ASSUME NEW p \in Procs, RollbackEnds(p) PROVE UndoIsWhatWasDone'
    BY <1>11 DEF RollbackEnds, Goes, Inv, UndoIsWhatWasDone
  <1>12. ASSUME NEW p \in Procs, RollbackHostRoute(p) PROVE UndoIsWhatWasDone'
    BY <1>12 DEF RollbackHostRoute, RouteDel, Goes, Inv, UndoIsWhatWasDone
  <1>13. ASSUME NEW p \in Procs, Close(p) PROVE UndoIsWhatWasDone'
    <2>1. CASE Vanish(Name(p))
      <3>1. Name(p) \in Names
        BY OptionsAssumption DEF Inv, Kinds, Name
      <3>2. QED
        BY <1>13, <2>1, <3>1, VanishUndo DEF Close
    <2>2. CASE UNCHANGED <<link, conf, at>>
      BY <1>13, <2>2 DEF Close, Inv, UndoIsWhatWasDone
    <2>3. QED
      BY <1>13, <2>1, <2>2 DEF Close
  <1>14. ASSUME NEW p \in Procs, Kill(p) PROVE UndoIsWhatWasDone'
    BY <1>14, KillUndo
  <1>15. ASSUME NEW p \in Procs, Restart(p) PROVE UndoIsWhatWasDone'
    <2>1. at[p] = "none" \/ ToSet(undo[p]) = {}
      BY <1>15 DEF Restart, Inv, Found, Stacked, StacksAt, ToSet
    <2>2. \A d \in Procs, s \in Settings : <<s, p>> \notin conf[d]
      BY <2>1, ProcsAssumption DEF Inv, UndoIsWhatWasDone, Nobody
    <2>3. /\ UNCHANGED conf
          /\ at'[p] = "none" /\ \A q \in Procs \ {p} : at'[q] = at[q]
          /\ \A q \in Procs \ {p} : undo'[q] = undo[q]
      BY <1>15 DEF Restart, Inv, Kinds, Stacked
    <2>4. QED
      BY <2>2, <2>3 DEF Inv, UndoIsWhatWasDone
  <1>16. CASE UNCHANGED vars
    BY <1>16 DEF vars, Inv, UndoIsWhatWasDone
  <1>17. QED
    BY <1>1, <1>2, <1>3, <1>4, <1>5, <1>6, <1>7, <1>8, <1>9, <1>10, <1>11,
       <1>12, <1>13, <1>14, <1>15, <1>16 DEF Next

-----------------------------------------------------------------------------
LEMMA InitInv ==
  ASSUME Init
  PROVE  Inv
  <1> USE ProcsAssumption DEF Init, Nobody
  <1>1. Kinds
    BY DEF Kinds, PCs
  <1>2. Devices /\ Found /\ Routed
    BY DEF Devices, Found, Routed
  <1>3. Stacked
    BY DEF Stacked, Stacks, StacksAt
  <1>4. UndoIsWhatWasDone
    BY DEF UndoIsWhatWasDone
  <1>5. QED
    BY <1>1, <1>2, <1>3, <1>4 DEF Inv

LEMMA InvHolds == Spec => []Inv
  <1>1. Inv /\ [Next]_vars => Inv'
    BY KindsInv, DevicesInv, StackedInv, RoutedInv, FoundInv, UndoInv DEF Inv
  <1>2. QED
    BY InitInv, <1>1, PTL DEF Spec

\* The processes and the kernel's tables keep to their types: in particular
\* no undo stack ever holds more than was done.
THEOREM TypesHold == Spec => []TypeOK
  <1>1. Inv => TypeOK
    <2>1. SUFFICES ASSUME Inv PROVE TypeOK
      OBVIOUS
    <2>2. \A p \in Procs : undo[p] \in UNION {[1 .. n -> Settings] : n \in 0 .. 3}
      BY <2>1, StackTyped DEF Inv, Stacked
    <2>3. QED
      BY <2>1, <2>2 DEF Inv, Kinds, TypeOK
  <1>2. QED
    BY InvHolds, <1>1, PTL

\* A process that ran to its end has left no device, no host route, and no
\* setting on any device, whoever's it is.
THEOREM NothingIsLeft == Spec => []NothingLeft
  <1>1. Inv => NothingLeft
    <2>1. SUFFICES ASSUME Inv, NEW p \in Procs, pc[p] = "gone"
                   PROVE  /\ ~Present(p)
                          /\ relay # p
                          /\ \A d \in Procs, s \in Settings : <<s, p>> \notin conf[d]
      BY DEF NothingLeft
    <2>2. Name(p) \in Names
      BY <2>1, OptionsAssumption DEF Inv, Kinds, Name
    <2>3. ~Present(p)
      BY <2>1, <2>2 DEF Inv, Devices, Owning, Present
    <2>4. relay # p
      BY <2>1 DEF Inv, Routed
    <2>5. ToSet(undo[p]) = {}
      BY <2>1 DEF Inv, Stacked, StacksAt, ToSet
    <2>6. \A d \in Procs, s \in Settings : <<s, p>> \notin conf[d]
      BY <2>1, <2>5 DEF Inv, UndoIsWhatWasDone
    <2>7. QED
      BY <2>3, <2>4, <2>6
  <1>2. QED
    BY InvHolds, <1>1, PTL

\* What a process has set is on its undo stack, and what is on the stack is
\* still set unless another one took the link down: Rollback knows what there
\* is to withdraw, whatever went away meanwhile.
THEOREM UndoKnowsWhatWasDone == Spec => []UndoIsWhatWasDone
  <1>1. Inv => UndoIsWhatWasDone
    BY DEF Inv
  <1>2. QED
    BY InvHolds, <1>1, PTL

-----------------------------------------------------------------------------
Kept ==
    /\ \A n \in Names : link[n] = "foreign" => link'[n] = "foreign"
    /\ relay = "foreign" => relay' = "foreign"
    /\ \A p \in Procs : relay = p /\ pc[p] = "running" /\ pc'[p] = "running"
          => relay' = p

LEMMA KeptByAll ==
  ASSUME Inv, [Next]_vars
  PROVE  Kept
  <1> USE OptionsAssumption, ProcsAssumption DEF Inv, Kinds, Devices, Present,
          Routed, Name, Nobody, Kept
  <1>1. ASSUME NEW p \in Procs, Check(p) PROVE Kept
    BY <1>1 DEF Check, Goes
  <1>2. ASSUME NEW p \in Procs, DeleteTun(p) PROVE Kept
    BY <1>2 DEF DeleteTun, Goes, Vanish, IsTun
  <1>3. ASSUME NEW p \in Procs, Create(p) PROVE Kept
    BY <1>3 DEF Create, Goes
  <1>4. ASSUME NEW p \in Procs, NoCall(p) PROVE Kept
    BY <1>4 DEF NoCall, Goes
  <1>5. ASSUME NEW p \in Procs, FindLink(p) PROVE Kept
    BY <1>5 DEF FindLink, Goes
  <1>6. ASSUME NEW p \in Procs, Apply(p) PROVE Kept
    BY <1>6 DEF Apply, Step, Skip, Asked, Goes, Push, IsSet
  <1>7. ASSUME NEW p \in Procs, EnsureHostRoute(p) PROVE Kept
    BY <1>7 DEF EnsureHostRoute, Goes, Reachable
  <1>8. ASSUME NEW p \in Procs, EndSession(p) PROVE Kept
    BY <1>8 DEF EndSession, Goes
  <1>9. ASSUME NEW p \in Procs, ForwarderCloses(p) PROVE Kept
    BY <1>9 DEF ForwarderCloses, Vanish
  <1>10. ASSUME NEW p \in Procs, RollbackStep(p) PROVE Kept
    BY <1>10 DEF RollbackStep, Pop
  <1>11. ASSUME NEW p \in Procs, RollbackEnds(p) PROVE Kept
    BY <1>11 DEF RollbackEnds, Goes
  <1>12. ASSUME NEW p \in Procs, RollbackHostRoute(p) PROVE Kept
    BY <1>12 DEF RollbackHostRoute, RouteDel, Goes
  <1>13. ASSUME NEW p \in Procs, Close(p) PROVE Kept
    BY <1>13 DEF Close, Goes, Vanish
  <1>14. ASSUME NEW p \in Procs, Kill(p) PROVE Kept
    BY <1>14 DEF Kill, Goes, Orphaned
  <1>15. ASSUME NEW p \in Procs, Restart(p) PROVE Kept
    BY <1>15 DEF Restart, Goes
  <1>16. CASE UNCHANGED vars
    BY <1>16 DEF vars
  <1>17. QED
    BY <1>1, <1>2, <1>3, <1>4, <1>5, <1>6, <1>7, <1>8, <1>9, <1>10, <1>11,
       <1>12, <1>13, <1>14, <1>15, <1>16 DEF Next

\* No step touches an interface of another type, a route to the relay that
\* ngntun did not add, or the route of another process's call.
THEOREM OthersAreKept == Spec => OthersKept
  <1>1. Inv /\ [Next]_vars => [Kept]_vars
    BY KeptByAll
  <1>2. QED
    BY InvHolds, <1>1, PTL DEF Spec, OthersKept, Kept
=============================================================================
