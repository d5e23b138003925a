-------------------------- MODULE SkynetHost_proofs --------------------------
(***************************************************************************)
(* Proofs about the scheduler host, for any number of workers, services,   *)
(* targets, ring entries, frequencies and sessions: its types, and that it *)
(* implements the lifecycle-word protocol of TargetLifecycle, from which   *)
(* the safety of the event rings follows; then about its sessions: whose   *)
(* samples are in a ring, who writes one, what the counts of host_lock     *)
(* are, and at what frequency the timer of a worker runs; and last about   *)
(* its calls: who opens, serves and closes which session, where a call     *)
(* stands, that a service whose timer failed is told, that nothing of a    *)
(* session that is stopped is lost when its slot is freed, and that the    *)
(* host implements ProfileSession.                                         *)
(***************************************************************************)
EXTENDS SkynetHost, Integers, FiniteSetTheorems, TLAPS

Protocol == INSTANCE TargetLifecycle_proofs

States == {"FREE", "ACTIVE", "STOPPING", "RECLAIMING"}

-----------------------------------------------------------------------------
(* The inductive invariant.                                                *)

\* Types, by the groups of variables that the actions leave alone together.  That
\* reader counts are natural numbers is a property of the protocol.
LifeType ==
    /\ life \in [Targets -> [state : States, readers : Int]]
    /\ token \in [Targets -> Nat] /\ next_token \in Nat
    /\ pin \in [Holders -> Targets \cup {NoTarget}]
TargetType ==
    /\ handle \in [Targets -> Handles \cup {NoHandle}]
    /\ sample_hz \in [Targets -> Nat]
    /\ allocated \in SUBSET Targets
    /\ ring \in [Targets -> Seq(Handles \cup {NoHandle})]
    /\ draining \in [Targets -> BOOLEAN]
    /\ quality \in [Targets -> SUBSET Kinds]
HostType ==
    /\ host_lock \in Workers \cup {NoWorker}
    /\ active_targets \in Nat /\ active_sample_hz \in Nat
    /\ host_failed \in BOOLEAN
WorkerType ==
    /\ current_handle \in [Workers -> Handles \cup {NoHandle}]
    /\ slot \in [Workers -> SlotType]
    /\ odd \in [Workers -> BOOLEAN]
    /\ armed_hz \in [Workers -> Nat]
    /\ pending \in [Workers -> BOOLEAN] /\ masked \in [Workers -> BOOLEAN]
ControlType ==
    /\ op \in [Workers -> Ops] /\ pc \in [Workers -> Pcs]
    /\ loc \in [Workers -> LocType]
BridgeType ==
    /\ irq \in [Workers -> IrqType]
    /\ scheduler_token \in [Handles -> Nat]
TypeInv ==
    LifeType /\ TargetType /\ HostType /\ WorkerType /\ ControlType /\ BridgeType

\* Where a thread stands determines what it has pinned ...
ScanPcs == {"find_use", "fail_use", "publish_even", "publish_unpin"}
OpPinned(w) == IF pc[w] = "discard_use" THEN loc[w].prev.target
               ELSE IF pc[w] \in ScanPcs THEN loc[w].i ELSE NoTarget
IrqPinned(w) == IF irq[w].pc = "use" THEN irq[w].slot.target ELSE NoTarget
PinsMatch ==
    \A w \in Workers : pin[<<w, "op">>] = OpPinned(w) /\ pin[<<w, "irq">>] = IrqPinned(w)

\* ... and that its locals name targets where it uses them as such.
Rollback == {"rollback_lock", "rollback_count", "rollback_hz", "rollback_wait"}
OwnsTarget(w) ==
    \/ op[w] \in {"start", "quiesce"} /\ pc[w] \notin {"start_lock", "quiesce_lock"}
    \/ pc[w] = "release_wait"
Local(w) ==
    /\ loc[w].i # 0
    /\ pc[w] \in ScanPcs \cup {"find_pin"} => loc[w].i \in Targets
    /\ pc[w] = "discard_use" => loc[w].prev.target \in Targets
    /\ OwnsTarget(w) => loc[w].target \in Targets
    /\ pc[w] \in Rollback => op[w] = "start"
    /\ irq[w].pc # "none" => irq[w].slot.target \in Targets

\* A target has a ring from its start until it is free again.
AllocatedIsLive == allocated = {t \in Targets : life[t].state # "FREE"}

\* A start that is admitted finds a token left.
TokensLeft == next_token + Cardinality(Starting) <= MaxToken

HInv == TypeInv /\ PinsMatch /\ (\A w \in Workers : Local(w)) /\ AllocatedIsLive
            /\ TokensLeft

-----------------------------------------------------------------------------
(* Locals.                                                                 *)

LEMMA SlotFacts ==
    /\ NoSlot \in SlotType
    /\ \A t \in Targets \cup {NoTarget}, k \in Nat :
          [NoSlot EXCEPT !.target = t, !.token = k] \in SlotType
    /\ \A t \in Targets \cup {NoTarget}, k \in Nat, h \in Handles \cup {NoHandle} :
          [target |-> t, token |-> k, vm |-> h] \in SlotType
  BY DEF NoSlot, SlotType

LEMMA NoLocFacts ==
    /\ NoLoc \in LocType /\ NoLoc.i = 1
    /\ \A k \in Nat, s \in BOOLEAN :
          /\ [NoLoc EXCEPT !.arg = k, !.stop = s] \in LocType
          /\ [NoLoc EXCEPT !.arg = k, !.stop = s].i = 1
    /\ \A k \in Nat : [NoLoc EXCEPT !.hz = k] \in LocType /\ [NoLoc EXCEPT !.hz = k].i = 1
    /\ \A k \in Nat : [NoLoc EXCEPT !.arg = k] \in LocType /\ [NoLoc EXCEPT !.arg = k].i = 1
  BY SlotFacts DEF NoLoc, LocType

LEMMA LocFields ==
    ASSUME NEW l \in LocType
    PROVE  /\ l.i \in Nat /\ l.arg \in Nat /\ l.hz \in Nat /\ l.count \in Nat
           /\ l.stop \in BOOLEAN /\ l.prev \in SlotType
           /\ l.target \in Targets \cup {NoTarget}
  BY DEF LocType

\* The updates the actions make to the locals of a call.
Advanced(l) == [l EXCEPT !.i = @ + 1]
SetAside(l, p) == [l EXCEPT !.prev = p]
Rewound(l) == [l EXCEPT !.i = 1]
Named(l, t) == [l EXCEPT !.target = t]
Opened(l, t, k) == [l EXCEPT !.target = t, !.arg = k]
Failed(l) == [l EXCEPT !.count = 0, !.ok = FALSE, !.i = 1]

LEMMA LocIndex ==
    ASSUME NEW l \in LocType, l.i # 0
    PROVE  /\ Advanced(l) \in LocType /\ Advanced(l).i = l.i + 1 /\ Advanced(l).i # 0
           /\ Advanced(l).target = l.target
           /\ Rewound(l) \in LocType /\ Rewound(l).i = 1 /\ Rewound(l).i # 0
           /\ Rewound(l).target = l.target
           /\ Failed(l) \in LocType /\ Failed(l).i = 1 /\ Failed(l).i # 0
           /\ Failed(l).target = l.target
<1>1. Advanced(l) \in LocType /\ Advanced(l).i = l.i + 1 /\ Advanced(l).target = l.target
  BY DEF LocType, Advanced
<1>2. Rewound(l) \in LocType /\ Rewound(l).i = 1 /\ Rewound(l).target = l.target
  BY DEF LocType, Rewound
<1>3. Failed(l) \in LocType /\ Failed(l).i = 1 /\ Failed(l).target = l.target
  BY DEF LocType, Failed
<1>4. l.i \in Nat
  BY DEF LocType
<1> QED
  BY <1>1, <1>2, <1>3, <1>4

LEMMA LocPrev ==
    ASSUME NEW l \in LocType, NEW p \in SlotType
    PROVE  /\ SetAside(l, p) \in LocType
           /\ SetAside(l, p).i = l.i
           /\ SetAside(l, p).target = l.target
  BY DEF LocType, SetAside

LEMMA LocCount ==
    ASSUME NEW l \in LocType, NEW n \in Nat
    PROVE  /\ [l EXCEPT !.count = n] \in LocType
           /\ [l EXCEPT !.count = n].i = l.i
           /\ [l EXCEPT !.count = n].target = l.target
  BY DEF LocType

LEMMA LocTarget ==
    ASSUME NEW l \in LocType, NEW t \in Targets, NEW k \in Nat
    PROVE  /\ Named(l, t) \in LocType /\ Named(l, t).i = l.i /\ Named(l, t).target = t
           /\ Opened(l, t, k) \in LocType /\ Opened(l, t, k).i = l.i
           /\ Opened(l, t, k).target = t
  BY DEF LocType, Named, Opened

-----------------------------------------------------------------------------
(* Control.                                                                *)

\* The other workers stand where they stood.
Others(w) == \A v \in Workers \ {w} :
    pc'[v] = pc[v] /\ op'[v] = op[v] /\ loc'[v] = loc[v] /\ irq'[v] = irq[v]

LEMMA GotoFacts ==
    ASSUME ControlType, NEW w \in Workers, NEW p \in Pcs, Goto(w, p)
    PROVE  /\ ControlType' /\ Others(w)
           /\ pc'[w] = p /\ op'[w] = op[w] /\ loc'[w] = loc[w]
           /\ UNCHANGED irq /\ UNCHANGED scheduler_token
  BY DEF ControlType, Goto, Others

LEMMA GotoWithFacts ==
    ASSUME ControlType, NEW w \in Workers, NEW p \in Pcs, NEW l \in LocType,
           GotoWith(w, p, l)
    PROVE  /\ ControlType' /\ Others(w)
           /\ pc'[w] = p /\ op'[w] = op[w] /\ loc'[w] = l
           /\ UNCHANGED irq /\ UNCHANGED scheduler_token
  BY DEF ControlType, GotoWith, Others

\* The places where a call starts.
Entries == {"idle", "start_lock", "quiesce_lock", "release_lock", "discard_pin", "find"}

LEMMA EntryFacts ==
    ASSUME NEW o \in Ops
    PROVE  /\ Entry(o) \in Entries /\ Entry(o) \in Pcs
           /\ Entry(o) = "start_lock" <=> o = "start"
           /\ o = "quiesce" => Entry(o) = "quiesce_lock"
  BY DEF Entry, Entries, Ops, Pcs

LEMMA CallFacts ==
    ASSUME ControlType, NEW w \in Workers, NEW o \in Ops, NEW l \in LocType,
           Call(w, o, l), UNCHANGED irq
    PROVE  /\ ControlType' /\ Others(w)
           /\ pc'[w] = Entry(o) /\ op'[w] = o /\ loc'[w] = l
  BY EntryFacts DEF ControlType, Call, Others

LEMMA ReturnToFacts ==
    ASSUME ControlType, NEW w \in Workers, NEW o \in Ops, ReturnTo(w, o)
    PROVE  /\ ControlType' /\ Others(w)
           /\ pc'[w] = Entry(o) /\ op'[w] = o /\ loc'[w].i = 1
           /\ UNCHANGED irq
<1> DEFINE l == IF o = "none" THEN NoLoc
                ELSE [NoLoc EXCEPT !.arg = loc[w].arg, !.stop = loc[w].stop]
<1>1. loc[w] \in LocType
  BY DEF ControlType
<1>2. loc[w].arg \in Nat /\ loc[w].stop \in BOOLEAN
  BY <1>1, LocFields
<1>3. l \in LocType /\ l.i = 1
  BY <1>2, NoLocFacts
<1>4. Call(w, o, l) /\ UNCHANGED irq
  BY DEF ReturnTo
<1> HIDE DEF l
<1> QED
  BY <1>3, <1>4, CallFacts

\* The next call of the bridge is never a dispatch or a start.
LEMMA AfterFacts ==
    ASSUME NEW o \in Ops, NEW s \in BOOLEAN
    PROVE  After(o, s) \subseteq Ops \ {"enter", "leave", "start"}
  BY DEF After, Drain, Ops

LEMMA ReturnFacts ==
    ASSUME ControlType, NEW w \in Workers, Return(w)
    PROVE  /\ ControlType' /\ Others(w)
           /\ pc'[w] \in Entries \ {"start_lock", "discard_pin"}
           /\ op'[w] \in {"start", "quiesce"} => pc'[w] = "quiesce_lock"
           /\ loc'[w].i = 1
           /\ UNCHANGED irq /\ UNCHANGED scheduler_token
<1>1. op[w] \in Ops /\ loc[w] \in LocType
  BY DEF ControlType
<1>2. PICK o \in Ops \ {"enter", "leave", "start"} : ReturnTo(w, o)
  BY <1>1, LocFields, AfterFacts DEF Return
<1>3. /\ ControlType' /\ Others(w)
      /\ pc'[w] = Entry(o) /\ op'[w] = o /\ loc'[w].i = 1
      /\ UNCHANGED irq
  BY <1>2, ReturnToFacts
<1>4. Entry(o) \in Entries \ {"start_lock", "discard_pin"}
  BY <1>2 DEF Entry, Entries, Ops
<1>5. o = "quiesce" => Entry(o) = "quiesce_lock"
  BY EntryFacts
<1>6. UNCHANGED scheduler_token
  BY DEF Return
<1>7. pc'[w] \in Entries \ {"start_lock", "discard_pin"}
  BY <1>3, <1>4
<1>8. op'[w] \in {"start", "quiesce"} => pc'[w] = "quiesce_lock"
  BY <1>3, <1>5
<1> QED
  BY <1>3, <1>6, <1>7, <1>8

-----------------------------------------------------------------------------
(* From one worker's step to the invariant.                                *)

\* Groups of variables that a step leaves alone keep their types.
LEMMA Kept ==
    /\ LifeType /\ UNCHANGED life_vars => LifeType'
    /\ TargetType /\ UNCHANGED target_vars => TargetType' /\ UNCHANGED allocated
    /\ HostType /\ UNCHANGED host_vars => HostType'
    /\ WorkerType /\ UNCHANGED worker_vars => WorkerType'
    /\ BridgeType /\ UNCHANGED irq /\ UNCHANGED scheduler_token => BridgeType'
<1>1. LifeType /\ UNCHANGED life_vars => LifeType'
  BY DEF LifeType, life_vars
<1>2. TargetType /\ UNCHANGED target_vars => TargetType' /\ UNCHANGED allocated
  BY DEF TargetType, target_vars
<1>3. HostType /\ UNCHANGED host_vars => HostType'
  BY DEF HostType, host_vars
<1>4. WorkerType /\ UNCHANGED worker_vars => WorkerType'
  BY DEF WorkerType, worker_vars
<1>5. BridgeType /\ UNCHANGED irq /\ UNCHANGED scheduler_token => BridgeType'
  BY DEF BridgeType
<1> QED
  BY <1>1, <1>2, <1>3, <1>4, <1>5

\* The other workers' pins and locals are theirs.
LEMMA OthersKept ==
    ASSUME PinsMatch, \A v \in Workers : Local(v), NEW w \in Workers, Others(w),
           \A v \in Workers \ {w} : \A lv \in Levels : pin'[<<v, lv>>] = pin[<<v, lv>>],
           pin'[<<w, "op">>] = OpPinned(w)', pin'[<<w, "irq">>] = IrqPinned(w)',
           Local(w)'
    PROVE  PinsMatch' /\ \A v \in Workers : Local(v)'
<1>1. ASSUME NEW v \in Workers \ {w}
      PROVE  /\ OpPinned(v)' = OpPinned(v) /\ IrqPinned(v)' = IrqPinned(v)
             /\ Local(v)'
  <2>1. pc'[v] = pc[v] /\ op'[v] = op[v] /\ loc'[v] = loc[v] /\ irq'[v] = irq[v]
    BY DEF Others
  <2> QED
    BY <2>1 DEF OpPinned, IrqPinned, Local, OwnsTarget
<1>2. \A v \in Workers \ {w} : pin'[<<v, "op">>] = pin[<<v, "op">>]
                              /\ pin'[<<v, "irq">>] = pin[<<v, "irq">>]
  BY DEF Levels
<1> QED
  BY <1>1, <1>2 DEF PinsMatch

\* Only a start that is admitted and one that takes its token count.
LEMMA TokensKept ==
    ASSUME TokensLeft, ControlType, next_token \in Nat, NEW w \in Workers, Others(w),
           pc'[w] # "start_lock", UNCHANGED next_token
    PROVE  TokensLeft'
<1>1. Starting' \subseteq Starting
  BY DEF Starting, Others
<1>2. IsFiniteSet(Starting)
  BY WorkersAssumption, FS_Subset DEF Starting
<1>3. Cardinality(Starting') <= Cardinality(Starting)
      /\ Cardinality(Starting') \in Nat /\ Cardinality(Starting) \in Nat
  BY <1>1, <1>2, FS_Subset, FS_CardinalityType
<1> QED
  BY <1>3, TokenAssumption DEF TokensLeft

\* Steps that neither touch the protocol nor start or end a use of a target.
PinnedPcs == ScanPcs \cup {"discard_use"}
LEMMA Still ==
    ASSUME HInv, NEW w \in Workers, ControlType', Others(w),
           UNCHANGED life_vars, UNCHANGED allocated, UNCHANGED irq,
           TargetType', HostType', WorkerType', BridgeType',
           pc[w] \notin PinnedPcs, pc'[w] \notin PinnedPcs \cup {"start_lock"},
           Local(w)'
    PROVE  HInv'
<1> USE DEF HInv
<1>1. TypeInv'
  BY Kept DEF TypeInv
<1>2. pin'[<<w, "op">>] = OpPinned(w)' /\ pin'[<<w, "irq">>] = IrqPinned(w)'
  BY DEF PinsMatch, PinnedPcs, OpPinned, IrqPinned, life_vars
<1>3. \A v \in Workers \ {w} : \A lv \in Levels : pin'[<<v, lv>>] = pin[<<v, lv>>]
  BY DEF life_vars
<1>4. PinsMatch' /\ \A v \in Workers : Local(v)'
  BY <1>2, <1>3, OthersKept
<1>5. AllocatedIsLive'
  BY DEF AllocatedIsLive, life_vars
<1>6. TokensLeft'
  BY TokensKept DEF TypeInv, LifeType, life_vars
<1> QED
  BY <1>1, <1>4, <1>5, <1>6

\* A thread moves on inside its call: its locals stay, or their target does.
Onward == Pcs \ (PinnedPcs \cup {"start_lock", "quiesce_lock", "release_wait", "find_pin"})

LEMMA StillGoto ==
    ASSUME HInv, NEW w \in Workers, NEW p \in Onward, Goto(w, p),
           UNCHANGED life_vars, UNCHANGED allocated, TargetType', HostType', WorkerType',
           pc[w] \notin PinnedPcs \cup {"start_lock", "quiesce_lock"},
           p \in Rollback => op[w] = "start"
    PROVE  HInv'
<1> USE DEF HInv, TypeInv
<1>1. /\ ControlType' /\ Others(w)
      /\ pc'[w] = p /\ op'[w] = op[w] /\ loc'[w] = loc[w]
      /\ UNCHANGED irq /\ UNCHANGED scheduler_token
  BY GotoFacts DEF Onward
<1>2. BridgeType'
  BY <1>1, Kept
<1>3. pc'[w] \notin PinnedPcs \cup {"start_lock"}
  BY <1>1 DEF Onward
<1>4. Local(w)'
  BY <1>1 DEF Local, OwnsTarget, Onward, PinnedPcs
<1> QED
  BY <1>1, <1>2, <1>3, <1>4, Still

LEMMA StillGotoWith ==
    ASSUME HInv, NEW w \in Workers, NEW p \in Onward, NEW l \in LocType,
           GotoWith(w, p, l), l.i # 0, l.target = loc[w].target,
           UNCHANGED life_vars, UNCHANGED allocated, TargetType', HostType', WorkerType',
           pc[w] \notin PinnedPcs \cup {"start_lock", "quiesce_lock"},
           p \in Rollback => op[w] = "start"
    PROVE  HInv'
<1> USE DEF HInv, TypeInv
<1>1. /\ ControlType' /\ Others(w)
      /\ pc'[w] = p /\ op'[w] = op[w] /\ loc'[w] = l
      /\ UNCHANGED irq /\ UNCHANGED scheduler_token
  BY GotoWithFacts DEF Onward
<1>2. BridgeType'
  BY <1>1, Kept
<1>3. pc'[w] \notin PinnedPcs \cup {"start_lock"}
  BY <1>1 DEF Onward
<1>4. Local(w)'
  BY <1>1 DEF Local, OwnsTarget, Onward, PinnedPcs
<1> QED
  BY <1>1, <1>2, <1>3, <1>4, Still

\* A call other than a start begins; no target is named yet.
LEMMA CallLocal ==
    ASSUME NEW w \in Workers, pc'[w] \in Entries, loc'[w].i # 0, UNCHANGED irq, Local(w),
           op'[w] \in {"start", "quiesce"} => pc'[w] \in {"start_lock", "quiesce_lock"}
    PROVE  Local(w)' /\ pc'[w] \notin PinnedPcs
  BY DEF Local, OwnsTarget, Entries, PinnedPcs, ScanPcs, Rollback

LEMMA StillCall ==
    ASSUME HInv, NEW w \in Workers, NEW o \in Ops \ {"start"}, NEW l \in LocType,
           Call(w, o, l), l.i # 0, UNCHANGED irq, UNCHANGED scheduler_token,
           UNCHANGED life_vars, UNCHANGED allocated, TargetType', HostType', WorkerType',
           pc[w] \notin PinnedPcs
    PROVE  HInv'
<1> USE DEF HInv, TypeInv
<1>1. /\ ControlType' /\ Others(w)
      /\ pc'[w] = Entry(o) /\ op'[w] = o /\ loc'[w] = l
  BY CallFacts
<1>2. BridgeType'
  BY Kept
<1>3. pc'[w] \in Entries \ {"start_lock"}
      /\ (o = "quiesce" => pc'[w] = "quiesce_lock")
  BY <1>1, EntryFacts
<1>4. Local(w)' /\ pc'[w] \notin PinnedPcs
  BY <1>1, <1>3, CallLocal
<1> QED
  BY <1>1, <1>2, <1>3, <1>4, Still

LEMMA StillReturn ==
    ASSUME HInv, NEW w \in Workers, Return(w),
           UNCHANGED life_vars, UNCHANGED allocated, TargetType', HostType', WorkerType',
           pc[w] \notin PinnedPcs
    PROVE  HInv'
<1> USE DEF HInv, TypeInv
<1>1. /\ ControlType' /\ Others(w)
      /\ pc'[w] \in Entries \ {"start_lock", "discard_pin"}
      /\ (op'[w] \in {"start", "quiesce"} => pc'[w] = "quiesce_lock")
      /\ loc'[w].i = 1
      /\ UNCHANGED irq /\ UNCHANGED scheduler_token
  BY ReturnFacts
<1>2. BridgeType'
  BY <1>1, Kept
<1>3. Local(w)' /\ pc'[w] \notin PinnedPcs
  BY <1>1, CallLocal
<1> QED
  BY <1>1, <1>2, <1>3, Still

LEMMA StillReturnTo ==
    ASSUME HInv, NEW w \in Workers, NEW o \in {"none", "end"}, ReturnTo(w, o),
           UNCHANGED life_vars, UNCHANGED allocated, TargetType', HostType', WorkerType',
           BridgeType', pc[w] \notin PinnedPcs
    PROVE  HInv'
<1> USE DEF HInv, TypeInv
<1>1. /\ ControlType' /\ Others(w)
      /\ pc'[w] = Entry(o) /\ op'[w] = o /\ loc'[w].i = 1
      /\ UNCHANGED irq
  BY ReturnToFacts DEF Ops
<1>2. pc'[w] \in Entries \ {"start_lock"}
  BY <1>1, EntryFacts DEF Ops
<1>3. Local(w)' /\ pc'[w] \notin PinnedPcs
  BY <1>1, <1>2, CallLocal
<1> QED
  BY <1>1, <1>2, <1>3, Still

-----------------------------------------------------------------------------
(* The calls of the VMs and the scheduler.                                 *)

LEMMA ClientFacts ==
    ASSUME HInv, NEW w \in Workers, Idle(w)
    PROVE  /\ pc[w] \notin PinnedPcs
           /\ slot[w] \in SlotType /\ [NoLoc EXCEPT !.prev = slot[w]] \in LocType
           /\ [NoLoc EXCEPT !.prev = slot[w]].i = 1
<1>1. slot[w] \in SlotType
  BY DEF HInv, TypeInv, WorkerType
<1> QED
  BY <1>1, NoLocFacts, LocPrev DEF Idle, At, PinnedPcs, ScanPcs, SetAside

\* A service is entered: its worker's slot is withdrawn first.
LEMMA EnterInv ==
    ASSUME HInv, NEW w \in Workers, NEW h \in Handles, dispatch_enter(w, h)
    PROVE  HInv'
<1>1. PICK l \in LocType :
        /\ Idle(w) /\ Call(w, "enter", l) /\ l.i = 1
        /\ UNCHANGED irq /\ UNCHANGED scheduler_token
        /\ UNCHANGED life_vars /\ UNCHANGED target_vars /\ UNCHANGED host_vars
  BY ClientFacts DEF dispatch_enter, Withdraw
<1>2. TargetType' /\ HostType' /\ UNCHANGED allocated
  BY <1>1, Kept DEF HInv, TypeInv
<1>3. WorkerType'
  BY SlotFacts DEF HInv, TypeInv, WorkerType, dispatch_enter, Withdraw, Mask, PublishMasked
<1>4. pc[w] \notin PinnedPcs /\ "enter" \in Ops \ {"start"}
  BY <1>1, ClientFacts DEF Ops
<1> QED
  BY <1>1, <1>2, <1>3, <1>4, StillCall

\* A service is left.
LEMMA LeaveInv ==
    ASSUME HInv, NEW w \in Workers, dispatch_leave(w)
    PROVE  HInv'
<1>1. PICK l \in LocType :
        /\ Idle(w) /\ Call(w, "leave", l) /\ l.i = 1
        /\ UNCHANGED irq /\ UNCHANGED scheduler_token
        /\ UNCHANGED life_vars /\ UNCHANGED target_vars /\ UNCHANGED host_vars
  BY ClientFacts DEF dispatch_leave, Withdraw
<1>2. TargetType' /\ HostType' /\ UNCHANGED allocated
  BY <1>1, Kept DEF HInv, TypeInv
<1>3. WorkerType'
  BY SlotFacts DEF HInv, TypeInv, WorkerType, dispatch_leave, Withdraw, Mask, PublishMasked
<1>4. pc[w] \notin PinnedPcs /\ "leave" \in Ops \ {"start"}
  BY <1>1, ClientFacts DEF Ops
<1> QED
  BY <1>1, <1>2, <1>3, <1>4, StillCall

\* Profiler work, a change of state and a stop begin with a call that names the
\* session.
LEMMA SessionCallInv ==
    ASSUME HInv, NEW w \in Workers,
           \/ profiler_work(w) \/ publish_state(w)
           \/ \E h \in Handles : stop_collector(w, h)
    PROVE  HInv'
<1> USE DEF HInv, TypeInv
<1>1. PICK o \in {"begin", "publish"}, l \in LocType :
        /\ Call(w, o, l) /\ l.i = 1 /\ Idle(w)
        /\ UNCHANGED irq /\ UNCHANGED scheduler_token
        /\ UNCHANGED life_vars /\ UNCHANGED target_vars /\ UNCHANGED host_vars
        /\ UNCHANGED worker_vars
  <2>1. CASE profiler_work(w) \/ publish_state(w)
    <3>1. Running(w) \in Handles
      BY <2>1 DEF WorkerType, Running, Profiled, Dispatching, profiler_work, publish_state
    <3>2. scheduler_token[Running(w)] \in Nat
      BY <3>1 DEF BridgeType
    <3> QED
      BY <2>1, <3>2, NoLocFacts DEF profiler_work, publish_state
  <2>2. CASE \E h \in Handles : stop_collector(w, h)
    <3>1. PICK h \in Handles : stop_collector(w, h)
      BY <2>2
    <3>2. scheduler_token[h] \in Nat
      BY DEF BridgeType
    <3> QED
      BY <3>1, <3>2, NoLocFacts DEF stop_collector
  <2> QED
    BY <2>1, <2>2
<1>2. TargetType' /\ HostType' /\ WorkerType' /\ UNCHANGED allocated
  BY <1>1, Kept
<1>3. pc[w] \notin PinnedPcs /\ o \in Ops \ {"start"}
  BY <1>1, ClientFacts DEF Ops
<1> QED
  BY <1>1, <1>2, <1>3, StillCall

-----------------------------------------------------------------------------
(* The steps of a call that hold no pin and change no lifecycle word.      *)

\* The discarded signals had no owner.
LEMMA DiscardUnownedInv ==
    ASSUME HInv, NEW w \in Workers, discard_unowned(w)
    PROVE  HInv'
<1>1. /\ pc[w] = "discard_pin" /\ Goto(w, "sync_count")
      /\ UNCHANGED life_vars /\ UNCHANGED target_vars /\ UNCHANGED host_vars
  BY DEF discard_unowned, At, AfterDiscard
<1>2. TargetType' /\ HostType' /\ UNCHANGED allocated
  BY <1>1, Kept DEF HInv, TypeInv
<1>3. WorkerType'
  BY DEF HInv, TypeInv, WorkerType, discard_unowned
<1>4. "sync_count" \in Onward /\ "sync_count" \notin Rollback
  BY DEF Onward, PinnedPcs, ScanPcs, Pcs, Rollback
<1> QED
  BY <1>1, <1>2, <1>3, <1>4, StillGoto DEF PinnedPcs, ScanPcs

\* sync_worker_timer loads the count ...
LEMMA SyncCountInv ==
    ASSUME HInv, NEW w \in Workers, sync_count(w)
    PROVE  HInv'
<1> USE DEF HInv, TypeInv
<1>1. PICK l \in LocType :
        /\ GotoWith(w, "sync_hz", l) /\ l.i # 0 /\ l.target = loc[w].target
        /\ pc[w] = "sync_count"
        /\ UNCHANGED life_vars /\ UNCHANGED target_vars /\ UNCHANGED host_vars
        /\ UNCHANGED worker_vars
  <2>1. loc[w] \in LocType /\ active_targets \in Nat /\ loc[w].i # 0
    BY DEF ControlType, HostType, Local
  <2> QED
    BY <2>1, LocCount DEF sync_count, At
<1>2. TargetType' /\ HostType' /\ WorkerType' /\ UNCHANGED allocated
  BY <1>1, Kept
<1>3. "sync_hz" \in Onward /\ "sync_hz" \notin Rollback
  BY DEF Onward, PinnedPcs, ScanPcs, Pcs, Rollback
<1> QED
  BY <1>1, <1>2, <1>3, StillGotoWith DEF PinnedPcs, ScanPcs

LEMMA AfterSyncFacts ==
    ASSUME NEW o \in Ops
    PROVE  AfterSync[o] \in Onward \ Rollback
  BY DEF AfterSync, Onward, PinnedPcs, ScanPcs, Pcs, Rollback

\* ... then the frequency, and arms the timer ...
LEMMA SyncHzInv ==
    ASSUME HInv, NEW w \in Workers, sync_hz(w)
    PROVE  HInv'
<1> USE DEF HInv, TypeInv
<1>1. PICK l \in LocType :
        /\ GotoWith(w, AfterSync[op[w]], l) /\ l.i # 0 /\ l.target = loc[w].target
        /\ pc[w] = "sync_hz"
        /\ UNCHANGED life_vars /\ UNCHANGED target_vars /\ UNCHANGED host_vars
  <2>1. loc[w] \in LocType /\ loc[w].i # 0
    BY DEF ControlType, Local
  <2> QED
    BY <2>1, LocCount DEF sync_hz, At
<1>2. TargetType' /\ HostType' /\ UNCHANGED allocated
  BY <1>1, Kept
<1>3. WorkerType'
  <2>1. WantedHz(w) \in Nat
    BY DEF WantedHz, HostType
  <2> QED
    BY <2>1 DEF WorkerType, sync_hz
<1>4. AfterSync[op[w]] \in Onward \ Rollback
  BY AfterSyncFacts DEF ControlType
<1> QED
  BY <1>1, <1>2, <1>3, <1>4, StillGotoWith DEF PinnedPcs, ScanPcs

\* ... or fails to, and marks the host.
LEMMA SyncFailsInv ==
    ASSUME HInv, NEW w \in Workers, sync_fails(w)
    PROVE  HInv'
<1> USE DEF HInv, TypeInv
<1> DEFINE l == Failed(loc[w])
<1>1. loc[w] \in LocType /\ loc[w].i # 0
  BY DEF ControlType, Local
<1>2. l \in LocType /\ l.i # 0 /\ l.target = loc[w].target
  BY <1>1, LocIndex
<1>3. /\ GotoWith(w, "fail_scan", l) /\ pc[w] = "sync_hz"
      /\ UNCHANGED life_vars /\ UNCHANGED target_vars /\ UNCHANGED worker_vars
  BY DEF sync_fails, At, Failed
<1> HIDE DEF l
<1>4. TargetType' /\ WorkerType' /\ UNCHANGED allocated
  BY <1>3, Kept
<1>5. HostType'
  BY DEF HostType, sync_fails
<1>6. "fail_scan" \in Onward /\ "fail_scan" \notin Rollback
  BY DEF Onward, PinnedPcs, ScanPcs, Pcs, Rollback
<1> QED
  BY <1>2, <1>3, <1>4, <1>5, <1>6, StillGotoWith DEF PinnedPcs, ScanPcs

\* The scan for sessions to tell goes on ...
LEMMA FailSkipInv ==
    ASSUME HInv, NEW w \in Workers, fail_skip(w)
    PROVE  HInv'
<1> USE DEF HInv, TypeInv
<1> DEFINE l == Advanced(loc[w])
<1>1. loc[w] \in LocType /\ loc[w].i # 0
  BY DEF ControlType, Local
<1>2. l \in LocType /\ l.i # 0 /\ l.target = loc[w].target
  BY <1>1, LocIndex
<1>3. /\ GotoWith(w, "fail_scan", l) /\ pc[w] = "fail_scan"
      /\ UNCHANGED life_vars /\ UNCHANGED target_vars /\ UNCHANGED host_vars
      /\ UNCHANGED worker_vars
  BY DEF fail_skip, At, Advanced
<1> HIDE DEF l
<1>4. TargetType' /\ HostType' /\ WorkerType' /\ UNCHANGED allocated
  BY <1>3, Kept
<1>5. "fail_scan" \in Onward /\ "fail_scan" \notin Rollback
  BY DEF Onward, PinnedPcs, ScanPcs, Pcs, Rollback
<1> QED
  BY <1>2, <1>3, <1>4, <1>5, StillGotoWith DEF PinnedPcs, ScanPcs

\* ... or ends.
LEMMA FailEndInv ==
    ASSUME HInv, NEW w \in Workers, fail_end(w)
    PROVE  HInv'
<1> USE DEF HInv, TypeInv
<1> DEFINE l == Rewound(loc[w])
           p == IF op[w] = "start" THEN "rollback_lock" ELSE AfterSync[op[w]]
<1>1. loc[w] \in LocType /\ loc[w].i # 0 /\ op[w] \in Ops
  BY DEF ControlType, Local
<1>2. l \in LocType /\ l.i # 0 /\ l.target = loc[w].target
  BY <1>1, LocIndex
<1>3. /\ GotoWith(w, p, l) /\ pc[w] = "fail_scan"
      /\ UNCHANGED life_vars /\ UNCHANGED target_vars /\ UNCHANGED host_vars
      /\ UNCHANGED worker_vars
  BY DEF fail_end, At, Rewound
<1>4. p \in Onward /\ (p \in Rollback => op[w] = "start")
  <2>1. AfterSync[op[w]] \in Onward \ Rollback
    BY <1>1, AfterSyncFacts
  <2>2. "rollback_lock" \in Onward
    BY DEF Onward, PinnedPcs, ScanPcs, Pcs
  <2> QED
    BY <2>1, <2>2
<1> HIDE DEF l, p
<1>5. TargetType' /\ HostType' /\ WorkerType' /\ UNCHANGED allocated
  BY <1>3, Kept
<1> QED
  BY <1>2, <1>3, <1>4, <1>5, StillGotoWith DEF PinnedPcs, ScanPcs

\* The dispatch is over.
LEMMA LeaveEndInv ==
    ASSUME HInv, NEW w \in Workers, leave_end(w)
    PROVE  HInv'
<1>1. /\ pc[w] = "leave_end" /\ Return(w)
      /\ UNCHANGED life_vars /\ UNCHANGED target_vars /\ UNCHANGED host_vars
  BY DEF leave_end, At
<1>2. TargetType' /\ HostType' /\ UNCHANGED allocated
  BY <1>1, Kept DEF HInv, TypeInv
<1>3. WorkerType'
  BY DEF HInv, TypeInv, WorkerType, leave_end, Unmask
<1> QED
  BY <1>1, <1>2, <1>3, StillReturn DEF PinnedPcs, ScanPcs

-----------------------------------------------------------------------------
(* Starts, roll-backs and stops, between their owner steps.                *)

\* The session's frequency, then its count, become visible to the others.
LEMMA StartHzInv ==
    ASSUME HInv, NEW w \in Workers, start_hz(w)
    PROVE  HInv'
<1> USE DEF HInv, TypeInv
<1>1. /\ pc[w] = "start_hz" /\ Goto(w, "start_count")
      /\ UNCHANGED life_vars /\ UNCHANGED target_vars /\ UNCHANGED worker_vars
  BY DEF start_hz, At
<1>2. TargetType' /\ WorkerType' /\ UNCHANGED allocated
  BY <1>1, Kept
<1>3. HostType'
  <2>1. loc[w].hz \in Nat
    BY LocFields DEF ControlType
  <2> QED
    BY <2>1 DEF HostType, start_hz
<1>4. "start_count" \in Onward /\ "start_count" \notin Rollback
  BY DEF Onward, PinnedPcs, ScanPcs, Pcs, Rollback
<1> QED
  BY <1>1, <1>2, <1>3, <1>4, StillGoto DEF PinnedPcs, ScanPcs

LEMMA StartCountInv ==
    ASSUME HInv, NEW w \in Workers, start_count(w)
    PROVE  HInv'
<1> USE DEF HInv, TypeInv
<1> DEFINE l == SetAside(loc[w], slot[w])
<1>1. loc[w] \in LocType /\ loc[w].i # 0 /\ slot[w] \in SlotType
  BY DEF ControlType, WorkerType, Local
<1>2. l \in LocType /\ l.i # 0 /\ l.target = loc[w].target
  BY <1>1, LocPrev
<1>3. /\ GotoWith(w, "discard_pin", l) /\ pc[w] = "start_count"
      /\ UNCHANGED life_vars /\ UNCHANGED target_vars
  BY DEF start_count, At, SetAside
<1> HIDE DEF l
<1>4. TargetType' /\ UNCHANGED allocated
  BY <1>3, Kept
<1>5. HostType'
  BY DEF HostType, start_count
<1>6. WorkerType'
  BY SlotFacts DEF WorkerType, start_count, Mask, PublishMasked
<1>7. "discard_pin" \in Onward /\ "discard_pin" \notin Rollback
  BY DEF Onward, PinnedPcs, ScanPcs, Pcs, Rollback
<1> QED
  BY <1>2, <1>3, <1>4, <1>5, <1>6, <1>7, StillGotoWith DEF PinnedPcs, ScanPcs

\* The service's bridge gets the token, its worker the slot.
LEMMA StartPublishInv ==
    ASSUME HInv, NEW w \in Workers, start_publish(w)
    PROVE  HInv'
<1> USE DEF HInv, TypeInv
<1>1. /\ pc[w] = "start_publish" /\ ReturnTo(w, "end")
      /\ UNCHANGED life_vars /\ UNCHANGED target_vars /\ UNCHANGED host_vars
  BY DEF start_publish, At
<1>2. TargetType' /\ HostType' /\ UNCHANGED allocated
  BY <1>1, Kept
<1>3. loc[w].arg \in Nat /\ loc[w].target \in Targets \cup {NoTarget}
  BY LocFields DEF ControlType
<1>4. WorkerType'
  <2>1. Running(w) \in Handles \cup {NoHandle}
    BY DEF WorkerType, Running
  <2>2. [target |-> loc[w].target, token |-> loc[w].arg, vm |-> Running(w)] \in SlotType
    BY <1>3, <2>1, SlotFacts
  <2> QED
    BY <2>2 DEF WorkerType, start_publish, Unmask, PublishMasked
<1>5. BridgeType'
  <2>1. UNCHANGED irq
    BY DEF start_publish, ReturnTo
  <2> QED
    BY <1>3, <2>1 DEF BridgeType, start_publish
<1> QED
  BY <1>1, <1>2, <1>4, <1>5, StillReturnTo DEF PinnedPcs, ScanPcs

LEMMA StartRefusedInv ==
    ASSUME HInv, NEW w \in Workers, start_refused(w)
    PROVE  HInv'
<1> USE DEF HInv, TypeInv
<1>1. /\ pc[w] = "start_lock" /\ ReturnTo(w, "none")
      /\ UNCHANGED life_vars /\ UNCHANGED target_vars /\ UNCHANGED host_vars
      /\ UNCHANGED worker_vars /\ UNCHANGED irq /\ UNCHANGED scheduler_token
  BY DEF start_refused, At, ReturnTo
<1>2. TargetType' /\ HostType' /\ WorkerType' /\ BridgeType' /\ UNCHANGED allocated
  BY <1>1, Kept
<1> QED
  BY <1>1, <1>2, StillReturnTo DEF PinnedPcs, ScanPcs

\* A session is taken out of the count, by a roll-back or a quiesce.
LEMMA DropCountInv ==
    ASSUME HInv, NEW w \in Workers,
           NEW from \in {"rollback_count", "quiesce_count"},
           NEW to \in {"rollback_hz", "quiesce_hz"},
           to = "rollback_hz" => from = "rollback_count",
           drop_count(w, from, to)
    PROVE  HInv'
<1> USE DEF HInv, TypeInv
<1>1. /\ pc[w] = from /\ Goto(w, to)
      /\ UNCHANGED life_vars /\ UNCHANGED target_vars /\ UNCHANGED worker_vars
  BY DEF drop_count, At
<1>2. TargetType' /\ WorkerType' /\ UNCHANGED allocated
  BY <1>1, Kept
<1>3. HostType'
  BY DEF HostType, drop_count
<1>4. to \in Onward /\ (to \in Rollback => op[w] = "start")
  BY <1>1 DEF Onward, PinnedPcs, ScanPcs, Pcs, Rollback, Local
<1>5. pc[w] \notin PinnedPcs \cup {"start_lock", "quiesce_lock"}
  BY <1>1 DEF PinnedPcs, ScanPcs
<1> QED
  BY <1>1, <1>2, <1>3, <1>4, <1>5, StillGoto

LEMMA RollbackHzInv ==
    ASSUME HInv, NEW w \in Workers, rollback_hz(w)
    PROVE  HInv'
<1> USE DEF HInv, TypeInv
<1>1. /\ pc[w] = "rollback_hz" /\ Goto(w, "rollback_wait")
      /\ UNCHANGED life_vars /\ UNCHANGED target_vars /\ UNCHANGED worker_vars
  BY DEF rollback_hz, At
<1>2. TargetType' /\ WorkerType' /\ UNCHANGED allocated
  BY <1>1, Kept
<1>3. HostType'
  BY DEF HostType, rollback_hz, DropHz
<1>4. "rollback_wait" \in Onward /\ op[w] = "start"
  BY <1>1 DEF Onward, PinnedPcs, ScanPcs, Pcs, Rollback, Local
<1> QED
  BY <1>1, <1>2, <1>3, <1>4, StillGoto DEF PinnedPcs, ScanPcs

\* A quiesce leaves the lock and discards its worker's ticks.
LEMMA QuiesceHzInv ==
    ASSUME HInv, NEW w \in Workers, quiesce_hz(w)
    PROVE  HInv'
<1> USE DEF HInv, TypeInv
<1> DEFINE p == [NoSlot EXCEPT !.target = loc[w].target, !.token = loc[w].arg]
           l == SetAside(loc[w], p)
<1>1. loc[w] \in LocType /\ loc[w].i # 0
  BY DEF ControlType, Local
<1>2. p \in SlotType
  BY <1>1, LocFields, SlotFacts
<1>3. /\ GotoWith(w, "discard_pin", l) /\ pc[w] = "quiesce_hz"
      /\ UNCHANGED life_vars /\ UNCHANGED target_vars
  BY DEF quiesce_hz, At, SetAside
<1> HIDE DEF p
<1>4. l \in LocType /\ l.i # 0 /\ l.target = loc[w].target
  BY <1>1, <1>2, LocPrev
<1> HIDE DEF l
<1>5. TargetType' /\ UNCHANGED allocated
  BY <1>3, Kept
<1>6. HostType'
  BY DEF HostType, quiesce_hz, DropHz
<1>7. WorkerType'
  BY SlotFacts DEF WorkerType, quiesce_hz, Mask, PublishMasked
<1>8. "discard_pin" \in Onward /\ "discard_pin" \notin Rollback
  BY DEF Onward, PinnedPcs, ScanPcs, Pcs, Rollback
<1> QED
  BY <1>3, <1>4, <1>5, <1>6, <1>7, <1>8, StillGotoWith DEF PinnedPcs, ScanPcs

LEMMA CountType ==
    ASSUME quality \in [Targets -> SUBSET Kinds], NEW t, NEW kind \in Kinds,
           Count(t, kind)
    PROVE  quality' \in [Targets -> SUBSET Kinds]
<1>1. \A s \in Targets : quality[s] \cup {kind} \in SUBSET Kinds
  OBVIOUS
<1> QED
  BY <1>1 DEF Count

LEMMA QuiesceEndInv ==
    ASSUME HInv, NEW w \in Workers, quiesce_end(w)
    PROVE  HInv'
<1> USE DEF HInv, TypeInv
<1>1. /\ pc[w] = "quiesce_end" /\ Goto(w, "quiesce_wait")
      /\ UNCHANGED life_vars /\ UNCHANGED host_vars /\ UNCHANGED allocated
  BY DEF quiesce_end, At
<1>2. HostType'
  BY <1>1, Kept
<1>3. TargetType'
  <2>1. "timer_failures" \in Kinds
    BY DEF Kinds
  <2>2. quality' \in [Targets -> SUBSET Kinds]
    BY <2>1, CountType DEF TargetType, quiesce_end
  <2> QED
    BY <2>2 DEF TargetType, quiesce_end
<1>4. WorkerType'
  BY DEF WorkerType, quiesce_end, Unmask
<1>5. "quiesce_wait" \in Onward /\ "quiesce_wait" \notin Rollback
  BY DEF Onward, PinnedPcs, ScanPcs, Pcs, Rollback
<1> QED
  BY <1>1, <1>2, <1>3, <1>4, <1>5, StillGoto DEF PinnedPcs, ScanPcs

LEMMA QuiesceWaitInv ==
    ASSUME HInv, NEW w \in Workers, quiesce_wait(w)
    PROVE  HInv'
<1>1. /\ pc[w] = "quiesce_wait" /\ Return(w)
      /\ UNCHANGED life_vars /\ UNCHANGED target_vars /\ UNCHANGED host_vars
      /\ UNCHANGED worker_vars
  BY DEF quiesce_wait, At
<1>2. TargetType' /\ HostType' /\ WorkerType' /\ UNCHANGED allocated
  BY <1>1, Kept DEF HInv, TypeInv
<1> QED
  BY <1>1, <1>2, StillReturn DEF PinnedPcs, ScanPcs

-----------------------------------------------------------------------------
(* The search for a session.                                               *)

LEMMA NextTargetInv ==
    ASSUME HInv, NEW w \in Workers, NextTarget(w), pc[w] \in {"find", "find_pin"},
           UNCHANGED life_vars, UNCHANGED target_vars, UNCHANGED host_vars,
           UNCHANGED worker_vars
    PROVE  HInv'
<1> USE DEF HInv, TypeInv
<1> DEFINE l == Advanced(loc[w])
<1>1. loc[w] \in LocType /\ loc[w].i # 0
  BY DEF ControlType, Local
<1>2. l \in LocType /\ l.i # 0 /\ l.target = loc[w].target
  BY <1>1, LocIndex
<1>3. GotoWith(w, "find", l)
  BY DEF NextTarget, Advanced
<1> HIDE DEF l
<1>4. TargetType' /\ HostType' /\ WorkerType' /\ UNCHANGED allocated
  BY Kept
<1>5. "find" \in Onward /\ "find" \notin Rollback
  BY DEF Onward, PinnedPcs, ScanPcs, Pcs, Rollback
<1> QED
  BY <1>2, <1>3, <1>4, <1>5, StillGotoWith DEF PinnedPcs, ScanPcs

LEMMA FindInv ==
    ASSUME HInv, NEW w \in Workers, find(w)
    PROVE  HInv'
<1> USE DEF HInv, TypeInv
<1>1. /\ pc[w] = "find" /\ loc[w].i <= NumTargets
      /\ Goto(w, "find_pin") \/ NextTarget(w)
      /\ UNCHANGED life_vars /\ UNCHANGED target_vars /\ UNCHANGED host_vars
      /\ UNCHANGED worker_vars
  BY DEF find, At
<1>2. CASE NextTarget(w)
  BY <1>1, <1>2, NextTargetInv
<1>3. CASE Goto(w, "find_pin")
  <2>1. /\ ControlType' /\ Others(w)
        /\ pc'[w] = "find_pin" /\ op'[w] = op[w] /\ loc'[w] = loc[w]
        /\ UNCHANGED irq /\ UNCHANGED scheduler_token
    BY <1>3, GotoFacts DEF Pcs
  <2>2. TargetType' /\ HostType' /\ WorkerType' /\ BridgeType' /\ UNCHANGED allocated
    BY <1>1, <2>1, Kept
  <2>3. loc[w].i \in Targets
    <3>1. loc[w].i \in Nat /\ loc[w].i # 0
      BY LocFields DEF ControlType, Local
    <3> QED
      BY <1>1, <3>1, TargetsAssumption DEF Targets
  <2>4. Local(w)'
    BY <1>1, <2>1, <2>3 DEF Local, OwnsTarget, PinnedPcs, ScanPcs, Rollback
  <2>5. pc[w] \notin PinnedPcs /\ pc'[w] \notin PinnedPcs \cup {"start_lock"}
    BY <1>1, <2>1 DEF PinnedPcs, ScanPcs
  <2> QED
    BY <1>1, <2>1, <2>2, <2>4, <2>5, Still
<1> QED
  BY <1>1, <1>2, <1>3

LEMMA FindMissedInv ==
    ASSUME HInv, NEW w \in Workers, find_missed(w)
    PROVE  HInv'
<1>1. /\ pc[w] = "find_pin" /\ NextTarget(w)
      /\ UNCHANGED life_vars /\ UNCHANGED target_vars /\ UNCHANGED host_vars
      /\ UNCHANGED worker_vars
  BY DEF find_missed, At
<1> QED
  BY <1>1, NextTargetInv

LEMMA FindNoneInv ==
    ASSUME HInv, NEW w \in Workers, find_none(w)
    PROVE  HInv'
<1>1. /\ pc[w] = "find" /\ Return(w)
      /\ UNCHANGED life_vars /\ UNCHANGED target_vars /\ UNCHANGED host_vars
  BY DEF find_none, At
<1>2. TargetType' /\ HostType' /\ UNCHANGED allocated
  BY <1>1, Kept DEF HInv, TypeInv
<1>3. WorkerType'
  BY DEF HInv, TypeInv, WorkerType, find_none, Unmask
<1> QED
  BY <1>1, <1>2, <1>3, StillReturn DEF PinnedPcs, ScanPcs

-----------------------------------------------------------------------------
(* Calls and ticks that only one part of the invariant has to do with.     *)

\* A start is admitted: a token is left for it.
LEMMA TargetStartInv ==
    ASSUME HInv, NEW w \in Workers, NEW hz \in Hz, target_start(w, hz)
    PROVE  HInv'
<1> USE DEF HInv, TypeInv
<1> DEFINE l == [NoLoc EXCEPT !.hz = hz]
<1>1. l \in LocType /\ l.i = 1
  BY NoLocFacts, HzAssumption
<1>2. /\ Call(w, "start", l) /\ pc[w] = "idle"
      /\ UNCHANGED life_vars /\ UNCHANGED target_vars /\ UNCHANGED host_vars
      /\ UNCHANGED worker_vars /\ UNCHANGED irq /\ UNCHANGED scheduler_token
  BY DEF target_start, Idle, At
<1> HIDE DEF l
<1>3. /\ ControlType' /\ Others(w)
      /\ pc'[w] = Entry("start") /\ op'[w] = "start" /\ loc'[w] = l
  BY <1>1, <1>2, CallFacts DEF Ops
<1>4. pc'[w] = "start_lock"
  BY <1>3, EntryFacts DEF Ops
<1>5. TypeInv'
  BY <1>2, <1>3, Kept
<1>6. Local(w)' /\ pc'[w] \notin PinnedPcs
  BY <1>1, <1>2, <1>3, <1>4, CallLocal DEF Entries
<1>7. PinsMatch' /\ \A v \in Workers : Local(v)'
  <2>1. pin'[<<w, "op">>] = OpPinned(w)' /\ pin'[<<w, "irq">>] = IrqPinned(w)'
    BY <1>2, <1>4 DEF PinsMatch, OpPinned, IrqPinned, ScanPcs, life_vars
  <2>2. \A v \in Workers \ {w} : \A lv \in Levels : pin'[<<v, lv>>] = pin[<<v, lv>>]
    BY <1>2 DEF life_vars
  <2> QED
    BY <1>3, <1>6, <2>1, <2>2, OthersKept
<1>8. AllocatedIsLive'
  BY <1>2, Kept DEF AllocatedIsLive, life_vars
<1>9. TokensLeft'
  <2>1. Starting' = Starting \cup {w} /\ w \notin Starting
    BY <1>2, <1>3, <1>4 DEF Starting, Others
  <2>2. IsFiniteSet(Starting)
    BY WorkersAssumption, FS_Subset DEF Starting
  <2>3. /\ Cardinality(Starting') = Cardinality(Starting) + 1
        /\ Cardinality(Starting) \in Nat
    BY <2>1, <2>2, FS_AddElement, FS_CardinalityType
  <2>4. next_token' = next_token /\ next_token \in Nat
        /\ next_token + Cardinality(Starting) < MaxToken
    BY <1>2 DEF life_vars, target_start, LifeType
  <2> QED
    BY <2>3, <2>4, TokenAssumption DEF TokensLeft
<1> QED
  BY <1>5, <1>7, <1>8, <1>9

\* A tick is left pending.
LEMMA TickInv ==
    ASSUME HInv, NEW w \in Workers, tick(w)
    PROVE  HInv'
<1> USE DEF HInv, TypeInv
<1>1. /\ UNCHANGED life_vars /\ UNCHANGED target_vars /\ UNCHANGED host_vars
      /\ UNCHANGED control_vars /\ UNCHANGED irq /\ UNCHANGED scheduler_token
  BY DEF tick
<1>2. LifeType' /\ TargetType' /\ HostType' /\ BridgeType' /\ UNCHANGED allocated
  BY <1>1, Kept
<1>3. WorkerType'
  BY DEF WorkerType, tick
<1>4. ControlType'
  BY <1>1 DEF ControlType, control_vars
<1>5. PinsMatch' /\ \A v \in Workers : Local(v)'
  BY <1>1 DEF PinsMatch, OpPinned, IrqPinned, Local, OwnsTarget, life_vars, control_vars
<1>6. AllocatedIsLive' /\ TokensLeft'
  BY <1>1, <1>2 DEF AllocatedIsLive, TokensLeft, Starting, life_vars, control_vars
<1> QED
  BY <1>2, <1>3, <1>4, <1>5, <1>6

\* publish_state writes the slot under its pin.
LEMMA PublishInv ==
    ASSUME HInv, NEW w \in Workers, publish_odd(w) \/ publish_even(w)
    PROVE  HInv'
<1> USE DEF HInv, TypeInv
<1>1. PICK p \in {"publish_even", "publish_unpin"} :
        /\ pc[w] \in ScanPcs /\ Goto(w, p)
        /\ UNCHANGED life_vars /\ UNCHANGED target_vars /\ UNCHANGED host_vars
  BY DEF publish_odd, publish_even, Use, At, ScanPcs
<1>2. p \in Pcs /\ p \in ScanPcs /\ p \notin Rollback
  BY DEF Pcs, ScanPcs, Rollback
<1>3. /\ ControlType' /\ Others(w)
      /\ pc'[w] = p /\ op'[w] = op[w] /\ loc'[w] = loc[w]
      /\ UNCHANGED irq /\ UNCHANGED scheduler_token
  BY <1>1, <1>2, GotoFacts
<1>4. LifeType' /\ TargetType' /\ HostType' /\ BridgeType' /\ UNCHANGED allocated
  BY <1>1, <1>3, Kept
<1>5. WorkerType'
  <2>1. [target |-> loc[w].i, token |-> loc[w].arg, vm |-> Running(w)] \in SlotType
    <3>1. loc[w].i \in Targets
      BY <1>1 DEF Local
    <3>2. loc[w].arg \in Nat
      BY LocFields DEF ControlType
    <3>3. Running(w) \in Handles \cup {NoHandle}
      BY DEF WorkerType, Running
    <3> QED
      BY <3>1, <3>2, <3>3, SlotFacts
  <2> QED
    BY <2>1 DEF WorkerType, publish_odd, publish_even, PublishMasked
<1>6. Local(w)'
  BY <1>1, <1>2, <1>3 DEF Local, OwnsTarget, ScanPcs
<1>7. pin'[<<w, "op">>] = OpPinned(w)' /\ pin'[<<w, "irq">>] = IrqPinned(w)'
  BY <1>1, <1>2, <1>3 DEF PinsMatch, OpPinned, IrqPinned, ScanPcs, life_vars
<1>8. \A v \in Workers \ {w} : \A lv \in Levels : pin'[<<v, lv>>] = pin[<<v, lv>>]
  BY <1>1 DEF life_vars
<1>9. PinsMatch' /\ \A v \in Workers : Local(v)'
  BY <1>3, <1>6, <1>7, <1>8, OthersKept
<1>10. AllocatedIsLive'
  BY <1>1, <1>4 DEF AllocatedIsLive, life_vars
<1>11. TokensLeft'
  <2>1. pc'[w] # "start_lock"
    BY <1>2, <1>3 DEF ScanPcs
  <2> QED
    BY <1>1, <1>3, <2>1, TokensKept DEF LifeType, life_vars
<1> QED
  BY <1>3, <1>4, <1>5, <1>9, <1>10, <1>11

-----------------------------------------------------------------------------
(* Pins taken and given back by a thread.                                  *)

LEMMA PinFacts ==
    ASSUME LifeType, AllocatedIsLive, NEW x \in Holders, NEW t \in Targets, NEW allowed,
           target_pin(x, t, allowed), UNCHANGED token, UNCHANGED next_token,
           UNCHANGED allocated
    PROVE  /\ LifeType' /\ AllocatedIsLive'
           /\ pin'[x] = t /\ \A y \in Holders \ {x} : pin'[y] = pin[y]
<1>1. /\ life' = [life EXCEPT ![t].readers = @ + 1]
      /\ pin' = [pin EXCEPT ![x] = t]
  BY DEF target_pin
<1>2. life' \in [Targets -> [state : States, readers : Int]]
  BY <1>1 DEF LifeType
<1>3. \A s \in Targets : life'[s].state = life[s].state
  BY <1>1 DEF LifeType
<1>4. AllocatedIsLive'
  BY <1>3 DEF AllocatedIsLive
<1>5. pin' \in [Holders -> Targets \cup {NoTarget}]
  BY <1>1 DEF LifeType
<1>6. pin'[x] = t /\ \A y \in Holders \ {x} : pin'[y] = pin[y]
  BY <1>1 DEF LifeType
<1> QED
  BY <1>2, <1>4, <1>5, <1>6 DEF LifeType

LEMMA UnpinFacts ==
    ASSUME LifeType, AllocatedIsLive, NEW x \in Holders, pin[x] \in Targets,
           target_unpin(x), UNCHANGED token, UNCHANGED next_token, UNCHANGED allocated
    PROVE  /\ LifeType' /\ AllocatedIsLive'
           /\ pin'[x] = NoTarget /\ \A y \in Holders \ {x} : pin'[y] = pin[y]
<1> DEFINE t == pin[x]
<1>1. /\ life' = [life EXCEPT ![t].readers = @ - 1]
      /\ pin' = [pin EXCEPT ![x] = NoTarget]
  BY DEF target_unpin
<1>0. t \in Targets
  OBVIOUS
<1> HIDE DEF t
<1>2. life' \in [Targets -> [state : States, readers : Int]]
  BY <1>0, <1>1 DEF LifeType
<1>3. \A s \in Targets : life'[s].state = life[s].state
  BY <1>0, <1>1 DEF LifeType
<1>4. AllocatedIsLive'
  BY <1>3 DEF AllocatedIsLive
<1>5. pin' \in [Holders -> Targets \cup {NoTarget}]
  BY <1>1 DEF LifeType
<1>6. pin'[x] = NoTarget /\ \A y \in Holders \ {x} : pin'[y] = pin[y]
  BY <1>1 DEF LifeType
<1> QED
  BY <1>2, <1>4, <1>5, <1>6 DEF LifeType

\* A thread pins the target its locals name.
LEMMA OpPin ==
    ASSUME HInv, NEW w \in Workers, NEW p \in PinnedPcs, NEW t \in Targets, NEW allowed,
           target_pin(<<w, "op">>, t, allowed), Goto(w, p),
           UNCHANGED token, UNCHANGED next_token, UNCHANGED target_vars,
           UNCHANGED host_vars, UNCHANGED worker_vars,
           pc[w] \notin {"start_lock", "quiesce_lock"},
           t = IF p = "discard_use" THEN loc[w].prev.target ELSE loc[w].i
    PROVE  HInv'
<1> USE DEF HInv, TypeInv
<1>1. p \in Pcs /\ p \notin Rollback \cup {"start_lock", "find_pin", "release_wait"}
  BY DEF PinnedPcs, Pcs, ScanPcs, Rollback
<1>2. /\ ControlType' /\ Others(w)
      /\ pc'[w] = p /\ op'[w] = op[w] /\ loc'[w] = loc[w]
      /\ UNCHANGED irq /\ UNCHANGED scheduler_token
  BY <1>1, GotoFacts
<1>3. TargetType' /\ HostType' /\ WorkerType' /\ BridgeType' /\ UNCHANGED allocated
  BY <1>2, Kept
<1>4. /\ LifeType' /\ AllocatedIsLive'
      /\ pin'[<<w, "op">>] = t
      /\ \A y \in Holders \ {<<w, "op">>} : pin'[y] = pin[y]
  <2>1. <<w, "op">> \in Holders
    BY DEF Holders, Levels
  <2> QED
    BY <1>3, <2>1, PinFacts
<1>5. PinsMatch' /\ \A v \in Workers : Local(v)'
  <2>1. pin'[<<w, "op">>] = OpPinned(w)'
    BY <1>2, <1>4 DEF OpPinned, PinnedPcs
  <2>2. pin'[<<w, "irq">>] = IrqPinned(w)'
    BY <1>2, <1>4 DEF PinsMatch, IrqPinned, Holders, Levels
  <2>3. \A v \in Workers \ {w} : \A lv \in Levels : pin'[<<v, lv>>] = pin[<<v, lv>>]
    BY <1>4 DEF Holders
  <2>4. Local(w)'
    BY <1>1, <1>2 DEF Local, OwnsTarget, PinnedPcs, ScanPcs
  <2> QED
    BY <1>2, <2>1, <2>2, <2>3, <2>4, OthersKept
<1>6. TokensLeft'
  BY <1>1, <1>2, TokensKept DEF LifeType
<1> QED
  BY <1>2, <1>3, <1>4, <1>5, <1>6

LEMMA DiscardPinInv ==
    ASSUME HInv, NEW w \in Workers, discard_pin(w)
    PROVE  HInv'
<1>1. /\ pc[w] = "discard_pin" /\ loc[w].prev.target # NoTarget
      /\ target_pin(<<w, "op">>, loc[w].prev.target, ActiveOrStopping)
      /\ Goto(w, "discard_use")
      /\ UNCHANGED token /\ UNCHANGED next_token /\ UNCHANGED target_vars
      /\ UNCHANGED host_vars /\ UNCHANGED worker_vars
  BY DEF discard_pin, At
<1>2. loc[w].prev.target \in Targets
  BY <1>1, LocFields DEF SlotType, HInv, TypeInv, ControlType
<1>3. "discard_use" \in PinnedPcs
  BY DEF PinnedPcs
<1> QED
  BY <1>1, <1>2, <1>3, OpPin

LEMMA FailPinInv ==
    ASSUME HInv, NEW w \in Workers, fail_pin(w)
    PROVE  HInv'
<1>1. /\ pc[w] = "fail_scan" /\ loc[w].i <= NumTargets
      /\ target_pin(<<w, "op">>, loc[w].i, {"ACTIVE"})
      /\ Goto(w, "fail_use")
      /\ UNCHANGED token /\ UNCHANGED next_token /\ UNCHANGED target_vars
      /\ UNCHANGED host_vars /\ UNCHANGED worker_vars
  BY DEF fail_pin, At
<1>2. loc[w].i \in Targets
  <2>1. loc[w].i \in Nat /\ loc[w].i # 0
    BY LocFields DEF HInv, TypeInv, ControlType, Local
  <2> QED
    BY <1>1, <2>1, TargetsAssumption DEF Targets
<1>3. "fail_use" \in PinnedPcs
  BY DEF PinnedPcs, ScanPcs
<1> QED
  BY <1>1, <1>2, <1>3, OpPin

LEMMA FindPinInv ==
    ASSUME HInv, NEW w \in Workers, find_pin(w)
    PROVE  HInv'
<1>1. /\ pc[w] = "find_pin"
      /\ target_pin(<<w, "op">>, loc[w].i, Allowed(w))
      /\ Goto(w, "find_use")
      /\ UNCHANGED token /\ UNCHANGED next_token /\ UNCHANGED target_vars
      /\ UNCHANGED host_vars /\ UNCHANGED worker_vars
  BY DEF find_pin, At
<1>2. loc[w].i \in Targets
  BY <1>1 DEF HInv, Local
<1>3. "find_use" \in PinnedPcs
  BY DEF PinnedPcs, ScanPcs
<1> QED
  BY <1>1, <1>2, <1>3, OpPin

\* A thread gives its pin back.
LEMMA OpUnpin ==
    ASSUME HInv, NEW w \in Workers, pc[w] \in PinnedPcs,
           target_unpin(<<w, "op">>), UNCHANGED token, UNCHANGED next_token,
           UNCHANGED allocated, ControlType', Others(w),
           UNCHANGED irq, UNCHANGED scheduler_token,
           TargetType', HostType', WorkerType',
           pc'[w] \notin PinnedPcs \cup {"start_lock"}, Local(w)'
    PROVE  HInv'
<1> USE DEF HInv, TypeInv
<1>1. BridgeType'
  BY Kept
<1>2. pin[<<w, "op">>] \in Targets
  BY DEF PinsMatch, OpPinned, PinnedPcs, Local
<1>3. /\ LifeType' /\ AllocatedIsLive'
      /\ pin'[<<w, "op">>] = NoTarget
      /\ \A y \in Holders \ {<<w, "op">>} : pin'[y] = pin[y]
  <2>1. <<w, "op">> \in Holders
    BY DEF Holders, Levels
  <2> QED
    BY <1>2, <2>1, UnpinFacts
<1>4. PinsMatch' /\ \A v \in Workers : Local(v)'
  <2>1. pin'[<<w, "op">>] = OpPinned(w)'
    BY <1>3 DEF OpPinned, PinnedPcs
  <2>2. pin'[<<w, "irq">>] = IrqPinned(w)'
    BY <1>3 DEF PinsMatch, IrqPinned, Holders, Levels
  <2>3. \A v \in Workers \ {w} : \A lv \in Levels : pin'[<<v, lv>>] = pin[<<v, lv>>]
    BY <1>3 DEF Holders
  <2> QED
    BY <2>1, <2>2, <2>3, OthersKept
<1>5. TokensLeft'
  BY TokensKept DEF LifeType
<1> QED
  BY <1>1, <1>3, <1>4, <1>5

LEMMA UnpinOnward ==
    ASSUME HInv, NEW w \in Workers, pc[w] \in PinnedPcs,
           target_unpin(<<w, "op">>), UNCHANGED token, UNCHANGED next_token,
           UNCHANGED allocated, TargetType', HostType', WorkerType',
           NEW p \in Onward \ Rollback, NEW l \in LocType, GotoWith(w, p, l),
           l.i # 0, l.target = loc[w].target
    PROVE  HInv'
<1> USE DEF HInv, TypeInv
<1>1. /\ ControlType' /\ Others(w)
      /\ pc'[w] = p /\ op'[w] = op[w] /\ loc'[w] = l
      /\ UNCHANGED irq /\ UNCHANGED scheduler_token
  BY GotoWithFacts DEF Onward
<1>2. pc'[w] \notin PinnedPcs \cup {"start_lock"}
  BY <1>1 DEF Onward
<1>3. pc[w] \notin {"start_lock", "quiesce_lock"}
  BY DEF PinnedPcs, ScanPcs
<1>4. Local(w)'
  BY <1>1, <1>3 DEF Local, OwnsTarget, Onward, PinnedPcs
<1> QED
  BY <1>1, <1>2, <1>4, OpUnpin

LEMMA UnpinReturn ==
    ASSUME HInv, NEW w \in Workers, pc[w] \in PinnedPcs, UnpinAndReturn(w),
           UNCHANGED allocated, TargetType', WorkerType'
    PROVE  HInv'
<1> USE DEF HInv, TypeInv
<1>1. /\ target_unpin(<<w, "op">>) /\ Return(w)
      /\ UNCHANGED token /\ UNCHANGED next_token /\ UNCHANGED host_vars
  BY DEF UnpinAndReturn
<1>2. /\ ControlType' /\ Others(w)
      /\ pc'[w] \in Entries \ {"start_lock", "discard_pin"}
      /\ (op'[w] \in {"start", "quiesce"} => pc'[w] = "quiesce_lock")
      /\ loc'[w].i = 1
      /\ UNCHANGED irq /\ UNCHANGED scheduler_token
  BY <1>1, ReturnFacts
<1>3. HostType'
  BY <1>1, Kept
<1>4. Local(w)' /\ pc'[w] \notin PinnedPcs
  BY <1>2, CallLocal
<1> QED
  BY <1>1, <1>2, <1>3, <1>4, OpUnpin

\* The discarded signals are counted for their owner, if it is still there.
LEMMA DiscardUseInv ==
    ASSUME HInv, NEW w \in Workers, discard_use(w)
    PROVE  HInv'
<1> USE DEF HInv, TypeInv
<1>1. /\ pc[w] = "discard_use" /\ Goto(w, "sync_count")
      /\ target_unpin(<<w, "op">>) /\ UNCHANGED token /\ UNCHANGED next_token
      /\ UNCHANGED allocated /\ UNCHANGED host_vars
  BY DEF discard_use, At, AfterDiscard
<1>2. HostType'
  BY <1>1, Kept
<1>3. TargetType'
  <2>1. "stale" \in Kinds
    BY DEF Kinds
  <2>2. quality' \in [Targets -> SUBSET Kinds]
    BY <2>1, CountType DEF TargetType, discard_use
  <2> QED
    BY <2>2 DEF TargetType, discard_use
<1>4. WorkerType'
  BY DEF WorkerType, discard_use
<1>5. "sync_count" \in Onward \ Rollback
  BY DEF Onward, PinnedPcs, ScanPcs, Pcs, Rollback
<1>6. /\ ControlType' /\ Others(w)
      /\ pc'[w] = "sync_count" /\ op'[w] = op[w] /\ loc'[w] = loc[w]
      /\ UNCHANGED irq /\ UNCHANGED scheduler_token
  BY <1>1, <1>5, GotoFacts DEF Onward
<1>7. Local(w)'
  BY <1>1, <1>5, <1>6 DEF Local, OwnsTarget, Onward, PinnedPcs, ScanPcs
<1>8. pc[w] \in PinnedPcs /\ pc'[w] \notin PinnedPcs \cup {"start_lock"}
  BY <1>1, <1>5, <1>6 DEF PinnedPcs, Onward
<1> QED
  BY <1>1, <1>2, <1>3, <1>4, <1>6, <1>7, <1>8, OpUnpin

\* A session has been told of the failure.
LEMMA FailUseInv ==
    ASSUME HInv, NEW w \in Workers, fail_use(w)
    PROVE  HInv'
<1> USE DEF HInv, TypeInv
<1> DEFINE l == Advanced(loc[w])
<1>1. loc[w] \in LocType /\ loc[w].i # 0
  BY DEF ControlType, Local
<1>2. l \in LocType /\ l.i # 0 /\ l.target = loc[w].target
  BY <1>1, LocIndex
<1>3. /\ pc[w] = "fail_use" /\ GotoWith(w, "fail_scan", l)
      /\ target_unpin(<<w, "op">>) /\ UNCHANGED token /\ UNCHANGED next_token
      /\ UNCHANGED allocated /\ UNCHANGED host_vars /\ UNCHANGED worker_vars
  BY DEF fail_use, At, Advanced
<1> HIDE DEF l
<1>4. HostType' /\ WorkerType'
  BY <1>3, Kept
<1>5. TargetType'
  <2>1. "timer_failures" \in Kinds
    BY DEF Kinds
  <2>2. quality' \in [Targets -> SUBSET Kinds]
    BY <2>1, CountType DEF TargetType, fail_use
  <2> QED
    BY <2>2 DEF TargetType, fail_use
<1>6. "fail_scan" \in Onward \ Rollback
  BY DEF Onward, PinnedPcs, ScanPcs, Pcs, Rollback
<1>7. pc[w] \in PinnedPcs
  BY <1>3 DEF PinnedPcs, ScanPcs
<1> QED
  BY <1>2, <1>3, <1>4, <1>5, <1>6, <1>7, UnpinOnward

\* The pinned slot turned out to be another session's.
LEMMA FindLostInv ==
    ASSUME HInv, NEW w \in Workers, find_lost(w)
    PROVE  HInv'
<1> USE DEF HInv, TypeInv
<1> DEFINE l == Advanced(loc[w])
<1>1. loc[w] \in LocType /\ loc[w].i # 0
  BY DEF ControlType, Local
<1>2. l \in LocType /\ l.i # 0 /\ l.target = loc[w].target
  BY <1>1, LocIndex
<1>3. /\ pc[w] = "find_use" /\ GotoWith(w, "find", l)
      /\ target_unpin(<<w, "op">>) /\ UNCHANGED token /\ UNCHANGED next_token
      /\ UNCHANGED target_vars /\ UNCHANGED host_vars /\ UNCHANGED worker_vars
  BY DEF find_lost, At, NextTarget, Advanced
<1> HIDE DEF l
<1>4. TargetType' /\ HostType' /\ WorkerType' /\ UNCHANGED allocated
  BY <1>3, Kept
<1>5. "find" \in Onward \ Rollback
  BY DEF Onward, PinnedPcs, ScanPcs, Pcs, Rollback
<1>6. pc[w] \in PinnedPcs
  BY <1>3 DEF PinnedPcs, ScanPcs
<1> QED
  BY <1>2, <1>3, <1>4, <1>5, <1>6, UnpinOnward

\* An event is taken from the ring, and the next one asked for.
LEMMA NextEventInv ==
    ASSUME HInv, NEW w \in Workers, next_event(w)
    PROVE  HInv'
<1> USE DEF HInv, TypeInv
<1> DEFINE l == Rewound(loc[w])
<1>1. loc[w] \in LocType /\ loc[w].i # 0
  BY DEF ControlType, Local
<1>2. l \in LocType /\ l.i # 0 /\ l.target = loc[w].target
  BY <1>1, LocIndex
<1>3. /\ pc[w] = "find_use" /\ GotoWith(w, "find", l)
      /\ target_unpin(<<w, "op">>) /\ UNCHANGED token /\ UNCHANGED next_token
      /\ UNCHANGED allocated /\ UNCHANGED host_vars /\ UNCHANGED worker_vars
  BY DEF next_event, Use, At, Rewound
<1> HIDE DEF l
<1>4. HostType' /\ WorkerType'
  BY <1>3, Kept
<1>5. TargetType'
  <2> DEFINE i == loc[w].i
  <2>1. i \in Targets
    BY <1>3 DEF Local, ScanPcs
  <2>2. ring[i] \in Seq(Handles \cup {NoHandle}) /\ ring[i] # <<>>
    BY <2>1 DEF TargetType, next_event
  <2>3. Tail(ring[i]) \in Seq(Handles \cup {NoHandle})
    BY <2>2
  <2>4. ring' = [ring EXCEPT ![i] = Tail(ring[i])]
    BY DEF next_event
  <2> HIDE DEF i
  <2>5. ring' \in [Targets -> Seq(Handles \cup {NoHandle})]
    BY <2>3, <2>4 DEF TargetType
  <2> QED
    BY <2>5 DEF TargetType, next_event
<1>6. "find" \in Onward \ Rollback
  BY DEF Onward, PinnedPcs, ScanPcs, Pcs, Rollback
<1>7. pc[w] \in PinnedPcs
  BY <1>3 DEF PinnedPcs, ScanPcs
<1> QED
  BY <1>2, <1>3, <1>4, <1>5, <1>6, <1>7, UnpinOnward

\* The dispatched service's session is found: the worker's slot names it.
LEMMA BindDispatchInv ==
    ASSUME HInv, NEW w \in Workers, bind_dispatch(w)
    PROVE  HInv'
<1> USE DEF HInv, TypeInv
<1>1. /\ pc[w] = "find_use" /\ UnpinAndReturn(w) /\ UNCHANGED target_vars
  BY DEF bind_dispatch, Use, At
<1>2. TargetType' /\ UNCHANGED allocated
  BY <1>1, Kept
<1>3. pc[w] \in PinnedPcs
  BY <1>1 DEF PinnedPcs, ScanPcs
<1>4. WorkerType'
  <2> DEFINE t == loc[w].i
  <2>1. t \in Targets
    BY <1>1 DEF Local, ScanPcs
  <2>2. token[t] \in Nat /\ handle[t] \in Handles \cup {NoHandle}
    BY <2>1 DEF LifeType, TargetType
  <2>3. [target |-> t, token |-> token[t], vm |-> handle[t]] \in SlotType
    BY <2>1, <2>2, SlotFacts
  <2> QED
    BY <2>3 DEF WorkerType, bind_dispatch, Unmask, PublishMasked
<1> QED
  BY <1>1, <1>2, <1>3, <1>4, UnpinReturn

\* The other calls under a pin: the end of publish_state, draining_events, an
\* empty ring, the counters.
LEMMA UsesInv ==
    ASSUME HInv, NEW w \in Workers,
           \/ publish_unpin(w) \/ next_empty(w) \/ take_quality(w)
           \/ event_drain(w, "begin", TRUE) \/ event_drain(w, "end", FALSE)
    PROVE  HInv'
<1> USE DEF HInv, TypeInv
<1>1. /\ pc[w] \in {"find_use", "publish_unpin"} /\ UnpinAndReturn(w)
      /\ UNCHANGED worker_vars /\ UNCHANGED allocated
  BY DEF publish_unpin, next_empty, take_quality, event_drain, Use, At, target_vars
<1>2. WorkerType'
  BY <1>1, Kept
<1>3. TargetType'
  <2>1. CASE publish_unpin(w) \/ next_empty(w)
    BY <2>1, Kept DEF publish_unpin, next_empty
  <2>2. CASE take_quality(w)
    BY <2>2 DEF TargetType, take_quality
  <2>3. CASE event_drain(w, "begin", TRUE) \/ event_drain(w, "end", FALSE)
    BY <2>3 DEF TargetType, event_drain
  <2> QED
    BY <2>1, <2>2, <2>3
<1>4. pc[w] \in PinnedPcs
  BY <1>1 DEF PinnedPcs, ScanPcs
<1> QED
  BY <1>1, <1>2, <1>3, <1>4, UnpinReturn

-----------------------------------------------------------------------------
(* The owner's steps, under host_lock.                                     *)

LEMMA OwnerStep ==
    ASSUME HInv, NEW w \in Workers, ControlType', Others(w), UNCHANGED pin, UNCHANGED irq,
           LifeType', TargetType', HostType', WorkerType', BridgeType',
           AllocatedIsLive', TokensLeft',
           pc[w] \notin PinnedPcs, pc'[w] \notin PinnedPcs, Local(w)'
    PROVE  HInv'
<1> USE DEF HInv
<1>1. TypeInv'
  BY DEF TypeInv
<1>2. pin'[<<w, "op">>] = OpPinned(w)' /\ pin'[<<w, "irq">>] = IrqPinned(w)'
  BY DEF PinsMatch, PinnedPcs, OpPinned, IrqPinned
<1>3. \A v \in Workers \ {w} : \A lv \in Levels : pin'[<<v, lv>>] = pin[<<v, lv>>]
  OBVIOUS
<1>4. PinsMatch' /\ \A v \in Workers : Local(v)'
  BY <1>2, <1>3, OthersKept
<1> QED
  BY <1>1, <1>4

LEMMA TransitionType ==
    ASSUME LifeType, NEW t \in Targets, NEW from, NEW to \in States,
           target_transition(t, from, to)
    PROVE  /\ life' \in [Targets -> [state : States, readers : Int]]
           /\ life[t].state = from /\ life'[t].state = to
           /\ \A s \in Targets \ {t} : life'[s].state = life[s].state
  BY DEF LifeType, target_transition

\* A session is opened in a free slot.
LEMMA StartSelectInv ==
    ASSUME HInv, NEW w \in Workers, start_select(w)
    PROVE  HInv'
<1> USE DEF HInv, TypeInv
<1>1. PICK t \in Targets :
       /\ allocated' = allocated \cup {t}
       /\ token' = [token EXCEPT ![t] = next_token + 1]
       /\ handle' = [handle EXCEPT ![t] = Running(w)]
       /\ sample_hz' = [sample_hz EXCEPT ![t] = loc[w].hz]
       /\ ring' = [ring EXCEPT ![t] = <<>>]
       /\ quality' = [quality EXCEPT ![t] = {}]
       /\ draining' = [draining EXCEPT ![t] = TRUE]
       /\ target_transition(t, "FREE", "ACTIVE")
       /\ GotoWith(w, "start_hz", Opened(loc[w], t, next_token + 1))
       /\ next_token' = next_token + 1
  BY DEF start_select, Opened
<1>2. /\ pc[w] = "start_lock" /\ UNCHANGED pin /\ UNCHANGED worker_vars
      /\ host_lock' = w /\ UNCHANGED active_targets /\ UNCHANGED active_sample_hz
      /\ UNCHANGED host_failed
  BY DEF start_select, At
<1>3. next_token \in Nat /\ next_token' = next_token + 1
  BY <1>1 DEF LifeType
<1>4. loc[w] \in LocType /\ loc[w].i # 0
  BY DEF ControlType, Local
<1> DEFINE l == Opened(loc[w], t, next_token + 1)
<1>5. l \in LocType /\ l.i # 0 /\ l.target = t
  BY <1>3, <1>4, LocTarget
<1>6. GotoWith(w, "start_hz", l)
  BY <1>1
<1> HIDE DEF l
<1>7. /\ ControlType' /\ Others(w)
      /\ pc'[w] = "start_hz" /\ op'[w] = op[w] /\ loc'[w] = l
      /\ UNCHANGED irq /\ UNCHANGED scheduler_token
  BY <1>5, <1>6, GotoWithFacts DEF Pcs
<1>8. WorkerType' /\ BridgeType'
  BY <1>2, <1>7, Kept
<1>9. HostType'
  BY <1>2 DEF HostType
<1>10. TargetType'
  <2>1. Running(w) \in Handles \cup {NoHandle}
    BY DEF WorkerType, Running
  <2>2. loc[w].hz \in Nat
    BY <1>4, LocFields
  <2>3. handle' \in [Targets -> Handles \cup {NoHandle}] /\ sample_hz' \in [Targets -> Nat]
    BY <1>1, <2>1, <2>2 DEF TargetType
  <2>4. allocated' \in SUBSET Targets /\ draining' \in [Targets -> BOOLEAN]
    BY <1>1 DEF TargetType
  <2>5. ring' \in [Targets -> Seq(Handles \cup {NoHandle})]
    BY <1>1 DEF TargetType
  <2>6. quality' \in [Targets -> SUBSET Kinds]
    BY <1>1 DEF TargetType
  <2> QED
    BY <2>3, <2>4, <2>5, <2>6 DEF TargetType
<1>11. /\ life' \in [Targets -> [state : States, readers : Int]]
       /\ life[t].state = "FREE" /\ life'[t].state = "ACTIVE"
       /\ \A s \in Targets \ {t} : life'[s].state = life[s].state
  BY <1>1, TransitionType DEF States
<1>12. LifeType'
  <2>1. token' \in [Targets -> Nat] /\ next_token' \in Nat
    BY <1>1, <1>3 DEF LifeType
  <2>2. pin' \in [Holders -> Targets \cup {NoTarget}]
    BY <1>2 DEF LifeType
  <2> QED
    BY <1>11, <2>1, <2>2 DEF LifeType
<1>13. AllocatedIsLive'
  BY <1>1, <1>11 DEF AllocatedIsLive
<1>14. TokensLeft'
  <2>1. Starting' = Starting \ {w} /\ w \in Starting
    BY <1>2, <1>7 DEF Starting, Others
  <2>2. IsFiniteSet(Starting)
    BY WorkersAssumption, FS_Subset DEF Starting
  <2>3. /\ Cardinality(Starting') = Cardinality(Starting) - 1
        /\ Cardinality(Starting) \in Nat
    BY <2>1, <2>2, FS_RemoveElement, FS_CardinalityType
  <2> QED
    BY <1>3, <2>3, TokenAssumption DEF TokensLeft
<1>15. Local(w)'
  BY <1>5, <1>7 DEF Local, ScanPcs, Rollback
<1>16. pc[w] \notin PinnedPcs /\ pc'[w] \notin PinnedPcs
  BY <1>2, <1>7 DEF PinnedPcs, ScanPcs
<1> QED
  BY <1>2, <1>7, <1>8, <1>9, <1>10, <1>12, <1>13, <1>14, <1>15, <1>16, OwnerStep

\* A session is stopped or reclaimed: its state changes and nothing else of it.
LEMMA LockStep ==
    ASSUME HInv, NEW w \in Workers, NEW t \in Targets,
           NEW from \in States \ {"FREE"}, NEW to \in States \ {"FREE"},
           target_transition(t, from, to), host_lock' = w,
           UNCHANGED token, UNCHANGED pin, UNCHANGED next_token,
           UNCHANGED target_vars, UNCHANGED active_targets,
           UNCHANGED active_sample_hz, UNCHANGED host_failed, UNCHANGED worker_vars,
           UNCHANGED irq, UNCHANGED scheduler_token,
           ControlType', Others(w), pc[w] \notin PinnedPcs,
           pc'[w] \notin PinnedPcs \cup {"start_lock"}, Local(w)'
    PROVE  HInv'
<1> USE DEF HInv, TypeInv
<1>1. TargetType' /\ WorkerType' /\ BridgeType' /\ UNCHANGED allocated
  BY Kept
<1>2. HostType'
  BY DEF HostType
<1>3. /\ life' \in [Targets -> [state : States, readers : Int]]
      /\ life[t].state = from /\ life'[t].state = to
      /\ \A s \in Targets \ {t} : life'[s].state = life[s].state
  BY TransitionType
<1>4. LifeType'
  BY <1>3 DEF LifeType
<1>5. AllocatedIsLive'
  BY <1>1, <1>3 DEF AllocatedIsLive
<1>6. TokensLeft'
  BY TokensKept DEF LifeType
<1> QED
  BY <1>1, <1>2, <1>4, <1>5, <1>6, OwnerStep

LEMMA RollbackLockInv ==
    ASSUME HInv, NEW w \in Workers, rollback_lock(w)
    PROVE  HInv'
<1> USE DEF HInv, TypeInv
<1>1. /\ pc[w] = "rollback_lock" /\ Goto(w, "rollback_count")
      /\ target_transition(loc[w].target, "ACTIVE", "RECLAIMING") /\ host_lock' = w
      /\ UNCHANGED token /\ UNCHANGED pin /\ UNCHANGED next_token
      /\ UNCHANGED target_vars /\ UNCHANGED active_targets
      /\ UNCHANGED active_sample_hz /\ UNCHANGED host_failed /\ UNCHANGED worker_vars
  BY DEF rollback_lock, At
<1>2. /\ ControlType' /\ Others(w)
      /\ pc'[w] = "rollback_count" /\ op'[w] = op[w] /\ loc'[w] = loc[w]
      /\ UNCHANGED irq /\ UNCHANGED scheduler_token
  BY <1>1, GotoFacts DEF Pcs
<1>3. op[w] = "start" /\ loc[w].target \in Targets
  BY <1>1 DEF Local, OwnsTarget, Rollback
<1>4. Local(w)'
  BY <1>1, <1>2, <1>3 DEF Local, OwnsTarget, ScanPcs
<1>5. pc[w] \notin PinnedPcs /\ pc'[w] \notin PinnedPcs \cup {"start_lock"}
  BY <1>1, <1>2 DEF PinnedPcs, ScanPcs
<1>6. {"ACTIVE", "RECLAIMING"} \subseteq States \ {"FREE"}
  BY DEF States
<1> QED
  BY <1>1, <1>2, <1>3, <1>4, <1>5, <1>6, LockStep

LEMMA SessionLockInv ==
    ASSUME HInv, NEW w \in Workers, quiesce_lock(w) \/ release_lock(w)
    PROVE  HInv'
<1> USE DEF HInv, TypeInv
<1>1. PICK t \in Targets, from \in {"ACTIVE", "STOPPING"},
           to \in {"STOPPING", "RECLAIMING"}, p \in {"quiesce_count", "release_wait"} :
        /\ pc[w] \in {"quiesce_lock", "release_lock"}
        /\ GotoWith(w, p, Named(loc[w], t))
        /\ target_transition(t, from, to) /\ host_lock' = w
        /\ UNCHANGED token /\ UNCHANGED pin /\ UNCHANGED next_token
        /\ UNCHANGED target_vars /\ UNCHANGED active_targets
        /\ UNCHANGED active_sample_hz /\ UNCHANGED host_failed /\ UNCHANGED worker_vars
  BY DEF quiesce_lock, release_lock, At, Named
<1>2. loc[w] \in LocType /\ loc[w].i # 0
  BY DEF ControlType, Local
<1> DEFINE l == Named(loc[w], t)
<1>3. l \in LocType /\ l.i # 0 /\ l.target = t
  BY <1>2, LocTarget
<1>4. GotoWith(w, p, l)
  BY <1>1
<1> HIDE DEF l
<1>5. /\ ControlType' /\ Others(w)
      /\ pc'[w] = p /\ op'[w] = op[w] /\ loc'[w] = l
      /\ UNCHANGED irq /\ UNCHANGED scheduler_token
  BY <1>3, <1>4, GotoWithFacts DEF Pcs
<1>6. Local(w)'
  BY <1>3, <1>5 DEF Local, ScanPcs, Rollback
<1>7. pc[w] \notin PinnedPcs /\ pc'[w] \notin PinnedPcs \cup {"start_lock"}
  BY <1>1, <1>5 DEF PinnedPcs, ScanPcs
<1>8. {"ACTIVE", "STOPPING", "RECLAIMING"} \subseteq States \ {"FREE"}
  BY DEF States
<1> QED
  BY <1>1, <1>5, <1>6, <1>7, <1>8, LockStep

\* A slot is free again.
LEMMA FreeInv ==
    ASSUME HInv, NEW w \in Workers, rollback_wait(w) \/ release_wait(w)
    PROVE  HInv'
<1> USE DEF HInv, TypeInv
<1> DEFINE t == loc[w].target
<1>1. t \in Targets
  BY DEF rollback_wait, release_wait, At, Local, OwnsTarget, Rollback
<1>2. /\ FreeTarget(t) /\ ReturnTo(w, "none") /\ host_lock' = NoWorker
      /\ pc[w] \in {"rollback_wait", "release_wait"}
      /\ UNCHANGED active_targets /\ UNCHANGED active_sample_hz
      /\ UNCHANGED host_failed
  BY DEF rollback_wait, release_wait, At
<1> HIDE DEF t
<1>3. /\ ControlType' /\ Others(w)
      /\ pc'[w] = Entry("none") /\ op'[w] = "none" /\ loc'[w].i = 1
      /\ UNCHANGED irq
  BY <1>2, ReturnToFacts DEF Ops
<1>4. pc'[w] = "idle"
  BY <1>3 DEF Entry
<1>5. HostType'
  BY <1>2 DEF HostType
<1>6. WorkerType'
  BY Kept DEF WorkerType, rollback_wait, release_wait, Unmask
<1>7. BridgeType'
  <2>1. loc[w].arg \in Nat
    BY LocFields DEF ControlType
  <2> QED
    BY <1>3, <2>1 DEF BridgeType, rollback_wait, release_wait, ClosedBy
<1>8. /\ life' \in [Targets -> [state : States, readers : Int]]
      /\ life[t].state = "RECLAIMING" /\ life'[t].state = "FREE"
      /\ \A s \in Targets \ {t} : life'[s].state = life[s].state
  BY <1>1, <1>2, TransitionType DEF States, FreeTarget
<1>9. UNCHANGED pin /\ UNCHANGED next_token
  BY <1>2 DEF FreeTarget
<1>10. LifeType'
  <2>1. token' \in [Targets -> Nat] /\ next_token' \in Nat
    BY <1>2, <1>9 DEF LifeType, FreeTarget
  <2>2. pin' \in [Holders -> Targets \cup {NoTarget}]
    BY <1>9 DEF LifeType
  <2> QED
    BY <1>8, <2>1, <2>2 DEF LifeType
<1>11. TargetType'
  <2>1. handle' \in [Targets -> Handles \cup {NoHandle}] /\ sample_hz' \in [Targets -> Nat]
    BY <1>2 DEF TargetType, FreeTarget
  <2>2. ring' \in [Targets -> Seq(Handles \cup {NoHandle})]
    <3>1. ring' = [ring EXCEPT ![t] = <<>>]
      BY <1>2 DEF FreeTarget
    <3>2. <<>> \in Seq(Handles \cup {NoHandle})
      OBVIOUS
    <3> QED
      BY <3>1, <3>2 DEF TargetType
  <2>3. allocated' \in SUBSET Targets /\ UNCHANGED draining /\ UNCHANGED quality
    BY <1>2 DEF TargetType, FreeTarget
  <2> QED
    BY <2>1, <2>2, <2>3 DEF TargetType
<1>12. AllocatedIsLive'
  BY <1>2, <1>8 DEF AllocatedIsLive, FreeTarget
<1>13. TokensLeft'
  BY <1>3, <1>4, <1>9, TokensKept DEF LifeType
<1>14. Local(w)'
  BY <1>3, <1>4 DEF Local, OwnsTarget, ScanPcs, Rollback
<1>15. pc[w] \notin PinnedPcs /\ pc'[w] \notin PinnedPcs
  BY <1>2, <1>4 DEF PinnedPcs, ScanPcs
<1> QED
  BY <1>3, <1>5, <1>6, <1>7, <1>9, <1>10, <1>11, <1>12, <1>13, <1>14, <1>15, OwnerStep

-----------------------------------------------------------------------------
(* The signal handler.                                                     *)

LEMMA IrqStep ==
    ASSUME HInv, NEW w \in Workers, UNCHANGED control_vars, UNCHANGED scheduler_token,
           irq' \in [Workers -> IrqType], \A v \in Workers \ {w} : irq'[v] = irq[v],
           LifeType', TargetType', UNCHANGED host_vars, WorkerType', AllocatedIsLive',
           UNCHANGED next_token,
           \A y \in Holders \ {<<w, "irq">>} : pin'[y] = pin[y],
           pin'[<<w, "irq">>] = IrqPinned(w)',
           irq'[w].pc # "none" => irq'[w].slot.target \in Targets
    PROVE  HInv'
<1> USE DEF HInv, TypeInv
<1>1. UNCHANGED op /\ UNCHANGED pc /\ UNCHANGED loc
  BY DEF control_vars
<1>2. HostType' /\ ControlType' /\ BridgeType'
  BY <1>1, Kept DEF ControlType, BridgeType
<1>3. Others(w)
  BY <1>1 DEF Others
<1>4. pin'[<<w, "op">>] = OpPinned(w)'
  BY <1>1 DEF PinsMatch, OpPinned, Holders, Levels
<1>5. \A v \in Workers \ {w} : \A lv \in Levels : pin'[<<v, lv>>] = pin[<<v, lv>>]
  BY DEF Holders
<1>6. Local(w)'
  BY <1>1 DEF Local, OwnsTarget
<1>7. PinsMatch' /\ \A v \in Workers : Local(v)'
  BY <1>3, <1>4, <1>5, <1>6, OthersKept
<1>8. TokensLeft'
  BY <1>1 DEF TokensLeft, Starting
<1> QED
  BY <1>2, <1>7, <1>8

LEMMA NoIrqType == NoIrq \in IrqType /\ NoIrq.pc = "none"
  BY SlotFacts DEF NoIrq, IrqType

\* What an irq record looks like on the way into the handler and under its pin.
Entering(s, b) == [NoIrq EXCEPT !.pc = "pin", !.slot = s, !.odd = b]
Using(i, st, d) == [i EXCEPT !.pc = "use", !.state = st, !.draining = d]

LEMMA EnteringType ==
    ASSUME NEW s \in SlotType, NEW b \in BOOLEAN
    PROVE  /\ Entering(s, b) \in IrqType
           /\ Entering(s, b).pc = "pin" /\ Entering(s, b).slot = s
  BY SlotFacts DEF Entering, NoIrq, IrqType

LEMMA UsingType ==
    ASSUME NEW i \in IrqType, NEW st \in States, NEW d \in BOOLEAN
    PROVE  /\ Using(i, st, d) \in IrqType
           /\ Using(i, st, d).pc = "use" /\ Using(i, st, d).slot = i.slot
  BY DEF Using, IrqType, States

\* The handler starts with its worker's slot.
LEMMA HandlerEnterInv ==
    ASSUME HInv, NEW w \in Workers, handler_enter(w)
    PROVE  HInv'
<1> USE DEF HInv, TypeInv
<1> DEFINE r == IF slot[w].target = NoTarget THEN NoIrq ELSE Entering(slot[w], odd[w])
<1>1. slot[w] \in SlotType /\ odd[w] \in BOOLEAN
  BY DEF WorkerType
<1>2. /\ r \in IrqType /\ r.pc \in {"none", "pin"}
      /\ (r.pc # "none" => r.slot.target \in Targets)
  BY <1>1, NoIrqType, EnteringType DEF SlotType
<1>3. /\ irq' = [irq EXCEPT ![w] = r] /\ irq[w].pc = "none"
      /\ UNCHANGED life_vars /\ UNCHANGED target_vars /\ UNCHANGED host_vars
      /\ UNCHANGED control_vars /\ UNCHANGED scheduler_token
  BY DEF handler_enter, Entering
<1> HIDE DEF r
<1>4. /\ irq' \in [Workers -> IrqType] /\ irq'[w] = r
      /\ \A v \in Workers \ {w} : irq'[v] = irq[v]
  BY <1>2, <1>3 DEF BridgeType
<1>5. LifeType' /\ TargetType' /\ UNCHANGED allocated
  BY <1>3, Kept
<1>6. WorkerType'
  BY DEF WorkerType, handler_enter
<1>7. AllocatedIsLive'
  BY <1>3, <1>5 DEF AllocatedIsLive, life_vars
<1>8. UNCHANGED next_token /\ UNCHANGED pin
  BY <1>3 DEF life_vars
<1>9. pin'[<<w, "irq">>] = IrqPinned(w)'
  BY <1>2, <1>3, <1>4, <1>8 DEF PinsMatch, IrqPinned
<1> QED
  BY <1>2, <1>3, <1>4, <1>5, <1>6, <1>7, <1>8, <1>9, IrqStep

\* It pins the target the slot names ...
LEMMA HandlerPinInv ==
    ASSUME HInv, NEW w \in Workers, handler_pin(w)
    PROVE  HInv'
<1> USE DEF HInv, TypeInv
<1> DEFINE t == irq[w].slot.target
           r == Using(irq[w], life[t].state, draining[t])
<1>1. irq[w] \in IrqType
  BY DEF BridgeType
<1>2. t \in Targets
  BY DEF Local, handler_pin
<1>3. life[t].state \in States /\ draining[t] \in BOOLEAN
  BY <1>2 DEF LifeType, TargetType
<1>4. r \in IrqType /\ r.pc = "use" /\ r.slot.target = t
  BY <1>1, <1>3, UsingType
<1>5. /\ irq' = [irq EXCEPT ![w] = r]
      /\ target_pin(<<w, "irq">>, t, ActiveOrStopping)
      /\ UNCHANGED token /\ UNCHANGED next_token /\ UNCHANGED target_vars
      /\ UNCHANGED host_vars /\ UNCHANGED worker_vars /\ UNCHANGED control_vars
      /\ UNCHANGED scheduler_token
  BY DEF handler_pin, Using, BridgeType
<1> HIDE DEF r, t
<1>6. /\ irq' \in [Workers -> IrqType] /\ irq'[w] = r
      /\ \A v \in Workers \ {w} : irq'[v] = irq[v]
  BY <1>4, <1>5 DEF BridgeType
<1>7. TargetType' /\ WorkerType' /\ UNCHANGED allocated
  BY <1>5, Kept
<1>8. <<w, "irq">> \in Holders
  BY DEF Holders, Levels
<1>9. /\ LifeType' /\ AllocatedIsLive'
      /\ pin'[<<w, "irq">>] = t
      /\ \A y \in Holders \ {<<w, "irq">>} : pin'[y] = pin[y]
  BY <1>2, <1>5, <1>7, <1>8, PinFacts
<1>10. pin'[<<w, "irq">>] = IrqPinned(w)'
  BY <1>4, <1>6, <1>9 DEF IrqPinned
<1> QED
  BY <1>2, <1>4, <1>5, <1>6, <1>7, <1>9, <1>10, IrqStep

\* ... or cannot.
LEMMA HandlerUnpinnedInv ==
    ASSUME HInv, NEW w \in Workers, handler_unpinned(w)
    PROVE  HInv'
<1> USE DEF HInv, TypeInv
<1>1. /\ irq[w].pc = "pin" /\ irq' = [irq EXCEPT ![w] = NoIrq]
      /\ UNCHANGED life_vars /\ UNCHANGED target_vars /\ UNCHANGED host_vars
      /\ UNCHANGED worker_vars /\ UNCHANGED control_vars /\ UNCHANGED scheduler_token
  BY DEF handler_unpinned
<1>2. /\ irq' \in [Workers -> IrqType] /\ irq'[w].pc = "none"
      /\ \A v \in Workers \ {w} : irq'[v] = irq[v]
  BY <1>1, NoIrqType DEF BridgeType
<1>3. LifeType' /\ TargetType' /\ WorkerType' /\ UNCHANGED allocated
  BY <1>1, Kept
<1>4. AllocatedIsLive' /\ UNCHANGED next_token /\ UNCHANGED pin
  BY <1>1, <1>3 DEF AllocatedIsLive, life_vars
<1>5. pin'[<<w, "irq">>] = IrqPinned(w)'
  BY <1>1, <1>2, <1>4 DEF PinsMatch, IrqPinned
<1> QED
  BY <1>1, <1>2, <1>3, <1>4, <1>5, IrqStep

\* It appends the event or counts why not, gives the pin back and returns.
LEMMA HandlerReturnInv ==
    ASSUME HInv, NEW w \in Workers,
           handler_push(w) \/ handler_reject(w) \/ handler_stale_token(w)
    PROVE  HInv'
<1> USE DEF HInv, TypeInv
<1> DEFINE t == irq[w].slot.target
<1>1. HandlerReturn(w) /\ irq[w].pc = "use"
  BY DEF handler_push, handler_reject, handler_stale_token, InHandler
<1>2. /\ target_unpin(<<w, "irq">>) /\ irq' = [irq EXCEPT ![w] = NoIrq]
      /\ UNCHANGED token /\ UNCHANGED next_token /\ UNCHANGED handle
      /\ UNCHANGED sample_hz /\ UNCHANGED allocated /\ UNCHANGED draining
      /\ UNCHANGED host_vars /\ UNCHANGED worker_vars /\ UNCHANGED control_vars
      /\ UNCHANGED scheduler_token
  BY <1>1 DEF HandlerReturn
<1>3. /\ irq' \in [Workers -> IrqType] /\ irq'[w].pc = "none"
      /\ \A v \in Workers \ {w} : irq'[v] = irq[v]
  BY <1>2, NoIrqType DEF BridgeType
<1>4. WorkerType'
  BY <1>2, Kept
<1>5. t \in Targets /\ pin[<<w, "irq">>] = t
  BY <1>1 DEF PinsMatch, IrqPinned, Local
<1>6. TargetType'
  <2>1. CASE handler_push(w)
    <3>1. irq[w].slot.vm \in Handles \cup {NoHandle}
      BY DEF BridgeType, IrqType, SlotType
    <3>2. ring[t] \in Seq(Handles \cup {NoHandle})
      BY <1>5 DEF TargetType
    <3>3. Append(ring[t], irq[w].slot.vm) \in Seq(Handles \cup {NoHandle})
      BY <3>1, <3>2
    <3>4. ring' = [ring EXCEPT ![t] = Append(ring[t], irq[w].slot.vm)]
          /\ UNCHANGED quality
      BY <2>1 DEF handler_push
    <3> HIDE DEF t
    <3>5. ring' \in [Targets -> Seq(Handles \cup {NoHandle})]
      BY <3>3, <3>4 DEF TargetType
    <3> QED
      BY <1>2, <3>4, <3>5 DEF TargetType
  <2>2. CASE handler_reject(w)
    <3>1. Rejection(w) \in Kinds
      BY <2>2 DEF handler_reject, Rejection, Kinds
    <3>2. Count(t, Rejection(w)) /\ UNCHANGED ring
      BY <2>2 DEF handler_reject
    <3>3. quality' \in [Targets -> SUBSET Kinds]
      BY <3>1, <3>2, CountType DEF TargetType
    <3> QED
      BY <1>2, <3>2, <3>3 DEF TargetType
  <2>3. CASE handler_stale_token(w)
    BY <1>2, <2>3 DEF TargetType, handler_stale_token
  <2> QED
    BY <2>1, <2>2, <2>3
<1>7. <<w, "irq">> \in Holders
  BY DEF Holders, Levels
<1>8. /\ LifeType' /\ AllocatedIsLive'
      /\ pin'[<<w, "irq">>] = NoTarget
      /\ \A y \in Holders \ {<<w, "irq">>} : pin'[y] = pin[y]
  BY <1>2, <1>5, <1>7, UnpinFacts
<1>9. pin'[<<w, "irq">>] = IrqPinned(w)'
  BY <1>3, <1>8 DEF IrqPinned
<1> QED
  BY <1>2, <1>3, <1>4, <1>6, <1>8, <1>9, IrqStep

-----------------------------------------------------------------------------
(* The invariant.                                                          *)

LEMMA InitHInv == Init => HInv
<1> SUFFICES ASSUME Init PROVE HInv
  OBVIOUS
<1> USE DEF Init
<1>1. LifeType
  <2>1. life \in [Targets -> [state : States, readers : Int]]
    BY DEF States
  <2> QED
    BY <2>1 DEF LifeType
<1>2. TargetType
  BY DEF TargetType
<1>3. HostType
  BY DEF HostType
<1>4. WorkerType
  BY SlotFacts DEF WorkerType
<1>5. ControlType
  BY NoLocFacts DEF ControlType, Ops, Pcs
<1>6. BridgeType
  BY NoIrqType DEF BridgeType
<1>7. PinsMatch
  BY NoIrqType DEF PinsMatch, OpPinned, IrqPinned, ScanPcs, Holders, Levels
<1>8. \A w \in Workers : Local(w)
  <2> SUFFICES ASSUME NEW w \in Workers PROVE Local(w)
    OBVIOUS
  <2>1. pc[w] = "idle" /\ op[w] = "none"
    OBVIOUS
  <2>2. loc[w].i = 1 /\ irq[w].pc = "none"
    BY NoLocFacts, NoIrqType
  <2> QED
    BY <2>1, <2>2 DEF Local, OwnsTarget, ScanPcs, Rollback
<1>9. AllocatedIsLive
  BY DEF AllocatedIsLive
<1>10. TokensLeft
  <2>1. Starting = {}
    BY DEF Starting
  <2> QED
    BY <2>1, FS_EmptySet, TokenAssumption DEF TokensLeft
<1> QED
  BY <1>1, <1>2, <1>3, <1>4, <1>5, <1>6, <1>7, <1>8, <1>9, <1>10 DEF HInv, TypeInv

LEMMA ClientInv ==
    ASSUME HInv, NEW w \in Workers, Client(w)
    PROVE  HInv'
<1>1. CASE \E h \in Handles : dispatch_enter(w, h)
  BY <1>1, EnterInv
<1>2. CASE dispatch_leave(w)
  BY <1>2, LeaveInv
<1>3. CASE \E hz \in Hz : target_start(w, hz)
  BY <1>3, TargetStartInv
<1>4. CASE profiler_work(w) \/ publish_state(w) \/ \E h \in Handles : stop_collector(w, h)
  BY <1>4, SessionCallInv
<1> QED
  BY <1>1, <1>2, <1>3, <1>4 DEF Client

LEMMA StepInv ==
    ASSUME HInv, NEW w \in Workers, Step(w)
    PROVE  HInv'
<1>1. CASE discard_pin(w) \/ discard_unowned(w) \/ discard_use(w)
  BY <1>1, DiscardPinInv, DiscardUnownedInv, DiscardUseInv
<1>2. CASE sync_count(w) \/ sync_hz(w) \/ sync_fails(w)
  BY <1>2, SyncCountInv, SyncHzInv, SyncFailsInv
<1>3. CASE fail_pin(w) \/ fail_skip(w) \/ fail_use(w) \/ fail_end(w) \/ leave_end(w)
  BY <1>3, FailPinInv, FailSkipInv, FailUseInv, FailEndInv, LeaveEndInv
<1>4. CASE start_hz(w) \/ start_count(w) \/ start_publish(w)
  BY <1>4, StartHzInv, StartCountInv, StartPublishInv
<1>5. CASE drop_count(w, "rollback_count", "rollback_hz")
  BY <1>5, DropCountInv
<1>6. CASE drop_count(w, "quiesce_count", "quiesce_hz")
  BY <1>6, DropCountInv
<1>7. CASE rollback_hz(w) \/ rollback_wait(w) \/ release_wait(w)
  BY <1>7, RollbackHzInv, FreeInv
<1>8. CASE quiesce_hz(w) \/ quiesce_end(w)
  BY <1>8, QuiesceHzInv, QuiesceEndInv
<1>9. CASE find(w) \/ find_none(w) \/ find_pin(w) \/ find_missed(w) \/ find_lost(w)
  BY <1>9, FindInv, FindNoneInv, FindPinInv, FindMissedInv, FindLostInv
<1>10. CASE bind_dispatch(w) \/ publish_odd(w) \/ publish_even(w)
  BY <1>10, BindDispatchInv, PublishInv
<1>11. CASE next_event(w)
  BY <1>11, NextEventInv
<1>12. CASE \/ publish_unpin(w) \/ next_empty(w) \/ take_quality(w)
            \/ event_drain(w, "begin", TRUE) \/ event_drain(w, "end", FALSE)
  BY <1>12, UsesInv
<1> QED
  BY <1>1, <1>2, <1>3, <1>4, <1>5, <1>6, <1>7, <1>8, <1>9, <1>10, <1>11, <1>12 DEF Step

LEMMA ThreadInv ==
    ASSUME HInv, NEW w \in Workers, Thread(w)
    PROVE  HInv'
<1>1. CASE Step(w)
  BY <1>1, StepInv
<1>2. CASE quiesce_wait(w)
  BY <1>2, QuiesceWaitInv
<1>3. CASE Lock(w)
  BY <1>3, StartSelectInv, StartRefusedInv, RollbackLockInv, SessionLockInv DEF Lock
<1> QED
  BY <1>1, <1>2, <1>3 DEF Thread

LEMMA NextHInv == HInv /\ [Next]_vars => HInv'
<1> SUFFICES ASSUME HInv, [Next]_vars PROVE HInv'
  OBVIOUS
<1>1. CASE UNCHANGED vars
  <2>1. /\ UNCHANGED life_vars /\ UNCHANGED target_vars /\ UNCHANGED host_vars
        /\ UNCHANGED worker_vars /\ UNCHANGED control_vars /\ UNCHANGED irq
        /\ UNCHANGED scheduler_token
    BY <1>1 DEF vars
  <2>2. TypeInv' /\ UNCHANGED allocated
    BY <2>1, Kept DEF HInv, TypeInv, ControlType, control_vars
  <2>3. PinsMatch' /\ \A v \in Workers : Local(v)'
    BY <2>1 DEF HInv, PinsMatch, OpPinned, IrqPinned, Local, OwnsTarget, life_vars,
                control_vars
  <2>4. AllocatedIsLive' /\ TokensLeft'
    BY <2>1, <2>2 DEF HInv, AllocatedIsLive, TokensLeft, Starting, life_vars, control_vars
  <2> QED
    BY <2>2, <2>3, <2>4 DEF HInv
<1>2. CASE Next
  <2>1. PICK w \in Workers :
          Client(w) \/ Thread(w) \/ tick(w) \/ handler_enter(w) \/ Handler(w)
    BY <1>2 DEF Next
  <2>2. CASE Client(w)
    BY <2>2, ClientInv
  <2>3. CASE Thread(w)
    BY <2>3, ThreadInv
  <2>4. CASE tick(w) \/ handler_enter(w)
    BY <2>4, TickInv, HandlerEnterInv
  <2>5. CASE Handler(w)
    BY <2>5, HandlerPinInv, HandlerUnpinnedInv, HandlerReturnInv DEF Handler
  <2> QED
    BY <2>1, <2>2, <2>3, <2>4, <2>5
<1> QED
  BY <1>1, <1>2

\* The invariant holds in every reachable state of the host.
THEOREM Invariance == Spec => []HInv
  BY InitHInv, NextHInv, PTL DEF Spec

-----------------------------------------------------------------------------
(* The host implements the protocol of TargetLifecycle.                    *)

LEMMA InitMaps == Init => Lifecycle!Init
  BY DEF Init, Lifecycle!Init

\* The actions of the protocol, as the host takes them.
LEMMA PinMaps ==
    ASSUME NEW x \in Holders, NEW t \in Targets,
           NEW allowed \in {{"ACTIVE"}, ActiveOrStopping},
           pin[x] = NoTarget, target_pin(x, t, allowed),
           UNCHANGED token, UNCHANGED next_token
    PROVE  Lifecycle!Next
<1>1. allowed \in {{"ACTIVE"}, Lifecycle!Pinnable}
  BY DEF ActiveOrStopping, Lifecycle!Pinnable
<1>2. Lifecycle!Pin(x, t, allowed)
  BY DEF target_pin, Lifecycle!Pin
<1> QED
  BY <1>1, <1>2 DEF Lifecycle!Next

LEMMA UnpinMaps ==
    ASSUME NEW x \in Holders, pin[x] # NoTarget, target_unpin(x),
           UNCHANGED token, UNCHANGED next_token
    PROVE  Lifecycle!Next
<1>1. Lifecycle!Unpin(x)
  BY DEF target_unpin, Lifecycle!Unpin
<1> QED
  BY <1>1 DEF Lifecycle!Next

LEMMA ThreadPins ==
    ASSUME HInv, NEW w \in Workers
    PROVE  /\ <<w, "op">> \in Holders /\ <<w, "irq">> \in Holders
           /\ pc[w] \notin PinnedPcs => pin[<<w, "op">>] = NoTarget
           /\ pc[w] \in PinnedPcs => pin[<<w, "op">>] # NoTarget
           /\ irq[w].pc = "pin" => pin[<<w, "irq">>] = NoTarget
           /\ irq[w].pc = "use" => pin[<<w, "irq">>] # NoTarget
           /\ pc[w] \in {"fail_scan", "find_pin"} /\ loc[w].i <= NumTargets
                => loc[w].i \in Targets
           /\ pc[w] = "find_pin" => loc[w].i \in Targets
           /\ pc[w] = "discard_pin" /\ loc[w].prev.target # NoTarget
                => loc[w].prev.target \in Targets
           /\ irq[w].pc # "none" => irq[w].slot.target \in Targets
<1> USE DEF HInv, TypeInv
<1>1. <<w, "op">> \in Holders /\ <<w, "irq">> \in Holders
  BY DEF Holders, Levels
<1>2. pc[w] \notin PinnedPcs => pin[<<w, "op">>] = NoTarget
  BY DEF PinsMatch, OpPinned, PinnedPcs
<1>3. pc[w] \in PinnedPcs => pin[<<w, "op">>] # NoTarget
  <2>1. pc[w] \in PinnedPcs => OpPinned(w) \in Targets
    BY DEF OpPinned, PinnedPcs, Local
  <2> QED
    BY <2>1, TargetsAssumption DEF PinsMatch
<1>4. irq[w].pc = "pin" => pin[<<w, "irq">>] = NoTarget
  BY DEF PinsMatch, IrqPinned
<1>5. irq[w].pc = "use" => pin[<<w, "irq">>] # NoTarget
  <2>1. irq[w].pc = "use" => IrqPinned(w) \in Targets
    BY DEF IrqPinned, Local
  <2> QED
    BY <2>1, TargetsAssumption DEF PinsMatch
<1>6. loc[w] \in LocType /\ loc[w].i # 0
  BY DEF ControlType, Local
<1>7. loc[w].i <= NumTargets => loc[w].i \in Targets
  BY <1>6, LocFields, TargetsAssumption DEF Targets
<1>8. loc[w].prev.target # NoTarget => loc[w].prev.target \in Targets
  BY <1>6, LocFields DEF SlotType
<1>9. /\ pc[w] = "find_pin" => loc[w].i \in Targets
      /\ irq[w].pc # "none" => irq[w].slot.target \in Targets
  BY DEF Local
<1> QED
  BY <1>1, <1>2, <1>3, <1>4, <1>5, <1>7, <1>8, <1>9

\* Pins are taken by threads and handlers of the host ...
LEMMA PinsMap ==
    ASSUME HInv, NEW w \in Workers,
           discard_pin(w) \/ fail_pin(w) \/ find_pin(w) \/ handler_pin(w)
    PROVE  Lifecycle!Next
<1>1. CASE discard_pin(w)
  <2>1. pc[w] = "discard_pin" /\ loc[w].prev.target # NoTarget
        /\ target_pin(<<w, "op">>, loc[w].prev.target, ActiveOrStopping)
        /\ UNCHANGED token /\ UNCHANGED next_token
    BY <1>1 DEF discard_pin, At
  <2>2. pc[w] \notin PinnedPcs
    BY <2>1 DEF PinnedPcs, ScanPcs
  <2> QED
    BY <2>1, <2>2, ThreadPins, PinMaps
<1>2. CASE fail_pin(w)
  <2>1. pc[w] = "fail_scan" /\ loc[w].i <= NumTargets
        /\ target_pin(<<w, "op">>, loc[w].i, {"ACTIVE"})
        /\ UNCHANGED token /\ UNCHANGED next_token
    BY <1>2 DEF fail_pin, At
  <2>2. pc[w] \notin PinnedPcs
    BY <2>1 DEF PinnedPcs, ScanPcs
  <2> QED
    BY <2>1, <2>2, ThreadPins, PinMaps
<1>3. CASE find_pin(w)
  <2>1. pc[w] = "find_pin" /\ target_pin(<<w, "op">>, loc[w].i, Allowed(w))
        /\ UNCHANGED token /\ UNCHANGED next_token
    BY <1>3 DEF find_pin, At
  <2>2. pc[w] \notin PinnedPcs
    BY <2>1 DEF PinnedPcs, ScanPcs
  <2>3. Allowed(w) \in {{"ACTIVE"}, ActiveOrStopping}
    BY DEF Allowed
  <2> QED
    BY <2>1, <2>2, <2>3, ThreadPins, PinMaps
<1>4. CASE handler_pin(w)
  <2>1. irq[w].pc = "pin"
        /\ target_pin(<<w, "irq">>, irq[w].slot.target, ActiveOrStopping)
        /\ UNCHANGED token /\ UNCHANGED next_token
    BY <1>4 DEF handler_pin
  <2> QED
    BY <2>1, ThreadPins, PinMaps
<1> QED
  BY <1>1, <1>2, <1>3, <1>4

\* ... and given back by them ...
LEMMA UnpinsMap ==
    ASSUME HInv, NEW w \in Workers,
           \/ discard_use(w) \/ fail_use(w) \/ find_lost(w) \/ bind_dispatch(w)
           \/ publish_unpin(w) \/ next_event(w) \/ next_empty(w) \/ take_quality(w)
           \/ event_drain(w, "begin", TRUE) \/ event_drain(w, "end", FALSE)
           \/ handler_push(w) \/ handler_reject(w) \/ handler_stale_token(w)
    PROVE  Lifecycle!Next
<1>1. CASE \/ discard_use(w) \/ fail_use(w) \/ find_lost(w) \/ bind_dispatch(w)
           \/ publish_unpin(w) \/ next_event(w) \/ next_empty(w) \/ take_quality(w)
           \/ event_drain(w, "begin", TRUE) \/ event_drain(w, "end", FALSE)
  <2>1. /\ pc[w] \in {"discard_use", "fail_use", "find_use", "publish_unpin"}
        /\ target_unpin(<<w, "op">>) /\ UNCHANGED token /\ UNCHANGED next_token
    BY <1>1 DEF discard_use, fail_use, find_lost, bind_dispatch, publish_unpin, next_event,
                next_empty, take_quality, event_drain, Use, UnpinAndReturn, At
  <2>2. pc[w] \in PinnedPcs
    BY <2>1 DEF PinnedPcs, ScanPcs
  <2> QED
    BY <2>1, <2>2, ThreadPins, UnpinMaps
<1>2. CASE handler_push(w) \/ handler_reject(w) \/ handler_stale_token(w)
  <2>1. /\ irq[w].pc = "use" /\ target_unpin(<<w, "irq">>)
        /\ UNCHANGED token /\ UNCHANGED next_token
    BY <1>2 DEF handler_push, handler_reject, handler_stale_token, InHandler, HandlerReturn
  <2> QED
    BY <2>1, ThreadPins, UnpinMaps
<1> QED
  BY <1>1, <1>2

\* ... and the owner's steps are those of a start, a quiesce, a release and a
\* roll-back.
LEMMA OwnersMap ==
    ASSUME HInv, NEW w \in Workers,
           \/ start_select(w) \/ quiesce_lock(w) \/ rollback_lock(w) \/ release_lock(w)
           \/ rollback_wait(w) \/ release_wait(w)
    PROVE  Lifecycle!Next
<1> USE DEF HInv, TypeInv
<1>1. CASE start_select(w)
  <2>1. PICK t \in Targets :
          /\ First(t) /\ target_transition(t, "FREE", "ACTIVE")
          /\ next_token' = next_token + 1
          /\ token' = [token EXCEPT ![t] = next_token + 1]
          /\ UNCHANGED pin /\ pc[w] = "start_lock"
    BY <1>1 DEF start_select, At
  <2>2. next_token < MaxToken
    <3>1. w \in Starting
      BY <2>1 DEF Starting
    <3>2. IsFiniteSet(Starting)
      BY WorkersAssumption, FS_Subset DEF Starting
    <3>3. Cardinality(Starting) \in Nat /\ Cardinality(Starting) # 0
      BY <3>1, <3>2, FS_CardinalityType, FS_EmptySet
    <3> QED
      BY <3>3, TokenAssumption DEF TokensLeft, LifeType
  <2>3. life[t].readers = 0
    BY <2>1 DEF First, Available
  <2>4. Lifecycle!Activate(t)
    BY <2>1, <2>2, <2>3 DEF target_transition, Lifecycle!Activate, Lifecycle!Transition
  <2> QED
    BY <2>4 DEF Lifecycle!Next
<1>2. CASE quiesce_lock(w)
  <2>1. PICK t \in Targets :
          /\ target_transition(t, "ACTIVE", "STOPPING")
          /\ UNCHANGED token /\ UNCHANGED pin /\ UNCHANGED next_token
    BY <1>2 DEF quiesce_lock
  <2>2. Lifecycle!Quiesce(t)
    BY <2>1 DEF target_transition, Lifecycle!Quiesce, Lifecycle!Transition
  <2> QED
    BY <2>2 DEF Lifecycle!Next
<1>3. CASE rollback_lock(w) \/ release_lock(w)
  <2>1. PICK t \in Targets, from \in {"ACTIVE", "STOPPING"} :
          /\ target_transition(t, from, "RECLAIMING")
          /\ UNCHANGED token /\ UNCHANGED pin /\ UNCHANGED next_token
    <3>1. rollback_lock(w) => loc[w].target \in Targets
      BY DEF rollback_lock, At, Local, OwnsTarget, Rollback
    <3> QED
      BY <1>3, <3>1 DEF rollback_lock, release_lock
  <2>2. Lifecycle!Reclaim(t)
    BY <2>1 DEF target_transition, Lifecycle!Reclaim, Lifecycle!Transition,
                Lifecycle!Pinnable
  <2> QED
    BY <2>2 DEF Lifecycle!Next
<1>4. CASE rollback_wait(w) \/ release_wait(w)
  <2>1. loc[w].target \in Targets
    BY <1>4 DEF rollback_wait, release_wait, At, Local, OwnsTarget, Rollback
  <2>2. Unpinned(loc[w].target) /\ FreeTarget(loc[w].target)
    BY <1>4 DEF rollback_wait, release_wait
  <2>3. Lifecycle!Free(loc[w].target)
    BY <2>2 DEF Unpinned, FreeTarget, target_transition, Lifecycle!Free,
                Lifecycle!Transition
  <2> QED
    BY <2>1, <2>3 DEF Lifecycle!Next
<1> QED
  BY <1>1, <1>2, <1>3, <1>4

\* The other steps leave the lifecycle words alone.
LEMMA StepMaps ==
    ASSUME HInv, [Next]_vars
    PROVE  [Lifecycle!Next]_Lifecycle!vars
<1>1. ASSUME UNCHANGED life_vars PROVE UNCHANGED Lifecycle!vars
  BY <1>1 DEF life_vars, Lifecycle!vars
<1>2. CASE UNCHANGED vars
  BY <1>1, <1>2 DEF vars
<1>3. CASE Next
  <2>1. PICK w \in Workers :
          Client(w) \/ Thread(w) \/ tick(w) \/ handler_enter(w) \/ Handler(w)
    BY <1>3 DEF Next
  <2>2. CASE Client(w)
    BY <1>1, <2>2 DEF Client, dispatch_enter, dispatch_leave, target_start, profiler_work,
                      publish_state, stop_collector
  <2>3. CASE tick(w) \/ handler_enter(w)
    BY <1>1, <2>3 DEF tick, handler_enter
  <2>4. CASE Handler(w)
    <3>1. CASE handler_unpinned(w)
      BY <1>1, <3>1 DEF handler_unpinned
    <3> QED
      BY <2>4, <3>1, PinsMap, UnpinsMap DEF Handler
  <2>5. CASE Lock(w) \/ quiesce_wait(w)
    <3>1. CASE start_refused(w) \/ quiesce_wait(w)
      BY <1>1, <3>1 DEF start_refused, quiesce_wait
    <3> QED
      BY <2>5, <3>1, OwnersMap DEF Lock
  <2>6. CASE Step(w)
    <3>1. CASE \/ discard_unowned(w) \/ sync_count(w) \/ sync_hz(w) \/ sync_fails(w)
               \/ fail_skip(w) \/ fail_end(w) \/ leave_end(w)
      BY <1>1, <3>1 DEF discard_unowned, sync_count, sync_hz, sync_fails, fail_skip,
                        fail_end, leave_end
    <3>2. CASE \/ start_hz(w) \/ start_count(w) \/ start_publish(w) \/ rollback_hz(w)
               \/ drop_count(w, "rollback_count", "rollback_hz")
               \/ drop_count(w, "quiesce_count", "quiesce_hz")
               \/ quiesce_hz(w) \/ quiesce_end(w)
      BY <1>1, <3>2 DEF start_hz, start_count, start_publish, rollback_hz, drop_count,
                        quiesce_hz, quiesce_end
    <3>3. CASE \/ find(w) \/ find_none(w) \/ find_missed(w)
               \/ publish_odd(w) \/ publish_even(w)
      BY <1>1, <3>3 DEF find, find_none, find_missed, publish_odd, publish_even
    <3> QED
      BY <2>6, <3>1, <3>2, <3>3, PinsMap, UnpinsMap, OwnersMap DEF Step
  <2> QED
    BY <2>1, <2>2, <2>3, <2>4, <2>5, <2>6 DEF Thread
<1> QED
  BY <1>2, <1>3

\* Whatever the workers, their handlers and the calls of the services do, the
\* lifecycle words move as TargetLifecycle says.
THEOREM ImplementsLifecycle == Spec => LifecycleSpec
<1>1. Init => Lifecycle!Init
  BY InitMaps
<1>2. HInv /\ [Next]_vars => [Lifecycle!Next]_Lifecycle!vars
  BY StepMaps
<1> QED
  BY <1>1, <1>2, Invariance, PTL DEF Spec, LifecycleSpec, Lifecycle!Spec

-----------------------------------------------------------------------------
(* What the protocol guarantees, for the host.                             *)

\* The proofs about TargetLifecycle speak of the same definitions.
LEMMA SameInit == Lifecycle!Init => Protocol!Init
  BY DEF Lifecycle!Init, Protocol!Init

LEMMA SameNext == [Lifecycle!Next]_Lifecycle!vars => [Protocol!Next]_Protocol!vars
<1> SUFFICES ASSUME [Lifecycle!Next]_Lifecycle!vars
             PROVE  [Protocol!Next]_Protocol!vars
  OBVIOUS
<1>1. CASE UNCHANGED Lifecycle!vars
  BY <1>1 DEF Lifecycle!vars, Protocol!vars
<1>2. CASE Lifecycle!Next
  BY <1>2 DEF Lifecycle!Next, Protocol!Next, Lifecycle!Pin, Protocol!Pin,
              Lifecycle!Pinnable, Protocol!Pinnable, Lifecycle!Unpin, Protocol!Unpin,
              Lifecycle!Activate, Protocol!Activate, Lifecycle!Quiesce, Protocol!Quiesce,
              Lifecycle!Reclaim, Protocol!Reclaim, Lifecycle!Free, Protocol!Free,
              Lifecycle!Transition, Protocol!Transition
<1> QED
  BY <1>1, <1>2

LEMMA HoldersAreFinite == IsFiniteSet(Holders) /\ Protocol!IsFiniteSet(Holders)
<1>1. IsFiniteSet(Levels)
  <2>1. IsFiniteSet({"op"})
    BY FS_Singleton
  <2>2. Levels = {"op"} \cup {"irq"}
    BY DEF Levels
  <2> QED
    BY <2>1, <2>2, FS_AddElement
<1>2. IsFiniteSet(Holders)
  BY <1>1, WorkersAssumption, FS_Product DEF Holders
<1> QED
  BY <1>2 DEF IsFiniteSet, Protocol!IsFiniteSet

\* The invariant of the protocol's proof is one of the host.
LEMMA InitProtocol == Init => Protocol!IInv
  BY InitMaps, SameInit, Protocol!InitIInv, HoldersAreFinite, TargetsAssumption,
     TokenAssumption

LEMMA NextProtocol == HInv /\ Protocol!IInv /\ [Next]_vars => Protocol!IInv'
  BY StepMaps, SameNext, Protocol!NextIInv, HoldersAreFinite, TargetsAssumption,
     TokenAssumption

LEMMA ProtocolInvariance == Spec => []Protocol!IInv
  BY InitProtocol, NextProtocol, Invariance, PTL DEF Spec

LEMMA SameCardinality == \A S : Cardinality(S) = Protocol!Cardinality(S)
  BY DEF Cardinality, Protocol!Cardinality, IsFiniteSet, Protocol!IsFiniteSet

\* The types of every variable; a reader count is never negative.
THEOREM TypeCorrect == Spec => []TypeOK
<1>1. HInv /\ Protocol!IInv => TypeOK
  <2> SUFFICES ASSUME HInv, Protocol!IInv PROVE TypeOK
    OBVIOUS
  <2>1. life \in [Targets -> [state : {"FREE", "ACTIVE", "STOPPING", "RECLAIMING"},
                              readers : Nat]]
    BY DEF Protocol!IInv, Protocol!TypeOK, Protocol!States
  <2> QED
    BY <2>1 DEF HInv, TypeInv, LifeType, TargetType, HostType, WorkerType, ControlType,
                BridgeType, TypeOK
<1> QED
  BY <1>1, Invariance, ProtocolInvariance, PTL

\* No pin is ever on a target without a ring: target_wait_unpinned waits for all.
THEOREM RingSafety == Spec => []NoUseAfterFree
<1>1. HInv /\ Protocol!IInv => NoUseAfterFree
  <2> SUFFICES ASSUME HInv, Protocol!IInv PROVE NoUseAfterFree
    OBVIOUS
  <2>1. \A t \in Targets : life[t].readers = Cardinality(HoldersOf(t))
    BY SameCardinality DEF Protocol!IInv, Protocol!ReadersExact, Protocol!HoldersOf,
                           HoldersOf
  <2>2. ASSUME NEW x \in Holders, pin[x] # NoTarget
        PROVE  pin[x] \in allocated
    <3>1. pin[x] \in Targets
      BY <2>2 DEF HInv, TypeInv, LifeType
    <3>2. life[pin[x]].state # "FREE"
      BY <2>2 DEF Protocol!IInv, Protocol!FreeIsUnpinned
    <3> QED
      BY <3>1, <3>2 DEF HInv, AllocatedIsLive
  <2> QED
    BY <2>1, <2>2 DEF NoUseAfterFree
<1> QED
  BY <1>1, Invariance, ProtocolInvariance, PTL

-----------------------------------------------------------------------------
(* The inductive invariant: what the workers publish.                      *)

\* The call that a thread is in, where it stands at one that only this call has.
Matches(o, p) ==
    /\ p = "publish_even" => o = "publish"
    /\ p \in {"start_lock", "start_hz", "start_count", "start_publish"} => o = "start"
    /\ p = "quiesce_lock" => o = "quiesce"
    /\ p = "release_lock" => o = "release"
    /\ p = "leave_end" => o = "leave"

\* A slot names a session that was opened, for the VM that this session samples
\* if the target is still the session's.
Sound(s) ==
    s.target # NoTarget =>
        /\ s.token # 0 /\ s.token <= next_token
        /\ token[s.target] = s.token => handle[s.target] = s.vm

\* The slot that a thread is about to publish.
AboutTo(w) ==
    \/ pc[w] = "publish_even"
    \/ op[w] = "start" /\ pc[w] # "start_lock"
Intended(w) ==
    [target |-> IF pc[w] = "publish_even" THEN loc[w].i ELSE loc[w].target,
     token |-> loc[w].arg, vm |-> Running(w)]

\* A worker changes services, or its session is being set up.
Withdrawn(w) ==
    \/ op[w] \in {"enter", "leave"}
    \/ op[w] = "start" /\ pc[w] \notin {"start_lock", "start_hz", "start_count"}

\* A worker publishes what it runs, and nothing while its slot is withdrawn.
Publisher(w) ==
    /\ Matches(op[w], pc[w])
    /\ op[w] \in {"enter", "publish", "start"} => Dispatching(w)
    /\ Sound(slot[w])
    /\ irq[w].pc # "none" => Sound(irq[w].slot)
    /\ AboutTo(w) => Sound(Intended(w))
    /\ slot[w].target # NoTarget => Dispatching(w) /\ slot[w].vm = Running(w)
    /\ Withdrawn(w) => slot[w].target = NoTarget

\* A service runs on one worker at a time.
RunsOnce ==
    \A v, w \in Workers : Dispatching(v) /\ Running(v) = Running(w) => v = w

SlotsInv == SamplesBelong /\ RunsOnce /\ \A w \in Workers : Publisher(w)

-----------------------------------------------------------------------------
(* The inductive invariant: what host_lock guards.                         *)

\* The steps before which a thread holds host_lock.
Adding == {"start_hz", "start_count"}
Dropping == {"rollback_count", "quiesce_count"}
Dropped == {"rollback_hz", "quiesce_hz"}
Freeing == {"rollback_wait", "release_wait"}
Locked == Adding \cup Dropping \cup Dropped \cup Freeing

SameHz(hz) == \A t \in Active : sample_hz[t] = hz

\* The new session is ACTIVE and not counted; no slot can name it yet.
AddingSession(w) ==
    /\ loc[w].target \in Active /\ token[loc[w].target] = loc[w].arg
    /\ slot[w].target = loc[w].target => slot[w].token # loc[w].arg
    /\ SameHz(loc[w].hz)
    /\ Cardinality(Active) = active_targets + 1
    /\ active_targets # 0 \/ pc[w] = "start_count" => active_sample_hz = loc[w].hz

\* The session is no longer ACTIVE, but still counted.
DroppingSession ==
    active_targets = Cardinality(Active) + 1 /\ SameHz(active_sample_hz)

DroppedSession == active_targets = Cardinality(Active) /\ SameHz(active_sample_hz)

Settled == DroppedSession /\ (Active = {} => active_sample_hz = 0)

Counted(w) ==
    /\ host_lock = w <=> pc[w] \in Locked
    /\ pc[w] \in Adding => AddingSession(w)
    /\ pc[w] \in Dropping => DroppingSession
    /\ pc[w] \in Dropped => DroppedSession
    /\ pc[w] \in Freeing => Settled

CountsInv ==
    /\ \A w \in Workers : Counted(w)
    /\ host_lock = NoWorker => Settled

-----------------------------------------------------------------------------
(* The inductive invariant: the timers.                                    *)

\* A thread that still has to load the count and the frequency.
Syncing == {"discard_pin", "discard_use", "sync_count", "sync_hz"}
Arming(w, t) ==
    \/ op[w] = "enter" /\ pc[w] \in Syncing
    \/ op[w] = "start" /\ pc[w] \in Syncing \cup Adding /\ loc[w].target = t

Runs(w, t) == Dispatching(w) /\ handle[t] = Running(w)

\* A worker that runs an ACTIVE session's service has armed its timer for it, or is
\* about to: the count it has loaded is not zero.
Timed(w) == \A t \in Active :
    Runs(w, t) =>
        /\ pc[w] = "sync_hz" => loc[w].count # 0
        /\ ~Arming(w, t) /\ ~host_failed => armed_hz[w] = sample_hz[t]

TimersInv == \A w \in Workers : Timed(w)

-----------------------------------------------------------------------------
(* Steps that leave the sessions alone.                                    *)

StatesKept == \A t \in Targets : life'[t].state = life[t].state

LEMMA PinKeepsStates ==
    ASSUME HInv, NEW x, NEW t, NEW allowed, target_pin(x, t, allowed)
    PROVE  StatesKept
  BY DEF HInv, TypeInv, LifeType, target_pin, StatesKept

LEMMA UnpinKeepsStates ==
    ASSUME HInv, NEW x, target_unpin(x)
    PROVE  StatesKept
  BY DEF HInv, TypeInv, LifeType, target_unpin, StatesKept

\* What the three invariants are made of, but for the rings and the workers' control.
Calm ==
    /\ UNCHANGED token /\ UNCHANGED next_token /\ UNCHANGED handle /\ UNCHANGED sample_hz
    /\ UNCHANGED current_handle /\ UNCHANGED slot
    /\ UNCHANGED host_lock /\ UNCHANGED active_targets /\ UNCHANGED active_sample_hz
    /\ StatesKept

\* No event is added to a ring.
NoEvent ==
    \A t \in Targets : \A i \in DOMAIN ring'[t] :
        \E j \in DOMAIN ring[t] : ring'[t][i] = ring[t][j]

\* A thread moves on inside its call.
Same(l, m) ==
    l.arg = m.arg /\ l.target = m.target /\ l.hz = m.hz /\ l.stop = m.stop
Apart == Locked \cup {"start_lock", "quiesce_lock", "publish_even"}
Moves(w) ==
    /\ Others(w) /\ UNCHANGED irq
    /\ op'[w] = op[w] /\ Same(loc'[w], loc[w]) /\ Matches(op[w], pc'[w])
    /\ pc[w] \notin Apart /\ pc'[w] \notin Locked \cup {"start_lock", "quiesce_lock"}

\* A call begins, or one ends and the bridge makes the next.
Calls(w) ==
    /\ Others(w) /\ UNCHANGED irq
    /\ op'[w] \notin {"enter", "leave"} /\ Matches(op'[w], pc'[w])
    /\ pc'[w] \in Entries \ {"discard_pin"}
    /\ op'[w] = "start" => pc'[w] = "start_lock"
    /\ op'[w] \in {"publish", "start"} => Dispatching(w)

LEMMA SameLocs ==
    ASSUME NEW l \in LocType
    PROVE  /\ Same(l, l) /\ Same(Advanced(l), l) /\ Same(Rewound(l), l) /\ Same(Failed(l), l)
           /\ \A p \in SlotType : Same(SetAside(l, p), l)
           /\ \A n \in Nat : Same([l EXCEPT !.count = n], l)
  BY DEF LocType, Same, Advanced, Rewound, Failed, SetAside

LEMMA GotoMoves ==
    ASSUME HInv, NEW w \in Workers, NEW p \in Pcs \ (Locked \cup {"start_lock", "quiesce_lock"}),
           Goto(w, p), pc[w] \notin Apart, Matches(op[w], p)
    PROVE  Moves(w) /\ pc'[w] = p /\ loc'[w] = loc[w]
  BY GotoFacts, SameLocs DEF HInv, TypeInv, ControlType, Moves

LEMMA GotoWithMoves ==
    ASSUME HInv, NEW w \in Workers, NEW p \in Pcs \ (Locked \cup {"start_lock", "quiesce_lock"}),
           NEW l \in LocType, GotoWith(w, p, l), Same(l, loc[w]),
           pc[w] \notin Apart, Matches(op[w], p)
    PROVE  Moves(w) /\ pc'[w] = p /\ loc'[w] = l
  BY GotoWithFacts DEF HInv, TypeInv, Moves

LEMMA ReturnToCalls ==
    ASSUME HInv, NEW w \in Workers, NEW o \in Ops \ {"enter", "leave", "start", "publish"},
           ReturnTo(w, o)
    PROVE  Calls(w) /\ op'[w] = o /\ pc'[w] = Entry(o)
<1>1. /\ Others(w) /\ UNCHANGED irq
      /\ pc'[w] = Entry(o) /\ op'[w] = o
  BY ReturnToFacts DEF HInv, TypeInv
<1>2. Matches(o, Entry(o)) /\ Entry(o) \in Entries \ {"discard_pin", "start_lock"}
  BY DEF Matches, Entry, Entries, Ops
<1> QED
  BY <1>1, <1>2 DEF Calls

LEMMA AfterIsNew ==
    ASSUME NEW o \in Ops, NEW s \in BOOLEAN
    PROVE  After(o, s) \subseteq Ops \ {"enter", "leave", "start", "publish"}
  BY DEF After, Drain, Ops

LEMMA ReturnCalls ==
    ASSUME HInv, NEW w \in Workers, Return(w)
    PROVE  Calls(w)
<1>1. op[w] \in Ops /\ loc[w].stop \in BOOLEAN
  BY LocFields DEF HInv, TypeInv, ControlType
<1>2. PICK o \in Ops \ {"enter", "leave", "start", "publish"} : ReturnTo(w, o)
  BY <1>1, AfterIsNew DEF Return
<1> QED
  BY <1>2, ReturnToCalls

-----------------------------------------------------------------------------
(* Which steps these are.                                                  *)

TimersKept == UNCHANGED armed_hz /\ UNCHANGED host_failed

LEMMA QuietVars ==
    ASSUME StatesKept, UNCHANGED token, UNCHANGED next_token, UNCHANGED handle,
           UNCHANGED sample_hz, UNCHANGED ring, UNCHANGED current_handle, UNCHANGED slot,
           UNCHANGED host_lock, UNCHANGED active_targets, UNCHANGED active_sample_hz
    PROVE  Calm /\ NoEvent
  BY DEF Calm, NoEvent

LEMMA LifeKept == UNCHANGED life_vars => StatesKept
  BY DEF life_vars, StatesKept

LEMMA AfterSyncMatches ==
    ASSUME NEW o \in Ops
    PROVE  /\ AfterSync[o] \in Pcs
           /\ AfterSync[o] \notin Locked \cup Syncing
                                  \cup {"start_lock", "quiesce_lock", "publish_even"}
           /\ Matches(o, AfterSync[o])
  BY DEF AfterSync, Pcs, Ops, Locked, Adding, Dropping, Dropped, Freeing, Syncing, Matches

\* Pins taken for a discard, a failure report and a lookup.
LEMMA PinMoves ==
    ASSUME HInv, NEW w \in Workers, discard_pin(w) \/ fail_pin(w) \/ find_pin(w)
    PROVE  /\ Moves(w) /\ Calm /\ NoEvent /\ TimersKept
           /\ pc'[w] \in {"discard_use", "fail_use", "find_use"}
           /\ pc[w] \in Syncing => pc'[w] \in Syncing
<1>1. PICK p \in {"discard_use", "fail_use", "find_use"} :
        /\ Goto(w, p) /\ pc[w] \in {"discard_pin", "fail_scan", "find_pin"}
        /\ pc[w] = "discard_pin" => p = "discard_use"
  BY DEF discard_pin, fail_pin, find_pin, At
<1>2. Moves(w) /\ pc'[w] = p
  BY <1>1, GotoMoves DEF Pcs, Locked, Adding, Dropping, Dropped, Freeing, Apart, Matches
<1>3. StatesKept
  BY PinKeepsStates DEF discard_pin, fail_pin, find_pin
<1>4. Calm /\ NoEvent /\ TimersKept
  BY <1>3, QuietVars DEF discard_pin, fail_pin, find_pin, target_vars, host_vars, worker_vars,
                         TimersKept
<1> QED
  BY <1>1, <1>2, <1>4 DEF Syncing

\* Pins given back.
LEMMA UnpinMoves ==
    ASSUME HInv, NEW w \in Workers,
           discard_use(w) \/ fail_use(w) \/ find_lost(w) \/ next_event(w)
    PROVE  /\ Moves(w) /\ Calm /\ NoEvent /\ TimersKept
           /\ pc'[w] \in {"sync_count", "fail_scan", "find"}
           /\ pc[w] \in Syncing => pc'[w] \in Syncing
<1>1. loc[w] \in LocType /\ loc[w].i # 0
  BY DEF HInv, TypeInv, ControlType, Local
<1>2. Advanced(loc[w]) \in LocType /\ Rewound(loc[w]) \in LocType
  BY <1>1, LocIndex
<1>3. StatesKept
  BY UnpinKeepsStates DEF discard_use, fail_use, find_lost, next_event
<1>4. CASE discard_use(w)
  <2>1. pc[w] = "discard_use" /\ Goto(w, "sync_count")
    BY <1>4 DEF discard_use, At, AfterDiscard
  <2>2. Moves(w) /\ pc'[w] = "sync_count"
    BY <2>1, GotoMoves DEF Pcs, Locked, Adding, Dropping, Dropped, Freeing, Apart, Matches
  <2> QED
    BY <1>3, <1>4, <2>1, <2>2, QuietVars DEF discard_use, host_vars, TimersKept, Syncing
<1>5. CASE fail_use(w)
  <2>1. pc[w] = "fail_use" /\ GotoWith(w, "fail_scan", Advanced(loc[w]))
    BY <1>5 DEF fail_use, At, Advanced
  <2>2. Moves(w) /\ pc'[w] = "fail_scan"
    BY <1>1, <1>2, <2>1, SameLocs, GotoWithMoves
       DEF Pcs, Locked, Adding, Dropping, Dropped, Freeing, Apart, Matches
  <2> QED
    BY <1>3, <1>5, <2>1, <2>2, QuietVars DEF fail_use, host_vars, worker_vars, TimersKept,
                                             Syncing
<1>6. CASE find_lost(w)
  <2>1. pc[w] = "find_use" /\ GotoWith(w, "find", Advanced(loc[w]))
    BY <1>6 DEF find_lost, At, NextTarget, Advanced
  <2>2. Moves(w) /\ pc'[w] = "find"
    BY <1>1, <1>2, <2>1, SameLocs, GotoWithMoves
       DEF Pcs, Locked, Adding, Dropping, Dropped, Freeing, Apart, Matches
  <2> QED
    BY <1>3, <1>6, <2>1, <2>2, QuietVars DEF find_lost, target_vars, host_vars, worker_vars,
                                             TimersKept, Syncing
<1>7. CASE next_event(w)
  <2>1. pc[w] = "find_use" /\ GotoWith(w, "find", Rewound(loc[w]))
    BY <1>7 DEF next_event, Use, At, Rewound
  <2>2. Moves(w) /\ pc'[w] = "find"
    BY <1>1, <1>2, <2>1, SameLocs, GotoWithMoves
       DEF Pcs, Locked, Adding, Dropping, Dropped, Freeing, Apart, Matches
  <2>3. NoEvent
    <3>1. PICK t \in Targets : ring[t] # <<>> /\ ring' = [ring EXCEPT ![t] = Tail(ring[t])]
      BY <2>1, <1>7 DEF next_event, HInv, Local, ScanPcs
    <3>2. ring[t] \in Seq(Handles \cup {NoHandle})
      BY DEF HInv, TypeInv, TargetType
    <3>3. \A i \in DOMAIN Tail(ring[t]) :
             i + 1 \in DOMAIN ring[t] /\ Tail(ring[t])[i] = ring[t][i + 1]
      BY <3>1, <3>2
    <3>4. ring'[t] = Tail(ring[t]) /\ \A s \in Targets \ {t} : ring'[s] = ring[s]
      BY <3>1 DEF HInv, TypeInv, TargetType
    <3> QED
      BY <3>3, <3>4 DEF NoEvent
  <2>4. Calm /\ TimersKept
    BY <1>3, <1>7 DEF Calm, next_event, host_vars, worker_vars, TimersKept
  <2> QED
    BY <2>1, <2>2, <2>3, <2>4 DEF Syncing
<1> QED
  BY <1>4, <1>5, <1>6, <1>7

\* The other steps of a scan.
LEMMA ScanMoves ==
    ASSUME HInv, NEW w \in Workers,
           find(w) \/ find_missed(w) \/ fail_skip(w) \/ fail_end(w)
    PROVE  /\ Moves(w) /\ Calm /\ NoEvent /\ TimersKept
           /\ pc[w] \notin Syncing /\ pc'[w] \notin {"publish_even", "sync_hz"}
<1>1. loc[w] \in LocType /\ loc[w].i # 0 /\ op[w] \in Ops
  BY DEF HInv, TypeInv, ControlType, Local
<1>2. Advanced(loc[w]) \in LocType /\ Rewound(loc[w]) \in LocType
  BY <1>1, LocIndex
<1>3. Calm /\ NoEvent /\ TimersKept
  BY LifeKept, QuietVars DEF find, find_missed, fail_skip, fail_end, target_vars, host_vars,
                             worker_vars, life_vars, TimersKept
<1>4. pc[w] \in {"find", "find_pin", "fail_scan"}
  BY DEF find, find_missed, fail_skip, fail_end, At
<1>5. CASE Goto(w, "find_pin")
  <2>1. Moves(w) /\ pc'[w] = "find_pin"
    BY <1>4, <1>5, GotoMoves DEF Pcs, Locked, Adding, Dropping, Dropped, Freeing, Apart, Matches
  <2> QED
    BY <1>3, <1>4, <2>1 DEF Syncing
<1>6. CASE \E p \in {"find", "fail_scan"} : GotoWith(w, p, Advanced(loc[w]))
  <2>1. PICK p \in {"find", "fail_scan"} : GotoWith(w, p, Advanced(loc[w]))
    BY <1>6
  <2>2. Moves(w) /\ pc'[w] = p
    BY <1>1, <1>2, <1>4, <2>1, SameLocs, GotoWithMoves
       DEF Pcs, Locked, Adding, Dropping, Dropped, Freeing, Apart, Matches
  <2> QED
    BY <1>3, <1>4, <2>2 DEF Syncing
<1>7. CASE fail_end(w)
  <2>1. PICK p \in {"rollback_lock", AfterSync[op[w]]} :
           GotoWith(w, p, Rewound(loc[w])) /\ pc[w] = "fail_scan"
    BY <1>7 DEF fail_end, At, Rewound
  <2>2. p \in Pcs \ (Locked \cup {"start_lock", "quiesce_lock", "publish_even"} \cup Syncing)
        /\ Matches(op[w], p)
    BY <1>1, AfterSyncMatches
       DEF Pcs, Locked, Adding, Dropping, Dropped, Freeing, Syncing, Matches
  <2>3. Moves(w) /\ pc'[w] = p
    BY <1>1, <1>2, <2>1, <2>2, SameLocs, GotoWithMoves
       DEF Locked, Adding, Dropping, Dropped, Freeing, Apart
  <2> QED
    BY <1>3, <1>4, <2>2, <2>3 DEF Syncing
<1> QED
  BY <1>5, <1>6, <1>7 DEF find, find_missed, fail_skip, NextTarget, Advanced

\* The discard and the end of a quiesce; the beginning of a publication.
LEMMA OtherMoves ==
    ASSUME HInv, NEW w \in Workers, discard_unowned(w) \/ quiesce_end(w) \/ publish_odd(w)
    PROVE  /\ Moves(w) /\ Calm /\ NoEvent /\ TimersKept /\ loc'[w] = loc[w]
           /\ pc'[w] \in {"sync_count", "quiesce_wait", "publish_even"}
           /\ pc'[w] = "publish_even" => publish_odd(w)
           /\ pc[w] \in Syncing => pc'[w] \in Syncing
<1>1. PICK p \in {"sync_count", "quiesce_wait", "publish_even"} :
        /\ Goto(w, p) /\ pc[w] \in {"discard_pin", "quiesce_end", "find_use"}
        /\ pc[w] = "discard_pin" => p = "sync_count"
        /\ p = "publish_even" => op[w] = "publish" /\ publish_odd(w)
  BY DEF discard_unowned, quiesce_end, publish_odd, At, AfterDiscard, Use
<1>2. Moves(w) /\ pc'[w] = p /\ loc'[w] = loc[w]
  BY <1>1, GotoMoves DEF Pcs, Locked, Adding, Dropping, Dropped, Freeing, Apart, Matches
<1>3. Calm /\ NoEvent /\ TimersKept
  BY LifeKept, QuietVars DEF discard_unowned, quiesce_end, publish_odd, target_vars, host_vars,
                             life_vars, TimersKept
<1> QED
  BY <1>1, <1>2, <1>3 DEF Syncing

\* sync_worker_timer: the two loads and the system call.
LEMMA SyncMoves ==
    ASSUME HInv, NEW w \in Workers, sync_count(w) \/ sync_hz(w) \/ sync_fails(w)
    PROVE  /\ Moves(w) /\ Calm /\ NoEvent /\ pc'[w] # "publish_even"
           /\ sync_count(w) => pc'[w] = "sync_hz" /\ loc'[w].count = active_targets
           /\ ~sync_count(w) => pc'[w] \notin Syncing
<1>1. loc[w] \in LocType /\ loc[w].i # 0 /\ op[w] \in Ops /\ active_targets \in Nat
  BY DEF HInv, TypeInv, ControlType, HostType, Local
<1>2. Failed(loc[w]) \in LocType
  BY <1>1, LocIndex
<1>3. Calm /\ NoEvent
  BY LifeKept, QuietVars DEF sync_count, sync_hz, sync_fails, target_vars, host_vars,
                             worker_vars, life_vars
<1>4. \A n \in Nat : [loc[w] EXCEPT !.count = n] \in LocType
                     /\ Same([loc[w] EXCEPT !.count = n], loc[w])
                     /\ [loc[w] EXCEPT !.count = n].count = n
  BY <1>1, LocCount, SameLocs DEF LocType
<1>5. pc[w] \in {"sync_count", "sync_hz"} /\ pc[w] \notin Apart
  BY DEF sync_count, sync_hz, sync_fails, At, Locked, Adding, Dropping, Dropped, Freeing, Apart
<1>6. CASE sync_count(w)
  <2>1. GotoWith(w, "sync_hz", [loc[w] EXCEPT !.count = active_targets])
    BY <1>6 DEF sync_count
  <2>2. /\ "sync_hz" \in Pcs \ (Locked \cup {"start_lock", "quiesce_lock"})
        /\ Matches(op[w], "sync_hz")
    BY DEF Pcs, Locked, Adding, Dropping, Dropped, Freeing, Matches
  <2>3. /\ Moves(w) /\ pc'[w] = "sync_hz"
        /\ loc'[w] = [loc[w] EXCEPT !.count = active_targets]
    BY <1>1, <1>4, <1>5, <2>1, <2>2, GotoWithMoves
  <2> QED
    BY <1>1, <1>3, <1>4, <1>6, <2>3
<1>7. CASE sync_hz(w)
  <2>1. GotoWith(w, AfterSync[op[w]], [loc[w] EXCEPT !.count = 0])
    BY <1>7 DEF sync_hz
  <2>2. /\ AfterSync[op[w]] \in Pcs
        /\ AfterSync[op[w]] \notin Locked \cup Syncing
                                   \cup {"start_lock", "quiesce_lock", "publish_even"}
        /\ Matches(op[w], AfterSync[op[w]])
    BY <1>1, AfterSyncMatches
  <2>3. Moves(w) /\ pc'[w] = AfterSync[op[w]]
    BY <1>4, <1>5, <2>1, <2>2, GotoWithMoves
  <2>4. ~sync_count(w)
    BY <1>7 DEF sync_count, sync_hz, At
  <2> QED
    BY <1>3, <2>2, <2>3, <2>4
<1>8. CASE sync_fails(w)
  <2>1. GotoWith(w, "fail_scan", Failed(loc[w]))
    BY <1>8 DEF sync_fails, Failed
  <2>2. /\ "fail_scan" \in Pcs \ (Locked \cup {"start_lock", "quiesce_lock"})
        /\ Matches(op[w], "fail_scan")
    BY DEF Pcs, Locked, Adding, Dropping, Dropped, Freeing, Matches
  <2>3. Moves(w) /\ pc'[w] = "fail_scan"
    BY <1>1, <1>2, <1>5, <2>1, <2>2, SameLocs, GotoWithMoves
  <2>4. ~sync_count(w)
    BY <1>8 DEF sync_count, sync_fails, At
  <2> QED
    BY <1>3, <2>3, <2>4 DEF Syncing
<1> QED
  BY <1>6, <1>7, <1>8

\* Returns that change nothing but a flag or a counter.
LEMMA QuietReturns ==
    ASSUME HInv, NEW w \in Workers,
           \/ find_none(w) \/ publish_unpin(w) \/ next_empty(w) \/ take_quality(w)
           \/ event_drain(w, "begin", TRUE) \/ event_drain(w, "end", FALSE)
           \/ quiesce_wait(w) \/ start_refused(w)
    PROVE  Calls(w) /\ Calm /\ NoEvent /\ TimersKept /\ pc[w] \notin Locked \cup Syncing
<1>1. CASE start_refused(w)
  <2>1. Calls(w)
    BY <1>1, ReturnToCalls DEF start_refused, Ops
  <2> QED
    BY <1>1, <2>1, LifeKept, QuietVars
       DEF start_refused, At, life_vars, target_vars, host_vars, worker_vars, TimersKept,
           Locked, Adding, Dropping, Dropped, Freeing, Syncing
<1>2. CASE find_none(w) \/ quiesce_wait(w)
  <2>1. Calls(w)
    BY <1>2, ReturnCalls DEF find_none, quiesce_wait
  <2> QED
    BY <1>2, <2>1, LifeKept, QuietVars
       DEF find_none, quiesce_wait, At, life_vars, target_vars, host_vars, worker_vars,
           TimersKept, Locked, Adding, Dropping, Dropped, Freeing, Syncing
<1>3. CASE \/ publish_unpin(w) \/ next_empty(w) \/ take_quality(w)
           \/ event_drain(w, "begin", TRUE) \/ event_drain(w, "end", FALSE)
  <2>1. UnpinAndReturn(w)
    BY <1>3 DEF publish_unpin, next_empty, take_quality, event_drain
  <2>2. Calls(w) /\ StatesKept
    BY <2>1, ReturnCalls, UnpinKeepsStates DEF UnpinAndReturn
  <2> QED
    BY <1>3, <2>1, <2>2, QuietVars
       DEF publish_unpin, next_empty, take_quality, event_drain, Use, At, UnpinAndReturn,
           target_vars, host_vars, worker_vars, TimersKept,
           Locked, Adding, Dropping, Dropped, Freeing, Syncing
<1> QED
  BY <1>1, <1>2, <1>3

\* The calls a VM makes.
LEMMA ClientCalls ==
    ASSUME HInv, NEW w \in Workers,
           \/ \E hz \in Hz : target_start(w, hz)
           \/ profiler_work(w) \/ publish_state(w)
           \/ \E h \in Handles : stop_collector(w, h)
    PROVE  Calls(w) /\ Calm /\ NoEvent /\ TimersKept /\ pc[w] \notin Locked \cup Syncing
<1>1. PICK o \in {"start", "begin", "publish"} : \E l :
        /\ Idle(w) /\ Call(w, o, l) /\ UNCHANGED irq
        /\ o \in {"start", "publish"} => Dispatching(w)
  BY DEF target_start, profiler_work, publish_state, stop_collector, Profiled
<1>2. pc'[w] = Entry(o) /\ op'[w] = o /\ Others(w)
  BY <1>1 DEF Call, HInv, TypeInv, ControlType, Others
<1>3. /\ Matches(o, Entry(o)) /\ Entry(o) \in Entries \ {"discard_pin"}
      /\ o = "start" => Entry(o) = "start_lock"
  BY DEF Matches, Entry, Entries
<1>4. Calls(w)
  BY <1>1, <1>2, <1>3 DEF Calls
<1>5. Calm /\ NoEvent /\ TimersKept
  BY LifeKept, QuietVars
     DEF target_start, profiler_work, publish_state, stop_collector, life_vars, target_vars,
         host_vars, worker_vars, TimersKept
<1> QED
  BY <1>1, <1>4, <1>5 DEF Idle, At, Locked, Adding, Dropping, Dropped, Freeing, Syncing

-----------------------------------------------------------------------------
(* What a step of one worker does to the slots.                            *)

\* Sessions are opened with a new token and closed; they do not change hands.
SessionStep ==
    /\ next_token <= next_token'
    /\ \A t \in Targets :
          \/ token'[t] = token[t] /\ handle'[t] = handle[t]
          \/ token'[t] = 0
          \/ token'[t] > next_token

SoundNext(s) ==
    s.target # NoTarget =>
        /\ s.token # 0 /\ s.token <= next_token'
        /\ token'[s.target] = s.token => handle'[s.target] = s.vm

LEMMA SoundKept ==
    ASSUME HInv, HInv', SessionStep, NEW s, Sound(s), s.target \in Targets \cup {NoTarget},
           s.token \in Nat
    PROVE  SoundNext(s)
<1>1. next_token \in Nat /\ next_token' \in Nat
  BY DEF HInv, TypeInv, LifeType
<1> QED
  BY <1>1 DEF SessionStep, Sound, SoundNext

LEMMA CalmSessions == HInv /\ Calm => SessionStep
  BY DEF HInv, TypeInv, LifeType, Calm, SessionStep

\* The samples of a ring stay those of its session when none is added.
LEMMA NoSampleAdded ==
    ASSUME SamplesBelong, NoEvent, UNCHANGED handle
    PROVE  SamplesBelong'
<1> SUFFICES ASSUME NEW t \in Targets, NEW i \in DOMAIN ring'[t]
             PROVE  ring'[t][i] = handle'[t]
  BY DEF SamplesBelong
<1>1. PICK j \in DOMAIN ring[t] : ring'[t][i] = ring[t][j]
  BY DEF NoEvent
<1> QED
  BY <1>1 DEF SamplesBelong

\* Another worker's slots stay sound and its own.
LEMMA OtherPublisher ==
    ASSUME HInv, HInv', SessionStep, NEW w \in Workers, NEW v \in Workers \ {w}, Publisher(v),
           Others(w), slot'[v] = slot[v], current_handle'[v] = current_handle[v]
    PROVE  Publisher(v)'
<1>1. /\ pc'[v] = pc[v] /\ op'[v] = op[v] /\ loc'[v] = loc[v] /\ irq'[v] = irq[v]
      /\ slot'[v] = slot[v] /\ current_handle'[v] = current_handle[v]
  BY DEF Others
<1>2. Intended(v)' = Intended(v) /\ (AboutTo(v)' <=> AboutTo(v))
  BY <1>1 DEF Intended, AboutTo, Running
<1>3. slot[v] \in SlotType /\ irq[v].slot \in SlotType /\ loc[v] \in LocType
  BY DEF HInv, TypeInv, WorkerType, BridgeType, ControlType, IrqType
<1>4. ASSUME NEW s \in SlotType, Sound(s) PROVE SoundNext(s)
  BY <1>4, SoundKept DEF SlotType
<1>5. Sound(slot[v])'
  BY <1>1, <1>3, <1>4 DEF Publisher, Sound, SoundNext
<1>6. (irq[v].pc # "none" => Sound(irq[v].slot))'
  BY <1>1, <1>3, <1>4 DEF Publisher, Sound, SoundNext
<1>7. AboutTo(v) => SoundNext(Intended(v))
  <2> SUFFICES ASSUME AboutTo(v) PROVE SoundNext(Intended(v))
    OBVIOUS
  <2>1. Sound(Intended(v))
    BY DEF Publisher
  <2>2. Intended(v).token \in Nat
    BY <1>3, LocFields DEF Intended
  <2>3. Intended(v).target \in Targets \cup {NoTarget}
    <3>1. CASE pc[v] = "publish_even"
      BY <3>1 DEF Intended, HInv, Local, ScanPcs
    <3>2. CASE pc[v] # "publish_even"
      BY <1>3, <3>2, LocFields DEF Intended
    <3> QED
      BY <3>1, <3>2
  <2> QED
    BY <2>1, <2>2, <2>3, SoundKept
<1>8. (AboutTo(v) => Sound(Intended(v)))'
  BY <1>2, <1>7 DEF Sound, SoundNext
<1> QED
  BY <1>1, <1>5, <1>6, <1>8 DEF Publisher, Dispatching, Running, Withdrawn

LEMMA SlotsFrame ==
    ASSUME HInv, HInv', SlotsInv, SessionStep, NEW w \in Workers, Others(w),
           \A v \in Workers \ {w} :
              slot'[v] = slot[v] /\ current_handle'[v] = current_handle[v],
           SamplesBelong', RunsOnce', Publisher(w)'
    PROVE  SlotsInv'
<1>1. \A v \in Workers \ {w} : Publisher(v)'
  BY OtherPublisher DEF SlotsInv
<1> QED
  BY <1>1 DEF SlotsInv

\* A worker that keeps its slot and its service.
LEMMA SlotsKept ==
    ASSUME HInv, HInv', SlotsInv, SessionStep, NEW w \in Workers, Others(w), UNCHANGED irq,
           UNCHANGED slot, UNCHANGED current_handle, SamplesBelong',
           Matches(op'[w], pc'[w]),
           op'[w] \in {"enter", "publish", "start"} => Dispatching(w),
           (AboutTo(w) => Sound(Intended(w)))',
           Withdrawn(w)' => Withdrawn(w)
    PROVE  SlotsInv'
<1>1. slot[w] \in SlotType /\ irq[w].slot \in SlotType
  BY DEF HInv, TypeInv, WorkerType, BridgeType, IrqType
<1>2. ASSUME NEW s \in SlotType, Sound(s) PROVE SoundNext(s)
  BY <1>2, SoundKept DEF SlotType
<1>3. Publisher(w)
  BY DEF SlotsInv
<1>4. Sound(slot[w])' /\ (irq[w].pc # "none" => Sound(irq[w].slot))'
  BY <1>1, <1>2, <1>3 DEF Publisher, Sound, SoundNext
<1>5. RunsOnce'
  BY DEF SlotsInv, RunsOnce, Dispatching, Running
<1>6. Publisher(w)'
  BY <1>3, <1>4 DEF Publisher, Dispatching, Running
<1> QED
  BY <1>5, <1>6, SlotsFrame

\* A thread that moves on or makes another call.
LEMMA MovesSlots ==
    ASSUME HInv, HInv', SlotsInv, NEW w \in Workers, Moves(w), Calm, NoEvent,
           pc'[w] = "publish_even" => Sound(Intended(w))'
    PROVE  SlotsInv'
<1>1. SessionStep /\ SamplesBelong'
  BY CalmSessions, NoSampleAdded DEF SlotsInv, Calm
<1>2. Publisher(w) /\ pc[w] \notin Apart /\ pc'[w] \notin Locked \cup {"start_lock"}
  BY DEF SlotsInv, Moves
<1>3. Withdrawn(w)' => Withdrawn(w)
  BY <1>2 DEF Moves, Withdrawn, Apart, Locked, Adding
<1>4. (AboutTo(w) => Sound(Intended(w)))'
  <2> SUFFICES ASSUME pc'[w] # "publish_even", op'[w] = "start"
               PROVE  Sound(Intended(w))'
    BY DEF AboutTo
  <2>1. AboutTo(w) /\ Intended(w)' = Intended(w)
    BY <1>2 DEF AboutTo, Intended, Moves, Same, Apart, Calm, Running
  <2>2. loc[w] \in LocType /\ pc[w] # "publish_even"
    BY <1>2 DEF HInv, TypeInv, ControlType, Apart
  <2>3. Intended(w).target \in Targets \cup {NoTarget} /\ Intended(w).token \in Nat
    BY <2>2, LocFields DEF Intended
  <2>4. SoundNext(Intended(w))
    BY <1>1, <1>2, <2>1, <2>3, SoundKept DEF Publisher
  <2> QED
    BY <2>1, <2>4 DEF Sound, SoundNext
<1> QED
  BY <1>1, <1>2, <1>3, <1>4, SlotsKept DEF Moves, Calm, Publisher

LEMMA CallsSlots ==
    ASSUME HInv, HInv', SlotsInv, NEW w \in Workers, Calls(w), Calm, NoEvent
    PROVE  SlotsInv'
<1>1. SessionStep /\ SamplesBelong'
  BY CalmSessions, NoSampleAdded DEF SlotsInv, Calm
<1>2. ~Withdrawn(w)' /\ ~AboutTo(w)'
  BY DEF Calls, Withdrawn, AboutTo, Entries
<1> QED
  BY <1>1, <1>2, SlotsKept DEF Calls, Calm

-----------------------------------------------------------------------------
(* The steps that publish, and the signal handler.                         *)

\* A target that a thread has pinned has a session.
LEMMA PinnedSession ==
    ASSUME HInv, Protocol!IInv, NEW w \in Workers, pc[w] = "find_use"
    PROVE  /\ loc[w].i \in Targets
           /\ token[loc[w].i] # 0 /\ token[loc[w].i] <= next_token
<1>1. loc[w].i \in Targets /\ pin[<<w, "op">>] = loc[w].i
  BY DEF HInv, Local, ScanPcs, PinsMatch, OpPinned
<1>2. <<w, "op">> \in Holders
  BY DEF Holders, Levels
<1>3. life[loc[w].i].state # "FREE"
  BY <1>1, <1>2, TargetsAssumption DEF Protocol!IInv, Protocol!FreeIsUnpinned
<1>4. token[loc[w].i] # 0 /\ token[loc[w].i] <= next_token
  BY <1>1, <1>3 DEF Protocol!IInv, Protocol!TokenWhileLive, Protocol!TokensDistinct
<1> QED
  BY <1>1, <1>4

\* What publish_state will write names the pinned session.
LEMMA PublishOddSlots ==
    ASSUME HInv, HInv', Protocol!IInv, SlotsInv, NEW w \in Workers, publish_odd(w)
    PROVE  SlotsInv'
<1>1. /\ Moves(w) /\ Calm /\ NoEvent /\ loc'[w] = loc[w]
      /\ pc'[w] \in {"sync_count", "quiesce_wait", "publish_even"}
  BY OtherMoves
<1>2. /\ pc[w] = "find_use" /\ token[loc[w].i] = loc[w].arg
      /\ handle[loc[w].i] = Running(w) /\ pc'[w] = "publish_even"
  BY DEF publish_odd, Use, At, Wanted, Goto, HInv, TypeInv, ControlType
<1>3. Sound(Intended(w))'
  BY <1>1, <1>2, PinnedSession DEF Sound, Intended, Calm, Running
<1> QED
  BY <1>1, <1>3, MovesSlots

\* The slot is written; it was sound before it was.
LEMMA PublishEvenSlots ==
    ASSUME HInv, HInv', SlotsInv, NEW w \in Workers, publish_even(w)
    PROVE  SlotsInv'
<1>1. /\ Others(w) /\ UNCHANGED irq /\ pc[w] = "publish_even"
      /\ pc'[w] = "publish_unpin" /\ op'[w] = op[w] /\ loc'[w] = loc[w]
  BY GotoFacts DEF publish_even, At, HInv, TypeInv, Pcs
<1>2. /\ UNCHANGED token /\ UNCHANGED next_token /\ UNCHANGED handle /\ UNCHANGED ring
      /\ UNCHANGED current_handle
      /\ slot' = [slot EXCEPT ![w] = Intended(w)]
  BY <1>1 DEF publish_even, life_vars, target_vars, PublishMasked, Intended
<1>3. slot'[w] = Intended(w) /\ \A v \in Workers \ {w} : slot'[v] = slot[v]
  BY <1>2 DEF HInv, TypeInv, WorkerType
<1>4. SessionStep /\ SamplesBelong' /\ RunsOnce'
  BY <1>2 DEF HInv, TypeInv, LifeType, SessionStep, SlotsInv, SamplesBelong, RunsOnce,
              Dispatching, Running
<1>5. Publisher(w)
  BY DEF SlotsInv
<1>6. op[w] = "publish" /\ Dispatching(w) /\ Sound(Intended(w))
  BY <1>1, <1>5 DEF Publisher, Matches, AboutTo
<1>7. Sound(slot[w])'
  BY <1>2, <1>3, <1>6 DEF Sound
<1>8. (irq[w].pc # "none" => Sound(irq[w].slot))'
  BY <1>1, <1>2, <1>5 DEF Publisher, Sound
<1>9. slot'[w].vm = Running(w)' /\ Dispatching(w)'
  BY <1>2, <1>3, <1>6 DEF Intended, Running, Dispatching
<1>10. Publisher(w)'
  BY <1>1, <1>6, <1>7, <1>8, <1>9 DEF Publisher, Matches, AboutTo, Withdrawn
<1> QED
  BY <1>1, <1>2, <1>3, <1>4, <1>10, SlotsFrame

\* dispatch_enter publishes the session it has found for the service.
LEMMA BindSlots ==
    ASSUME HInv, HInv', Protocol!IInv, SlotsInv, NEW w \in Workers, bind_dispatch(w)
    PROVE  SlotsInv'
<1>1. Calls(w)
  BY ReturnCalls DEF bind_dispatch, UnpinAndReturn
<1>2. PICK t \in Targets :
        /\ op[w] = "enter" /\ pc[w] = "find_use" /\ t = loc[w].i /\ handle[t] = Running(w)
        /\ token[t] # 0 /\ token[t] <= next_token
        /\ slot' = [slot EXCEPT ![w] = [target |-> t, token |-> token[t], vm |-> handle[t]]]
  BY PinnedSession DEF bind_dispatch, Use, At, Wanted, PublishMasked
<1>3. /\ UNCHANGED token /\ UNCHANGED next_token /\ UNCHANGED handle /\ UNCHANGED ring
      /\ UNCHANGED current_handle
  BY DEF bind_dispatch, target_vars, UnpinAndReturn
<1>4. /\ slot'[w] = [target |-> t, token |-> token[t], vm |-> handle[t]]
      /\ \A v \in Workers \ {w} : slot'[v] = slot[v]
  BY <1>2 DEF HInv, TypeInv, WorkerType
<1>5. SessionStep /\ SamplesBelong' /\ RunsOnce'
  BY <1>3 DEF HInv, TypeInv, LifeType, SessionStep, SlotsInv, SamplesBelong, RunsOnce,
              Dispatching, Running
<1>6. Publisher(w)
  BY DEF SlotsInv
<1>7. Dispatching(w)
  BY <1>2, <1>6 DEF Publisher
<1>8. Sound(slot[w])' /\ slot'[w].vm = Running(w)' /\ Dispatching(w)'
  BY <1>2, <1>3, <1>4, <1>7 DEF Sound, Running, Dispatching
<1>9. (irq[w].pc # "none" => Sound(irq[w].slot))'
  BY <1>1, <1>3, <1>6 DEF Publisher, Sound, Calls
<1>10. ~Withdrawn(w)' /\ ~AboutTo(w)'
  BY <1>1 DEF Calls, Withdrawn, AboutTo, Entries
<1>11. Publisher(w)'
  BY <1>1, <1>8, <1>9, <1>10 DEF Publisher, Calls
<1> QED
  BY <1>1, <1>3, <1>4, <1>5, <1>11, SlotsFrame DEF Calls

\* A change of service, from either side, withdraws the slot first.
LEMMA WithdrawSlots ==
    ASSUME HInv, HInv', SlotsInv, NEW w \in Workers,
           dispatch_leave(w) \/ \E h \in Handles : dispatch_enter(w, h)
    PROVE  SlotsInv'
<1>1. PICK o \in {"enter", "leave"} : \E l : Withdraw(w, o, l)
  BY DEF dispatch_enter, dispatch_leave
<1>2. /\ UNCHANGED token /\ UNCHANGED next_token /\ UNCHANGED handle /\ UNCHANGED ring
      /\ UNCHANGED irq
  BY DEF dispatch_enter, dispatch_leave, life_vars, target_vars
<1>3. Others(w) /\ op'[w] = o /\ pc'[w] = "discard_pin"
  BY <1>1, <1>2 DEF Withdraw, Call, Entry, HInv, TypeInv, ControlType, Others
<1>4. slot'[w] = NoSlot /\ \A v \in Workers \ {w} : slot'[v] = slot[v]
  BY <1>1 DEF Withdraw, PublishMasked, HInv, TypeInv, WorkerType
<1>5. /\ \A v \in Workers \ {w} : current_handle'[v] = current_handle[v]
      /\ o = "enter" => Dispatching(w)'
      /\ RunsOnce'
  <2>1. CASE dispatch_leave(w)
    <3>1. UNCHANGED current_handle /\ op'[w] = "leave"
      BY <2>1 DEF dispatch_leave, Withdraw, Call, HInv, TypeInv, ControlType
    <3> QED
      BY <1>3, <3>1 DEF SlotsInv, RunsOnce, Dispatching, Running
  <2>2. CASE \E h \in Handles : dispatch_enter(w, h)
    <3>1. PICK h \in Handles :
            /\ \A v \in Workers : current_handle[v] # h
            /\ current_handle' = [current_handle EXCEPT ![w] = h]
      BY <2>2 DEF dispatch_enter, Running
    <3>2. current_handle'[w] = h /\ h # NoHandle
          /\ \A v \in Workers \ {w} : current_handle'[v] = current_handle[v]
      BY <3>1, HandlesAssumption DEF HInv, TypeInv, WorkerType
    <3> QED
      BY <3>1, <3>2 DEF SlotsInv, RunsOnce, Dispatching, Running
  <2> QED
    BY <2>1, <2>2
<1>6. SessionStep /\ SamplesBelong'
  BY <1>2 DEF HInv, TypeInv, LifeType, SessionStep, SlotsInv, SamplesBelong
<1>7. (irq[w].pc # "none" => Sound(irq[w].slot))'
  BY <1>2 DEF SlotsInv, Publisher, Sound
<1>8. Publisher(w)'
  BY <1>3, <1>4, <1>5, <1>7 DEF Publisher, Matches, AboutTo, Sound, NoSlot
<1> QED
  BY <1>3, <1>4, <1>5, <1>6, <1>8, SlotsFrame

\* The service is left; its slot was withdrawn.
LEMMA LeaveEndSlots ==
    ASSUME HInv, HInv', SlotsInv, NEW w \in Workers, leave_end(w)
    PROVE  SlotsInv'
<1>1. Calls(w) /\ pc[w] = "leave_end"
  BY ReturnCalls DEF leave_end, At
<1>2. op'[w] \notin {"publish", "start"}
  <2>1. op[w] \in Ops /\ loc[w].stop \in BOOLEAN
    BY LocFields DEF HInv, TypeInv, ControlType
  <2>2. PICK o \in Ops \ {"enter", "leave", "start", "publish"} : ReturnTo(w, o)
    BY <2>1, AfterIsNew DEF leave_end, Return
  <2> QED
    BY <2>2, ReturnToFacts DEF HInv, TypeInv
<1>3. /\ UNCHANGED token /\ UNCHANGED next_token /\ UNCHANGED handle /\ UNCHANGED ring
      /\ UNCHANGED slot /\ current_handle' = [current_handle EXCEPT ![w] = NoHandle]
  BY DEF leave_end, life_vars, target_vars
<1>4. /\ current_handle'[w] = NoHandle
      /\ \A v \in Workers \ {w} : current_handle'[v] = current_handle[v]
  BY <1>3 DEF HInv, TypeInv, WorkerType
<1>5. SessionStep /\ SamplesBelong' /\ RunsOnce'
  BY <1>3, <1>4 DEF HInv, TypeInv, LifeType, SessionStep, SlotsInv, SamplesBelong, RunsOnce,
                    Dispatching, Running
<1>6. Publisher(w)
  BY DEF SlotsInv
<1>7. slot[w].target = NoTarget
  BY <1>1, <1>6 DEF Publisher, Matches, Withdrawn
<1>8. (irq[w].pc # "none" => Sound(irq[w].slot))'
  BY <1>1, <1>3, <1>6 DEF Publisher, Sound, Calls
<1>9. ~Withdrawn(w)' /\ ~AboutTo(w)'
  BY <1>1 DEF Calls, Withdrawn, AboutTo, Entries
<1>10. Publisher(w)'
  BY <1>1, <1>2, <1>3, <1>7, <1>8, <1>9 DEF Publisher, Sound, Calls
<1> QED
  BY <1>1, <1>3, <1>4, <1>5, <1>10, SlotsFrame DEF Calls

\* The handler reads a sound slot, and samples the session that it names.
LEMMA HandlerFrame ==
    ASSUME HInv, HInv', SlotsInv, NEW w \in Workers, UNCHANGED control_vars,
           UNCHANGED token, UNCHANGED next_token, UNCHANGED handle, UNCHANGED slot,
           UNCHANGED current_handle, \A v \in Workers \ {w} : irq'[v] = irq[v],
           irq'[w].pc # "none" => Sound(irq'[w].slot), SamplesBelong'
    PROVE  SlotsInv'
<1>1. Others(w) /\ pc'[w] = pc[w] /\ op'[w] = op[w] /\ loc'[w] = loc[w]
  BY DEF control_vars, Others
<1>2. SessionStep /\ RunsOnce'
  BY DEF HInv, TypeInv, LifeType, SessionStep, SlotsInv, RunsOnce, Dispatching, Running
<1>3. (irq[w].pc # "none" => Sound(irq[w].slot))'
  BY DEF Sound
<1>4. Publisher(w)
  BY DEF SlotsInv
<1>5. Publisher(w)'
  BY <1>1, <1>3, <1>4 DEF Publisher, Dispatching, Running, Sound, AboutTo, Intended, Withdrawn
<1> QED
  BY <1>1, <1>2, <1>5, SlotsFrame

LEMMA SampleAdded ==
    ASSUME HInv, HInv', SlotsInv, NEW w \in Workers, handler_push(w)
    PROVE  SamplesBelong'
<1>1. PICK t \in Targets : ring' = [ring EXCEPT ![t] = Append(ring[t], handle[t])]
  <2>1. irq[w].pc = "use" /\ irq[w].slot.target \in Targets
    BY DEF handler_push, InHandler, HInv, Local
  <2>2. Sound(irq[w].slot)
    BY <2>1 DEF SlotsInv, Publisher
  <2>3. handle[irq[w].slot.target] = irq[w].slot.vm
    BY <2>1, <2>2, TargetsAssumption DEF Sound, handler_push, SameSession
  <2> QED
    BY <2>1, <2>3 DEF handler_push
<1>2. UNCHANGED handle
  BY DEF handler_push, HandlerReturn
<1>3. ring[t] \in Seq(Handles \cup {NoHandle})
  BY DEF HInv, TypeInv, TargetType
<1>4. handle[t] \in Handles \cup {NoHandle}
  BY DEF HInv, TypeInv, TargetType
<1>5. /\ ring'[t] = Append(ring[t], handle[t])
      /\ \A s \in Targets \ {t} : ring'[s] = ring[s]
  BY <1>1 DEF HInv, TypeInv, TargetType
<1>6. \A i \in DOMAIN Append(ring[t], handle[t]) : Append(ring[t], handle[t])[i] = handle[t]
  <2>1. \A i \in DOMAIN ring[t] : ring[t][i] = handle[t]
    BY <1>1 DEF SlotsInv, SamplesBelong
  <2> QED
    BY <1>1, <1>3, <1>4, <2>1
<1>7. \A s \in Targets \ {t} : \A i \in DOMAIN ring'[s] : ring'[s][i] = handle'[s]
  BY <1>2, <1>5 DEF SlotsInv, SamplesBelong
<1> QED
  BY <1>1, <1>2, <1>5, <1>6, <1>7 DEF SamplesBelong

LEMMA HandlerSlots ==
    ASSUME HInv, HInv', SlotsInv, NEW w \in Workers,
           tick(w) \/ handler_enter(w) \/ Handler(w)
    PROVE  SlotsInv'
<1>1. /\ UNCHANGED control_vars /\ UNCHANGED token /\ UNCHANGED next_token
      /\ UNCHANGED handle /\ UNCHANGED slot /\ UNCHANGED current_handle
  BY DEF tick, handler_enter, Handler, handler_pin, handler_unpinned, handler_push,
         handler_reject, handler_stale_token, HandlerReturn, life_vars, target_vars,
         worker_vars
<1>2. \A v \in Workers \ {w} : irq'[v] = irq[v]
  BY DEF HInv, TypeInv, BridgeType, tick, handler_enter, Handler, handler_pin,
         handler_unpinned, handler_push, handler_reject, handler_stale_token, HandlerReturn
<1>3. irq[w] \in IrqType /\ irq' \in [Workers -> IrqType]
  BY DEF HInv, TypeInv, BridgeType
<1>4. irq'[w].pc # "none" =>
        \/ irq[w].pc # "none" /\ irq'[w].slot = irq[w].slot
        \/ irq'[w].slot = slot[w]
  <2>1. CASE tick(w)
    BY <2>1 DEF tick
  <2>2. CASE handler_enter(w)
    <3>1. irq'[w] = IF slot[w].target = NoTarget THEN NoIrq
                    ELSE [NoIrq EXCEPT !.pc = "pin", !.slot = slot[w], !.odd = odd[w]]
      BY <2>2 DEF handler_enter, HInv, TypeInv, BridgeType
    <3> QED
      BY <3>1 DEF NoIrq
  <2>3. CASE handler_pin(w)
    <3>1. irq[w].pc = "pin"
      BY <2>3 DEF handler_pin
    <3>2. irq'[w].slot = irq[w].slot
      BY <1>3, <2>3 DEF handler_pin, IrqType, HInv, TypeInv, BridgeType
    <3> QED
      BY <3>1, <3>2
  <2>4. CASE handler_unpinned(w) \/ handler_push(w) \/ handler_reject(w)
             \/ handler_stale_token(w)
    <3>1. irq'[w] = NoIrq
      BY <2>4 DEF handler_unpinned, handler_push, handler_reject, handler_stale_token,
                  HandlerReturn, HInv, TypeInv, BridgeType
    <3> QED
      BY <3>1 DEF NoIrq
  <2> QED
    BY <2>1, <2>2, <2>3, <2>4 DEF Handler
<1>5. irq'[w].pc # "none" => Sound(irq'[w].slot)
  BY <1>4 DEF SlotsInv, Publisher
<1>6. SamplesBelong'
  <2>1. CASE handler_push(w)
    BY <2>1, SampleAdded
  <2>2. CASE ~handler_push(w)
    <3>1. UNCHANGED ring
      BY <2>2 DEF tick, handler_enter, Handler, handler_pin, handler_unpinned,
                  handler_reject, handler_stale_token, target_vars
    <3> QED
      BY <1>1, <3>1 DEF SlotsInv, SamplesBelong
  <2> QED
    BY <2>1, <2>2
<1> QED
  BY <1>1, <1>2, <1>5, <1>6, HandlerFrame

-----------------------------------------------------------------------------
(* The steps of a start, a quiesce and a release.                          *)

\* A thread that keeps its slot while it holds or takes the lock.
LEMMA LockSlots ==
    ASSUME HInv, HInv', SlotsInv, NEW w \in Workers,
           \/ start_hz(w) \/ rollback_lock(w) \/ rollback_hz(w)
           \/ drop_count(w, "rollback_count", "rollback_hz")
           \/ drop_count(w, "quiesce_count", "quiesce_hz")
           \/ quiesce_lock(w) \/ release_lock(w)
    PROVE  SlotsInv'
<1>1. PICK p \in Locked, l \in LocType :
        /\ GotoWith(w, p, l) \/ (Goto(w, p) /\ l = loc[w])
        /\ Same(l, loc[w]) \/ pc[w] \in {"quiesce_lock", "release_lock"}
        /\ pc[w] \in Locked \cup {"rollback_lock", "quiesce_lock", "release_lock"}
        /\ p = "start_hz" => FALSE
        /\ p = "start_count" => pc[w] = "start_hz"
        /\ pc[w] \in Adding => p = "start_count"
  <2>1. loc[w] \in LocType /\ Same(loc[w], loc[w])
    BY SameLocs DEF HInv, TypeInv, ControlType
  <2>2. CASE \/ start_hz(w) \/ rollback_lock(w) \/ rollback_hz(w)
             \/ drop_count(w, "rollback_count", "rollback_hz")
             \/ drop_count(w, "quiesce_count", "quiesce_hz")
    BY <2>1, <2>2 DEF start_hz, rollback_lock, rollback_hz, drop_count, At, Locked, Adding,
                      Dropping, Dropped, Freeing
  <2>3. CASE quiesce_lock(w) \/ release_lock(w)
    <3>1. PICK t \in Targets, p \in {"quiesce_count", "release_wait"} :
             /\ GotoWith(w, p, Named(loc[w], t)) /\ pc[w] \in {"quiesce_lock", "release_lock"}
      BY <2>3 DEF quiesce_lock, release_lock, At, Named
    <3>2. PICK l \in LocType : l = Named(loc[w], t)
      BY <2>1, LocTarget, 0 \in Nat
    <3>3. GotoWith(w, p, l)
      BY <3>1, <3>2
    <3>4. /\ pc[w] \in Locked \cup {"rollback_lock", "quiesce_lock", "release_lock"}
          /\ pc[w] \notin Adding /\ p \in Locked
          /\ p # "start_hz" /\ p # "start_count"
      BY <3>1 DEF Locked, Adding, Dropping, Dropped, Freeing
    <3> QED
      BY <3>1, <3>3, <3>4, Zenon
  <2> QED
    BY <2>2, <2>3
<1>2. Locked \subseteq Pcs
  BY DEF Locked, Adding, Dropping, Dropped, Freeing, Pcs
<1>3. /\ Others(w) /\ UNCHANGED irq /\ pc'[w] = p /\ op'[w] = op[w] /\ loc'[w] = l
  BY <1>1, <1>2, GotoFacts, GotoWithFacts DEF HInv, TypeInv
<1>4. /\ UNCHANGED token /\ UNCHANGED next_token /\ UNCHANGED handle /\ UNCHANGED ring
      /\ UNCHANGED slot /\ UNCHANGED current_handle
  BY DEF start_hz, rollback_lock, rollback_hz, drop_count, quiesce_lock, release_lock,
         life_vars, target_vars, worker_vars
<1>5. SessionStep /\ SamplesBelong'
  BY <1>4 DEF HInv, TypeInv, LifeType, SessionStep, SlotsInv, SamplesBelong
<1>6. Publisher(w)
  BY DEF SlotsInv
<1>7. Matches(op'[w], pc'[w])
  <2>1. pc[w] = "start_hz" => op[w] = "start"
    BY <1>6 DEF Publisher, Matches
  <2> QED
    BY <1>1, <1>3, <2>1 DEF Matches, Locked, Adding, Dropping, Dropped, Freeing
<1>8. Withdrawn(w)' => Withdrawn(w)
  BY <1>1, <1>3 DEF Withdrawn, Locked, Adding, Dropping, Dropped, Freeing
<1>9. (AboutTo(w) => Sound(Intended(w)))'
  <2> SUFFICES ASSUME AboutTo(w)' PROVE Sound(Intended(w))'
    OBVIOUS
  <2>1. op[w] = "start" /\ pc'[w] # "publish_even"
    BY <1>1, <1>3 DEF AboutTo, Locked, Adding, Dropping, Dropped, Freeing
  <2>2. pc[w] \notin {"quiesce_lock", "release_lock", "start_lock", "publish_even"}
    BY <1>1, <1>6, <2>1 DEF Publisher, Matches, Locked, Adding, Dropping, Dropped, Freeing
  <2>3. AboutTo(w) /\ Intended(w)' = Intended(w)
    BY <1>1, <1>3, <1>4, <2>1, <2>2 DEF AboutTo, Intended, Same, Running
  <2> QED
    BY <1>4, <1>6, <2>3 DEF Publisher, Sound
<1> QED
  BY <1>3, <1>4, <1>5, <1>6, <1>7, <1>8, <1>9, SlotsKept DEF Publisher

\* A start's and a quiesce's slot is withdrawn before the timer is looked at.
LEMMA CutSlots ==
    ASSUME HInv, HInv', SlotsInv, NEW w \in Workers, start_count(w) \/ quiesce_hz(w)
    PROVE  SlotsInv'
<1>1. loc[w] \in LocType /\ slot[w] \in SlotType
  BY DEF HInv, TypeInv, ControlType, WorkerType
<1>2. PICK l \in LocType :
        /\ GotoWith(w, "discard_pin", l) /\ Same(l, loc[w])
  <2>1. CASE start_count(w)
    BY <1>1, <2>1, LocPrev, SameLocs DEF start_count, SetAside
  <2>2. CASE quiesce_hz(w)
    <3>1. [NoSlot EXCEPT !.target = loc[w].target, !.token = loc[w].arg] \in SlotType
      BY <1>1, LocFields, SlotFacts
    <3> QED
      BY <1>1, <2>2, <3>1, LocPrev, SameLocs DEF quiesce_hz, SetAside
  <2> QED
    BY <2>1, <2>2
<1>3. /\ Others(w) /\ UNCHANGED irq /\ pc'[w] = "discard_pin" /\ op'[w] = op[w]
      /\ loc'[w] = l
  BY <1>2, GotoWithFacts DEF HInv, TypeInv, Pcs
<1>4. /\ UNCHANGED token /\ UNCHANGED next_token /\ UNCHANGED handle /\ UNCHANGED ring
      /\ UNCHANGED current_handle
  BY DEF start_count, quiesce_hz, life_vars, target_vars
<1>5. /\ pc[w] \in {"start_count", "quiesce_hz"}
      /\ slot'[w] = NoSlot \/ (slot'[w] = slot[w] /\ pc[w] = "quiesce_hz")
      /\ \A v \in Workers \ {w} : slot'[v] = slot[v]
  <2>1. slot \in [Workers -> SlotType]
    BY DEF HInv, TypeInv, WorkerType
  <2>2. CASE start_count(w)
    BY <2>1, <2>2 DEF start_count, At, PublishMasked
  <2>3. CASE quiesce_hz(w)
    <3>1. PICK s : s \in {NoSlot, slot[w]} /\ slot' = [slot EXCEPT ![w] = s]
      BY <2>3 DEF quiesce_hz, PublishMasked
    <3> QED
      BY <2>1, <2>3, <3>1 DEF quiesce_hz, At
  <2> QED
    BY <2>2, <2>3
<1>6. Publisher(w)
  BY DEF SlotsInv
<1>7. SessionStep /\ SamplesBelong' /\ RunsOnce'
  BY <1>4 DEF HInv, TypeInv, LifeType, SessionStep, SlotsInv, SamplesBelong, RunsOnce,
              Dispatching, Running
<1>8. (AboutTo(w) => Sound(Intended(w)))'
  BY <1>2, <1>3, <1>4, <1>5, <1>6 DEF AboutTo, Intended, Same, Running, Publisher, Sound
<1>9. /\ Sound(slot[w])' /\ (slot[w].target # NoTarget => slot[w].vm = Running(w))'
      /\ (slot[w].target # NoTarget => Dispatching(w))'
  BY <1>4, <1>5, <1>6 DEF Publisher, Sound, NoSlot, Running, Dispatching
<1>10. (Withdrawn(w) => slot[w].target = NoTarget)'
  BY <1>3, <1>5, <1>6 DEF Publisher, Withdrawn, NoSlot
<1>11. Publisher(w)'
  BY <1>3, <1>4, <1>6, <1>8, <1>9, <1>10 DEF Publisher, Matches, Sound, Dispatching, Running
<1> QED
  BY <1>3, <1>4, <1>5, <1>7, <1>11, SlotsFrame

\* A session is opened: a new token, an empty ring.
LEMMA SelectSlots ==
    ASSUME HInv, HInv', SlotsInv, NEW w \in Workers, start_select(w)
    PROVE  SlotsInv'
<1>1. loc[w] \in LocType /\ next_token \in Nat
  BY DEF HInv, TypeInv, ControlType, LifeType
<1>2. PICK t \in Targets :
        /\ pc[w] = "start_lock"
        /\ next_token' = next_token + 1
        /\ token' = [token EXCEPT ![t] = next_token + 1]
        /\ handle' = [handle EXCEPT ![t] = Running(w)]
        /\ ring' = [ring EXCEPT ![t] = <<>>]
        /\ GotoWith(w, "start_hz", Opened(loc[w], t, next_token + 1))
  BY DEF start_select, At, Opened
<1>3. PICK l \in LocType : l = Opened(loc[w], t, next_token + 1)
  BY <1>1, LocTarget, next_token + 1 \in Nat
<1>4. l.target = t /\ l.arg = next_token + 1
  BY <1>1, <1>3 DEF Opened, LocType
<1>5. /\ Others(w) /\ UNCHANGED irq /\ pc'[w] = "start_hz" /\ op'[w] = op[w] /\ loc'[w] = l
  BY <1>2, <1>3, GotoWithFacts DEF HInv, TypeInv, Pcs
<1>6. UNCHANGED slot /\ UNCHANGED current_handle
  BY DEF start_select, worker_vars
<1>7. /\ token'[t] = next_token + 1 /\ handle'[t] = Running(w) /\ ring'[t] = <<>>
      /\ \A s \in Targets \ {t} :
            token'[s] = token[s] /\ handle'[s] = handle[s] /\ ring'[s] = ring[s]
  BY <1>2 DEF HInv, TypeInv, LifeType, TargetType
<1>8. SessionStep
  BY <1>1, <1>2, <1>7 DEF SessionStep
<1>9. SamplesBelong'
  BY <1>7 DEF SlotsInv, SamplesBelong
<1>10. Publisher(w)
  BY DEF SlotsInv
<1>11. op[w] = "start" /\ Dispatching(w)
  BY <1>2, <1>10 DEF Publisher, Matches
<1>12. Sound(Intended(w))'
  BY <1>1, <1>2, <1>4, <1>5, <1>6, <1>7 DEF Sound, Intended, Running
<1> QED
  BY <1>5, <1>6, <1>8, <1>9, <1>11, <1>12, SlotsKept DEF Matches, Withdrawn

\* The slot of a started session is published.
LEMMA StartPublishSlots ==
    ASSUME HInv, HInv', SlotsInv, NEW w \in Workers, start_publish(w)
    PROVE  SlotsInv'
<1>1. Calls(w) /\ op'[w] = "end" /\ pc[w] = "start_publish"
  BY ReturnToCalls DEF start_publish, At, Ops
<1>2. /\ UNCHANGED token /\ UNCHANGED next_token /\ UNCHANGED handle /\ UNCHANGED ring
      /\ UNCHANGED current_handle /\ slot' = [slot EXCEPT ![w] = Intended(w)]
  BY <1>1 DEF start_publish, life_vars, target_vars, PublishMasked, Intended
<1>3. slot'[w] = Intended(w) /\ \A v \in Workers \ {w} : slot'[v] = slot[v]
  BY <1>2 DEF HInv, TypeInv, WorkerType
<1>4. SessionStep /\ SamplesBelong' /\ RunsOnce'
  BY <1>2 DEF HInv, TypeInv, LifeType, SessionStep, SlotsInv, SamplesBelong, RunsOnce,
              Dispatching, Running
<1>5. Publisher(w)
  BY DEF SlotsInv
<1>6. op[w] = "start" /\ Dispatching(w) /\ Sound(Intended(w))
  BY <1>1, <1>5 DEF Publisher, Matches, AboutTo
<1>7. Sound(slot[w])' /\ slot'[w].vm = Running(w)' /\ Dispatching(w)'
  BY <1>2, <1>3, <1>6 DEF Sound, Intended, Running, Dispatching
<1>8. (irq[w].pc # "none" => Sound(irq[w].slot))'
  BY <1>1, <1>2, <1>5 DEF Publisher, Sound, Calls
<1>9. ~Withdrawn(w)' /\ ~AboutTo(w)'
  BY <1>1 DEF Calls, Withdrawn, AboutTo, Entries
<1>10. Publisher(w)'
  BY <1>1, <1>7, <1>8, <1>9 DEF Publisher, Calls
<1> QED
  BY <1>1, <1>2, <1>3, <1>4, <1>10, SlotsFrame DEF Calls

\* A session is erased.
LEMMA FreeSlots ==
    ASSUME HInv, HInv', SlotsInv, NEW w \in Workers, rollback_wait(w) \/ release_wait(w)
    PROVE  SlotsInv'
<1>1. Calls(w) /\ op'[w] = "none"
  BY ReturnToCalls DEF rollback_wait, release_wait, Ops
<1>2. UNCHANGED slot /\ UNCHANGED current_handle
  BY DEF rollback_wait, release_wait, worker_vars
<1>3. PICK t : FreeTarget(t)
  BY DEF rollback_wait, release_wait
<1>4. /\ UNCHANGED next_token
      /\ \A s \in Targets :
            \/ token'[s] = token[s] /\ handle'[s] = handle[s] /\ ring'[s] = ring[s]
            \/ token'[s] = 0 /\ ring'[s] = <<>>
  BY <1>3 DEF FreeTarget, HInv, TypeInv, LifeType, TargetType
<1>5. SessionStep
  BY <1>4 DEF SessionStep, HInv, TypeInv, LifeType
<1>6. SamplesBelong'
  BY <1>4 DEF SlotsInv, SamplesBelong
<1>7. ~Withdrawn(w)' /\ ~AboutTo(w)'
  BY <1>1 DEF Calls, Withdrawn, AboutTo, Entries
<1> QED
  BY <1>1, <1>2, <1>5, <1>6, <1>7, SlotsKept DEF Calls

-----------------------------------------------------------------------------
(* SlotsInv is an invariant.                                               *)

LEMMA InitSlots == Init => SlotsInv
<1> SUFFICES ASSUME Init PROVE SlotsInv
  OBVIOUS
<1>1. SamplesBelong
  BY DEF Init, SamplesBelong
<1>2. RunsOnce
  BY DEF Init, RunsOnce, Dispatching, Running
<1>3. ASSUME NEW w \in Workers PROVE Publisher(w)
  <2>1. op[w] = "none" /\ pc[w] = "idle" /\ slot[w] = NoSlot /\ irq[w].pc = "none"
    BY DEF Init, NoIrq
  <2> QED
    BY <2>1 DEF Publisher, Matches, Sound, NoSlot, AboutTo, Withdrawn
<1> QED
  BY <1>1, <1>2, <1>3 DEF SlotsInv

LEMMA StepSlots ==
    ASSUME HInv, HInv', Protocol!IInv, SlotsInv, NEW w \in Workers, Step(w)
    PROVE  SlotsInv'
<1>1. CASE \/ discard_pin(w) \/ fail_pin(w) \/ find_pin(w)
           \/ discard_use(w) \/ fail_use(w) \/ find_lost(w) \/ next_event(w)
  BY <1>1, PinMoves, UnpinMoves, MovesSlots
<1>2. CASE \/ find(w) \/ find_missed(w) \/ fail_skip(w) \/ fail_end(w)
           \/ sync_count(w) \/ sync_hz(w) \/ sync_fails(w)
  BY <1>2, ScanMoves, SyncMoves, MovesSlots
<1>3. CASE discard_unowned(w) \/ quiesce_end(w)
  <2>1. pc'[w] # "publish_even"
    <3>1. Goto(w, "sync_count") \/ Goto(w, "quiesce_wait")
      BY <1>3 DEF discard_unowned, quiesce_end, AfterDiscard
    <3> QED
      BY <3>1 DEF Goto, HInv, TypeInv, ControlType
  <2> QED
    BY <1>3, <2>1, OtherMoves, MovesSlots
<1>4. CASE publish_odd(w) \/ publish_even(w) \/ bind_dispatch(w) \/ leave_end(w)
  BY <1>4, PublishOddSlots, PublishEvenSlots, BindSlots, LeaveEndSlots
<1>5. CASE \/ start_hz(w) \/ rollback_hz(w)
           \/ drop_count(w, "rollback_count", "rollback_hz")
           \/ drop_count(w, "quiesce_count", "quiesce_hz")
  BY <1>5, LockSlots
<1>6. CASE start_count(w) \/ quiesce_hz(w) \/ start_publish(w)
  BY <1>6, CutSlots, StartPublishSlots
<1>7. CASE rollback_wait(w) \/ release_wait(w)
  BY <1>7, FreeSlots
<1>8. CASE \/ find_none(w) \/ publish_unpin(w) \/ next_empty(w) \/ take_quality(w)
           \/ event_drain(w, "begin", TRUE) \/ event_drain(w, "end", FALSE)
  BY <1>8, QuietReturns, CallsSlots
<1> QED
  BY <1>1, <1>2, <1>3, <1>4, <1>5, <1>6, <1>7, <1>8 DEF Step

LEMMA NextSlots == HInv /\ HInv' /\ Protocol!IInv /\ SlotsInv /\ [Next]_vars => SlotsInv'
<1> SUFFICES ASSUME HInv, HInv', Protocol!IInv, SlotsInv, [Next]_vars
             PROVE  SlotsInv'
  OBVIOUS
<1>1. CASE UNCHANGED vars
  <2>1. /\ UNCHANGED next_token /\ UNCHANGED token /\ UNCHANGED handle /\ UNCHANGED ring
        /\ UNCHANGED slot /\ UNCHANGED current_handle /\ UNCHANGED irq
        /\ UNCHANGED op /\ UNCHANGED pc /\ UNCHANGED loc
    BY <1>1 DEF vars, life_vars, target_vars, worker_vars, control_vars
  <2>2. SamplesBelong' /\ RunsOnce'
    BY <2>1 DEF SlotsInv, SamplesBelong, RunsOnce, Dispatching, Running
  <2>3. \A w \in Workers : Publisher(w)'
    BY <2>1 DEF SlotsInv, Publisher, Sound, Dispatching, Running, AboutTo, Intended, Withdrawn
  <2> QED
    BY <2>2, <2>3 DEF SlotsInv
<1>2. CASE Next
  <2>1. PICK w \in Workers :
          Client(w) \/ Thread(w) \/ tick(w) \/ handler_enter(w) \/ Handler(w)
    BY <1>2 DEF Next
  <2>2. CASE Client(w)
    BY <2>2, WithdrawSlots, ClientCalls, CallsSlots DEF Client
  <2>3. CASE Step(w)
    BY <2>3, StepSlots
  <2>4. CASE Lock(w) \/ quiesce_wait(w)
    BY <2>4, SelectSlots, LockSlots, QuietReturns, CallsSlots DEF Lock
  <2>5. CASE tick(w) \/ handler_enter(w) \/ Handler(w)
    BY <2>5, HandlerSlots
  <2> QED
    BY <2>1, <2>2, <2>3, <2>4, <2>5 DEF Thread
<1> QED
  BY <1>1, <1>2

LEMMA SlotsInvariance == Spec => []SlotsInv
  BY InitSlots, NextSlots, Invariance, ProtocolInvariance, PTL DEF Spec

-----------------------------------------------------------------------------
(* The ring of a session.                                                  *)

\* "Other services ... are not counted in this result": every event in a ring is
\* of the VM whose session owns the target, in every reachable state.
THEOREM SamplesOwn == Spec => []SamplesBelong
  BY SlotsInvariance, PTL DEF SlotsInv

\* A published slot of a live session names what its worker runs.
LEMMA PublisherRuns ==
    ASSUME SlotsInv, NEW w \in Workers, NEW t \in Targets, Publishes(w, t)
    PROVE  Runs(w, t)
<1>1. Publisher(w)
  BY DEF SlotsInv
<1> QED
  BY <1>1, TargetsAssumption DEF Publishes, Publisher, Sound, Runs

\* No two workers publish the same session, so the handlers that append to its ring
\* are those of one thread.
THEOREM OneProducer == Spec => []SingleProducer
<1>1. SlotsInv => SingleProducer
  BY PublisherRuns DEF SingleProducer, SlotsInv, RunsOnce, Runs, Active
<1> QED
  BY <1>1, SlotsInvariance, PTL

-----------------------------------------------------------------------------
(* What a step does to the counts.                                         *)

LEMMA ActiveFinite ==
    ASSUME NEW S, S \subseteq Targets
    PROVE  /\ IsFiniteSet(S) /\ Cardinality(S) \in Nat
           /\ Cardinality(S) = 0 <=> S = {}
           /\ \A t \in Targets \ S : Cardinality(S \cup {t}) = Cardinality(S) + 1
           /\ \A t \in S : Cardinality(S) = Cardinality(S \ {t}) + 1
<1>1. IsFiniteSet(Targets)
  BY TargetsAssumption, FS_Interval DEF Targets
<1>2. IsFiniteSet(S)
  BY <1>1, FS_Subset
<1>3. Cardinality(S) \in Nat /\ (Cardinality(S) = 0 <=> S = {})
  BY <1>2, FS_CardinalityType, FS_EmptySet
<1>4. \A t \in Targets \ S : Cardinality(S \cup {t}) = Cardinality(S) + 1
  BY <1>2, FS_AddElement
<1>5. ASSUME NEW t \in S PROVE Cardinality(S) = Cardinality(S \ {t}) + 1
  <2>1. IsFiniteSet(S \ {t})
    BY <1>2, FS_Subset
  <2>2. Cardinality((S \ {t}) \cup {t}) = Cardinality(S \ {t}) + 1
    BY <2>1, FS_AddElement
  <2>3. (S \ {t}) \cup {t} = S
    OBVIOUS
  <2> QED
    BY <2>2, <2>3
<1> QED
  BY <1>2, <1>3, <1>4, <1>5

LEMMA ActiveKept == StatesKept => Active' = Active
  BY DEF StatesKept, Active

\* A worker outside the lock, which leaves alone what the lock guards.
LEMMA CountsKept ==
    ASSUME CountsInv, NEW w \in Workers, Others(w), pc[w] \notin Locked, pc'[w] \notin Locked,
           StatesKept, UNCHANGED token, UNCHANGED sample_hz,
           \A v \in Workers \ {w} : slot'[v] = slot[v],
           UNCHANGED host_lock, UNCHANGED active_targets, UNCHANGED active_sample_hz
    PROVE  CountsInv'
<1>1. Active' = Active
  BY ActiveKept
<1>2. ASSUME NEW v \in Workers \ {w} PROVE Counted(v)'
  <2>1. pc'[v] = pc[v] /\ loc'[v] = loc[v] /\ slot'[v] = slot[v] /\ Counted(v)
    BY DEF Others, CountsInv
  <2> QED
    BY <1>1, <2>1 DEF Counted, AddingSession, DroppingSession, DroppedSession, Settled, SameHz
<1>3. Counted(w)'
  BY DEF CountsInv, Counted, Locked
<1>4. (host_lock = NoWorker => Settled)'
  BY <1>1 DEF CountsInv, Settled, DroppedSession, SameHz
<1> QED
  BY <1>2, <1>3, <1>4 DEF CountsInv

\* A step that leaves the threads where they are.
LEMMA CountsStill ==
    ASSUME CountsInv, UNCHANGED pc, UNCHANGED loc, StatesKept, UNCHANGED token,
           UNCHANGED sample_hz, UNCHANGED slot,
           UNCHANGED host_lock, UNCHANGED active_targets, UNCHANGED active_sample_hz
    PROVE  CountsInv'
<1>1. Active' = Active
  BY ActiveKept
<1> QED
  BY <1>1 DEF CountsInv, Counted, AddingSession, DroppingSession, DroppedSession, Settled, SameHz

\* The worker that takes, holds or gives back the lock.
LEMMA CountsAlone ==
    ASSUME CountsInv, NEW w \in Workers, Others(w),
           host_lock \in {w, NoWorker}, host_lock' \in {w, NoWorker},
           Counted(w)', host_lock' = NoWorker => Settled'
    PROVE  CountsInv'
<1>1. ASSUME NEW v \in Workers \ {w} PROVE Counted(v)'
  <2>1. pc'[v] = pc[v] /\ pc[v] \notin Locked /\ host_lock' # v
    BY WorkersAssumption DEF Others, CountsInv, Counted
  <2> QED
    BY <2>1 DEF Counted, Locked
<1> QED
  BY <1>1 DEF CountsInv


\* A new session enters: it is ACTIVE, not yet counted.
LEMMA SelectCounts ==
    ASSUME HInv, HInv', SlotsInv, CountsInv, NEW w \in Workers, start_select(w)
    PROVE  CountsInv'
<1>1. /\ loc[w] \in LocType /\ next_token \in Nat /\ slot[w] \in SlotType
      /\ active_targets \in Nat
  BY DEF HInv, TypeInv, ControlType, LifeType, WorkerType, HostType
<1>2. PICK t \in Targets :
        /\ pc[w] = "start_lock" /\ host_lock = NoWorker /\ host_lock' = w
        /\ ~HzClash(loc[w].hz)
        /\ token' = [token EXCEPT ![t] = next_token + 1]
        /\ sample_hz' = [sample_hz EXCEPT ![t] = loc[w].hz]
        /\ target_transition(t, "FREE", "ACTIVE")
        /\ GotoWith(w, "start_hz", Opened(loc[w], t, next_token + 1))
        /\ UNCHANGED active_targets /\ UNCHANGED active_sample_hz /\ UNCHANGED slot
  BY DEF start_select, At, Opened, worker_vars
<1>3. PICK l \in LocType : l = Opened(loc[w], t, next_token + 1)
  BY <1>1, LocTarget, next_token + 1 \in Nat
<1>4. l.target = t /\ l.arg = next_token + 1 /\ l.hz = loc[w].hz
  BY <1>1, <1>3 DEF Opened, LocType
<1>5. Others(w) /\ pc'[w] = "start_hz" /\ loc'[w] = l
  BY <1>2, <1>3, GotoWithFacts DEF HInv, TypeInv, Pcs
<1>6. /\ life[t].state = "FREE" /\ life'[t].state = "ACTIVE"
      /\ \A s \in Targets \ {t} : life'[s].state = life[s].state
  BY <1>2, TransitionType DEF HInv, TypeInv, States
<1>7. Active' = Active \cup {t} /\ t \notin Active /\ Active \subseteq Targets
  BY <1>6 DEF Active
<1>8. Cardinality(Active') = Cardinality(Active) + 1 /\ (Cardinality(Active) = 0 <=> Active = {})
  BY <1>7, ActiveFinite
<1>9. Settled
  BY <1>2 DEF CountsInv
<1>10. token'[t] = next_token + 1 /\ sample_hz'[t] = loc[w].hz
       /\ \A s \in Targets \ {t} : sample_hz'[s] = sample_hz[s]
  BY <1>2 DEF HInv, TypeInv, LifeType, TargetType
<1>11. \A s \in Active' : sample_hz'[s] = loc[w].hz
  BY <1>2, <1>7, <1>8, <1>9, <1>10 DEF Settled, DroppedSession, SameHz, HzClash
<1>12. slot[w].target = t => slot[w].token # next_token + 1
  <2>1. Sound(slot[w]) /\ slot[w].token \in Nat
    BY <1>1 DEF SlotsInv, Publisher, SlotType
  <2> QED
    BY <1>1, <2>1, TargetsAssumption DEF Sound
<1>13. AddingSession(w)'
  BY <1>2, <1>4, <1>5, <1>7, <1>8, <1>9, <1>10, <1>11, <1>12
     DEF AddingSession, SameHz, Settled, DroppedSession, HzClash
<1>14. Counted(w)'
  BY <1>2, <1>5, <1>13 DEF Counted, Locked, Adding, Dropping, Dropped, Freeing
<1>15. host_lock' # NoWorker
  BY <1>2, WorkersAssumption
<1> QED
  BY <1>2, <1>5, <1>14, <1>15, CountsAlone

\* Its frequency is set, then it is counted and the lock given back.
LEMMA StartCounts ==
    ASSUME HInv, HInv', CountsInv, NEW w \in Workers, start_hz(w) \/ start_count(w)
    PROVE  CountsInv'
<1>1. loc[w] \in LocType /\ slot[w] \in SlotType /\ active_targets \in Nat
  BY DEF HInv, TypeInv, ControlType, WorkerType, HostType
<1>2. StatesKept /\ UNCHANGED token /\ UNCHANGED sample_hz
  BY LifeKept DEF start_hz, start_count, life_vars, target_vars
<1>3. Active' = Active /\ Active \subseteq Targets
  BY <1>2, ActiveKept DEF Active
<1>4. pc[w] \in Adding
  BY DEF start_hz, start_count, At, Adding
<1>5. host_lock = w /\ AddingSession(w)
  BY <1>4 DEF CountsInv, Counted, Locked
<1>6. CASE start_hz(w)
  <2>1. /\ Others(w) /\ pc'[w] = "start_count" /\ loc'[w] = loc[w]
    BY <1>6, GotoFacts DEF start_hz, HInv, TypeInv, Pcs
  <2>2. /\ active_sample_hz' = loc[w].hz /\ UNCHANGED slot
        /\ UNCHANGED active_targets /\ UNCHANGED host_lock
    BY <1>6 DEF start_hz, worker_vars
  <2>3. AddingSession(w)'
    BY <1>2, <1>3, <1>5, <2>1, <2>2 DEF AddingSession, SameHz
  <2>4. Counted(w)' /\ host_lock' # NoWorker
    BY <1>5, <2>1, <2>2, <2>3, WorkersAssumption
       DEF Counted, Locked, Adding, Dropping, Dropped, Freeing
  <2> QED
    BY <1>5, <2>1, <2>2, <2>4, CountsAlone
<1>7. CASE start_count(w)
  <2>1. SetAside(loc[w], slot[w]) \in LocType
        /\ GotoWith(w, "discard_pin", SetAside(loc[w], slot[w]))
    BY <1>1, <1>7, LocPrev DEF start_count, SetAside
  <2>2. Others(w) /\ pc'[w] = "discard_pin"
    BY <2>1, GotoWithFacts DEF HInv, TypeInv, Pcs
  <2>3. /\ active_targets' = active_targets + 1 /\ host_lock' = NoWorker
        /\ UNCHANGED active_sample_hz /\ pc[w] = "start_count"
    BY <1>7 DEF start_count, At
  <2>4. Settled'
    BY <1>2, <1>3, <1>5, <2>3 DEF AddingSession, Settled, DroppedSession, SameHz
  <2>5. Counted(w)'
    BY <2>2, <2>3, WorkersAssumption DEF Counted, Locked, Adding, Dropping, Dropped, Freeing
  <2> QED
    BY <1>5, <2>2, <2>3, <2>4, <2>5, CountsAlone
<1> QED
  BY <1>6, <1>7

\* A session leaves: it is no longer ACTIVE, but counted.
LEMMA LeaveCounts ==
    ASSUME HInv, HInv', CountsInv, NEW w \in Workers, rollback_lock(w) \/ quiesce_lock(w)
    PROVE  CountsInv'
<1>1. loc[w] \in LocType /\ active_targets \in Nat
  BY DEF HInv, TypeInv, ControlType, HostType
<1>2. PICK t \in Targets, to \in {"STOPPING", "RECLAIMING"}, p \in Dropping, l \in LocType :
        /\ target_transition(t, "ACTIVE", to)
        /\ GotoWith(w, p, l) \/ (Goto(w, p) /\ l = loc[w])
  <2>1. CASE rollback_lock(w)
    <3>1. loc[w].target \in Targets
      BY <2>1 DEF rollback_lock, At, HInv, Local, OwnsTarget, Rollback
    <3>2. target_transition(loc[w].target, "ACTIVE", "RECLAIMING") /\ Goto(w, "rollback_count")
      BY <2>1 DEF rollback_lock
    <3> QED
      BY <1>1, <3>1, <3>2 DEF Dropping
  <2>2. CASE quiesce_lock(w)
    <3>1. PICK t \in Targets : /\ target_transition(t, "ACTIVE", "STOPPING")
                               /\ GotoWith(w, "quiesce_count", Named(loc[w], t))
      BY <2>2 DEF quiesce_lock, Named
    <3>2. PICK l \in LocType : l = Named(loc[w], t)
      BY <1>1, LocTarget, 0 \in Nat
    <3> QED
      BY <3>1, <3>2 DEF Dropping
  <2> QED
    BY <2>1, <2>2
<1>3. Others(w) /\ pc'[w] = p
  BY <1>2, GotoFacts, GotoWithFacts DEF HInv, TypeInv, Pcs, Dropping
<1>4. /\ host_lock = NoWorker /\ host_lock' = w
      /\ UNCHANGED sample_hz /\ UNCHANGED active_targets /\ UNCHANGED active_sample_hz
  BY DEF rollback_lock, quiesce_lock, target_vars
<1>5. /\ life[t].state = "ACTIVE" /\ life'[t].state = to
      /\ \A s \in Targets \ {t} : life'[s].state = life[s].state
  BY <1>2, TransitionType DEF HInv, TypeInv, States
<1>6. Active' = Active \ {t} /\ t \in Active /\ Active \subseteq Targets
  BY <1>5 DEF Active
<1>7. Cardinality(Active) = Cardinality(Active') + 1
  BY <1>6, ActiveFinite
<1>8. DroppingSession'
  BY <1>4, <1>6, <1>7 DEF CountsInv, Settled, DroppedSession, DroppingSession, SameHz
<1>9. Counted(w)' /\ host_lock' # NoWorker
  BY <1>3, <1>4, <1>8, WorkersAssumption
     DEF Counted, Locked, Adding, Dropping, Dropped, Freeing
<1> QED
  BY <1>3, <1>4, <1>9, CountsAlone

\* It is no longer counted, and the last one resets the frequency.
LEMMA DropCounts ==
    ASSUME HInv, HInv', CountsInv, NEW w \in Workers,
           \/ drop_count(w, "rollback_count", "rollback_hz")
           \/ drop_count(w, "quiesce_count", "quiesce_hz")
    PROVE  CountsInv'
<1>1. PICK from \in Dropping, p \in Dropped : drop_count(w, from, p)
  BY DEF Dropping, Dropped
<1>2. StatesKept /\ UNCHANGED sample_hz /\ UNCHANGED active_sample_hz /\ UNCHANGED host_lock
      /\ active_targets' = IF active_targets > 0 THEN active_targets - 1 ELSE 0
  BY <1>1, LifeKept DEF drop_count, target_vars
<1>3. Active' = Active /\ Cardinality(Active) \in Nat
  BY <1>2, ActiveKept, ActiveFinite DEF Active
<1>4. Others(w) /\ pc'[w] = p
  BY <1>1, GotoFacts DEF drop_count, HInv, TypeInv, Pcs, Dropped
<1>5. pc[w] \in Dropping /\ host_lock = w /\ DroppingSession
  BY <1>1 DEF drop_count, At, CountsInv, Counted, Locked
<1>6. DroppedSession'
  BY <1>2, <1>3, <1>5 DEF DroppingSession, DroppedSession, SameHz
<1>7. Counted(w)' /\ host_lock' # NoWorker
  BY <1>2, <1>4, <1>5, <1>6, WorkersAssumption
     DEF Counted, Locked, Adding, Dropping, Dropped, Freeing
<1> QED
  BY <1>2, <1>4, <1>5, <1>7, CountsAlone

LEMMA ResetCounts ==
    ASSUME HInv, HInv', CountsInv, NEW w \in Workers, rollback_hz(w) \/ quiesce_hz(w)
    PROVE  CountsInv'
<1>1. loc[w] \in LocType
  BY DEF HInv, TypeInv, ControlType
<1>2. /\ StatesKept /\ UNCHANGED sample_hz /\ UNCHANGED active_targets /\ DropHz
  BY LifeKept DEF rollback_hz, quiesce_hz, target_vars
<1>3. Active' = Active /\ (Cardinality(Active) = 0 <=> Active = {})
  BY <1>2, ActiveKept, ActiveFinite DEF Active
<1>4. pc[w] \in Dropped /\ host_lock = w /\ DroppedSession
  BY DEF rollback_hz, quiesce_hz, At, CountsInv, Counted, Locked, Dropped
<1>5. Settled'
  BY <1>2, <1>3, <1>4 DEF DroppedSession, Settled, SameHz, DropHz
<1>6. CASE rollback_hz(w)
  <2>1. Others(w) /\ pc'[w] = "rollback_wait" /\ UNCHANGED host_lock
    BY <1>6, GotoFacts DEF rollback_hz, HInv, TypeInv, Pcs
  <2>2. Counted(w)' /\ host_lock' # NoWorker
    BY <1>4, <1>5, <2>1, WorkersAssumption
       DEF Counted, Locked, Adding, Dropping, Dropped, Freeing
  <2> QED
    BY <1>4, <2>1, <2>2, CountsAlone
<1>7. CASE quiesce_hz(w)
  <2>1. PICK l \in LocType : GotoWith(w, "discard_pin", l) /\ host_lock' = NoWorker
    <3>1. [NoSlot EXCEPT !.target = loc[w].target, !.token = loc[w].arg] \in SlotType
      BY <1>1, LocFields, SlotFacts
    <3> QED
      BY <1>1, <1>7, <3>1, LocPrev DEF quiesce_hz, SetAside
  <2>2. Others(w) /\ pc'[w] = "discard_pin"
    BY <2>1, GotoWithFacts DEF HInv, TypeInv, Pcs
  <2>3. Counted(w)'
    BY <2>1, <2>2, WorkersAssumption DEF Counted, Locked, Adding, Dropping, Dropped, Freeing
  <2> QED
    BY <1>4, <1>5, <2>1, <2>2, <2>3, CountsAlone
<1> QED
  BY <1>6, <1>7

\* A release takes the lock and keeps it until the target is free.
LEMMA ReleaseCounts ==
    ASSUME HInv, HInv', CountsInv, NEW w \in Workers, release_lock(w)
    PROVE  CountsInv'
<1>1. loc[w] \in LocType
  BY DEF HInv, TypeInv, ControlType
<1>2. PICK t \in Targets :
        /\ target_transition(t, "STOPPING", "RECLAIMING")
        /\ GotoWith(w, "release_wait", Named(loc[w], t))
        /\ host_lock = NoWorker /\ host_lock' = w
        /\ UNCHANGED sample_hz /\ UNCHANGED active_targets /\ UNCHANGED active_sample_hz
  BY DEF release_lock, Named, target_vars
<1>3. Named(loc[w], t) \in LocType
  BY <1>1, LocTarget, 0 \in Nat
<1>4. Others(w) /\ pc'[w] = "release_wait"
  BY <1>2, <1>3, GotoWithFacts DEF HInv, TypeInv, Pcs
<1>5. /\ life[t].state = "STOPPING" /\ life'[t].state = "RECLAIMING"
      /\ \A s \in Targets \ {t} : life'[s].state = life[s].state
  BY <1>2, TransitionType DEF HInv, TypeInv, States
<1>6. Active' = Active
  BY <1>5 DEF Active
<1>7. Settled'
  BY <1>2, <1>6 DEF CountsInv, Settled, DroppedSession, SameHz
<1>8. Counted(w)' /\ host_lock' # NoWorker
  BY <1>2, <1>4, <1>7, WorkersAssumption
     DEF Counted, Locked, Adding, Dropping, Dropped, Freeing
<1> QED
  BY <1>2, <1>4, <1>8, CountsAlone

LEMMA FreeCounts ==
    ASSUME HInv, HInv', CountsInv, NEW w \in Workers, rollback_wait(w) \/ release_wait(w)
    PROVE  CountsInv'
<1>1. PICK t : FreeTarget(t)
  BY DEF rollback_wait, release_wait
<1>2. /\ pc[w] \in Freeing /\ ReturnTo(w, "none") /\ host_lock' = NoWorker
      /\ UNCHANGED active_targets /\ UNCHANGED active_sample_hz
  BY DEF rollback_wait, release_wait, At, Freeing
<1>3. Others(w) /\ pc'[w] = "idle"
  BY <1>2, ReturnToFacts DEF HInv, TypeInv, Ops, Entry
<1>4. \A s \in Targets :
        \/ life'[s].state = life[s].state /\ sample_hz'[s] = sample_hz[s]
        \/ life[s].state # "ACTIVE" /\ life'[s].state # "ACTIVE"
  BY <1>1 DEF FreeTarget, target_transition, HInv, TypeInv, LifeType, TargetType
<1>5. Active' = Active /\ \A s \in Active : sample_hz'[s] = sample_hz[s]
  BY <1>4 DEF Active
<1>6. host_lock = w /\ Settled
  BY <1>2 DEF CountsInv, Counted, Locked
<1>7. Settled'
  BY <1>2, <1>5, <1>6 DEF Settled, DroppedSession, SameHz
<1>8. Counted(w)'
  BY <1>2, <1>3, WorkersAssumption DEF Counted, Locked, Adding, Dropping, Dropped, Freeing
<1> QED
  BY <1>2, <1>3, <1>6, <1>7, <1>8, CountsAlone

LEMMA MovesCounts ==
    ASSUME HInv, CountsInv, NEW w \in Workers, Calm,
           Moves(w) \/ (Calls(w) /\ pc[w] \notin Locked)
    PROVE  CountsInv'
<1>1. Others(w) /\ pc[w] \notin Locked /\ pc'[w] \notin Locked
  BY DEF Moves, Calls, Apart, Entries, Locked, Adding, Dropping, Dropped, Freeing
<1> QED
  BY <1>1, CountsKept DEF Calm

\* The steps that write the worker's slot outside the lock.
LEMMA PublishCounts ==
    ASSUME HInv, CountsInv, NEW w \in Workers,
           \/ publish_even(w) \/ bind_dispatch(w) \/ leave_end(w) \/ start_publish(w)
           \/ dispatch_leave(w) \/ \E h \in Handles : dispatch_enter(w, h)
    PROVE  CountsInv'
<1>1. /\ StatesKept /\ UNCHANGED token /\ UNCHANGED sample_hz
      /\ UNCHANGED host_lock /\ UNCHANGED active_targets /\ UNCHANGED active_sample_hz
  <2>1. CASE bind_dispatch(w)
    BY <2>1, UnpinKeepsStates DEF bind_dispatch, UnpinAndReturn, target_vars, host_vars
  <2>2. CASE \/ publish_even(w) \/ leave_end(w) \/ start_publish(w)
             \/ dispatch_leave(w) \/ \E h \in Handles : dispatch_enter(w, h)
    BY <2>2, LifeKept DEF publish_even, leave_end, start_publish, dispatch_leave,
                          dispatch_enter, life_vars, target_vars, host_vars
  <2> QED
    BY <2>1, <2>2
<1>2. \A v \in Workers \ {w} : slot'[v] = slot[v]
  BY DEF publish_even, bind_dispatch, leave_end, start_publish, dispatch_leave,
         dispatch_enter, Withdraw, PublishMasked, HInv, TypeInv, WorkerType
<1>3. /\ Others(w) /\ pc'[w] \notin Locked
      /\ pc[w] \in {"publish_even", "find_use", "leave_end", "start_publish", "idle"}
  <2>1. CASE publish_even(w)
    BY <2>1, GotoFacts DEF publish_even, At, HInv, TypeInv, Pcs, Locked, Adding, Dropping,
                           Dropped, Freeing
  <2>2. CASE bind_dispatch(w) \/ leave_end(w) \/ start_publish(w)
    <3>1. Calls(w)
      BY <2>2, ReturnCalls, ReturnToCalls DEF bind_dispatch, UnpinAndReturn, leave_end,
                                              start_publish, Ops
    <3> QED
      BY <2>2, <3>1 DEF Calls, Entries, bind_dispatch, Use, leave_end, start_publish, At,
                        Locked, Adding, Dropping, Dropped, Freeing
  <2>3. CASE dispatch_leave(w) \/ \E h \in Handles : dispatch_enter(w, h)
    <3>1. PICK o \in {"enter", "leave"} :
                 \E l : Call(w, o, l) /\ UNCHANGED irq /\ Idle(w)
      BY <2>3 DEF dispatch_enter, dispatch_leave, Withdraw
    <3>2. Others(w) /\ pc'[w] = "discard_pin"
      BY <3>1 DEF Call, Entry, HInv, TypeInv, ControlType, Others
    <3> QED
      BY <3>1, <3>2 DEF Idle, At, Locked, Adding, Dropping, Dropped, Freeing
  <2> QED
    BY <2>1, <2>2, <2>3
<1>4. pc[w] \notin Locked
  BY <1>3 DEF Locked, Adding, Dropping, Dropped, Freeing
<1> QED
  BY <1>1, <1>2, <1>3, <1>4, CountsKept

LEMMA HandlerCounts ==
    ASSUME HInv, CountsInv, NEW w \in Workers, tick(w) \/ handler_enter(w) \/ Handler(w)
    PROVE  CountsInv'
<1>1. StatesKept
  BY LifeKept, PinKeepsStates, UnpinKeepsStates
     DEF tick, handler_enter, Handler, handler_pin, handler_unpinned, handler_push,
         handler_reject, handler_stale_token, HandlerReturn
<1>2. /\ UNCHANGED pc /\ UNCHANGED loc /\ UNCHANGED token /\ UNCHANGED sample_hz
      /\ UNCHANGED slot /\ UNCHANGED host_lock /\ UNCHANGED active_targets
      /\ UNCHANGED active_sample_hz
  BY DEF tick, handler_enter, Handler, handler_pin, handler_unpinned, handler_push,
         handler_reject, handler_stale_token, HandlerReturn, life_vars, target_vars,
         worker_vars, host_vars, control_vars
<1> QED
  BY <1>1, <1>2, CountsStill

-----------------------------------------------------------------------------
(* CountsInv is an invariant.                                              *)

LEMMA InitCounts == Init => CountsInv
<1> SUFFICES ASSUME Init PROVE CountsInv
  OBVIOUS
<1>1. Active = {}
  BY DEF Init, Active
<1>2. Settled
  BY <1>1, FS_EmptySet DEF Init, Settled, DroppedSession, SameHz
<1>3. \A w \in Workers : pc[w] = "idle" /\ host_lock # w
  BY WorkersAssumption DEF Init
<1>4. \A w \in Workers : Counted(w)
  BY <1>3 DEF Counted, Locked, Adding, Dropping, Dropped, Freeing
<1> QED
  BY <1>2, <1>4 DEF CountsInv

LEMMA StepCounts ==
    ASSUME HInv, HInv', SlotsInv, CountsInv, NEW w \in Workers, Step(w)
    PROVE  CountsInv'
<1>1. CASE \/ discard_pin(w) \/ fail_pin(w) \/ find_pin(w)
           \/ discard_use(w) \/ fail_use(w) \/ find_lost(w) \/ next_event(w)
  BY <1>1, PinMoves, UnpinMoves, MovesCounts
<1>2. CASE \/ find(w) \/ find_missed(w) \/ fail_skip(w) \/ fail_end(w)
           \/ sync_count(w) \/ sync_hz(w) \/ sync_fails(w)
  BY <1>2, ScanMoves, SyncMoves, MovesCounts
<1>3. CASE discard_unowned(w) \/ quiesce_end(w) \/ publish_odd(w)
  BY <1>3, OtherMoves, MovesCounts
<1>4. CASE publish_even(w) \/ bind_dispatch(w) \/ leave_end(w) \/ start_publish(w)
  BY <1>4, PublishCounts
<1>5. CASE start_hz(w) \/ start_count(w)
  BY <1>5, StartCounts
<1>6. CASE \/ drop_count(w, "rollback_count", "rollback_hz")
           \/ drop_count(w, "quiesce_count", "quiesce_hz")
  BY <1>6, DropCounts
<1>7. CASE rollback_hz(w) \/ quiesce_hz(w) \/ rollback_wait(w) \/ release_wait(w)
  BY <1>7, ResetCounts, FreeCounts
<1>8. CASE \/ find_none(w) \/ publish_unpin(w) \/ next_empty(w) \/ take_quality(w)
           \/ event_drain(w, "begin", TRUE) \/ event_drain(w, "end", FALSE)
  BY <1>8, QuietReturns, MovesCounts
<1> QED
  BY <1>1, <1>2, <1>3, <1>4, <1>5, <1>6, <1>7, <1>8 DEF Step

LEMMA NextCounts == HInv /\ HInv' /\ SlotsInv /\ CountsInv /\ [Next]_vars => CountsInv'
<1> SUFFICES ASSUME HInv, HInv', SlotsInv, CountsInv, [Next]_vars
             PROVE  CountsInv'
  OBVIOUS
<1>1. CASE UNCHANGED vars
  <2>1. StatesKept
    BY <1>1, LifeKept DEF vars
  <2> QED
    BY <1>1, <2>1, CountsStill DEF vars, life_vars, target_vars, host_vars, worker_vars,
                                   control_vars
<1>2. CASE Next
  <2>1. PICK w \in Workers :
          Client(w) \/ Thread(w) \/ tick(w) \/ handler_enter(w) \/ Handler(w)
    BY <1>2 DEF Next
  <2>2. CASE Client(w)
    BY <2>2, PublishCounts, ClientCalls, MovesCounts DEF Client
  <2>3. CASE Step(w)
    BY <2>3, StepCounts
  <2>4. CASE Lock(w) \/ quiesce_wait(w)
    BY <2>4, SelectCounts, LeaveCounts, ReleaseCounts, QuietReturns, MovesCounts DEF Lock
  <2>5. CASE tick(w) \/ handler_enter(w) \/ Handler(w)
    BY <2>5, HandlerCounts
  <2> QED
    BY <2>1, <2>2, <2>3, <2>4, <2>5 DEF Thread
<1> QED
  BY <1>1, <1>2

LEMMA CountsInvariance == Spec => []CountsInv
  BY InitCounts, NextCounts, Invariance, SlotsInvariance, PTL DEF Spec

\* Whenever host_lock is free, active_targets is the number of ACTIVE targets and
\* active_sample_hz is the frequency of each: neither a start that failed, nor two
\* sessions stopped at once, leaves a count or a frequency behind.
THEOREM CountsAgree == Spec => []CountsExact
<1>1. CountsInv => CountsExact
  BY DEF CountsInv, CountsExact, Settled, DroppedSession, SameHz
<1> QED
  BY <1>1, CountsInvariance, PTL

-----------------------------------------------------------------------------
(* What a step does to the timers.                                         *)

\* A step of w that arms no timer, opens no session and changes no service.
LEMMA TimersSteady ==
    ASSUME TimersInv, NEW w \in Workers, Others(w), UNCHANGED armed_hz,
           UNCHANGED current_handle, UNCHANGED host_failed,
           \A t \in Active' : /\ t \in Active
                              /\ handle'[t] = handle[t] /\ sample_hz'[t] = sample_hz[t],
           pc'[w] # "sync_hz",
           \A t \in Active' : Arming(w, t) => Arming(w, t)'
    PROVE  TimersInv'
<1>1. ASSUME NEW v \in Workers, NEW t \in Active', Runs(v, t)'
      PROVE  /\ t \in Active /\ Runs(v, t) /\ sample_hz'[t] = sample_hz[t]
             /\ armed_hz'[v] = armed_hz[v]
  BY <1>1 DEF Runs, Dispatching, Running
<1>2. ASSUME NEW v \in Workers \ {w} PROVE Timed(v)'
  <2>1. pc'[v] = pc[v] /\ op'[v] = op[v] /\ loc'[v] = loc[v] /\ Timed(v)
    BY DEF Others, TimersInv
  <2> QED
    BY <1>1, <2>1 DEF Timed, Arming
<1>3. Timed(w)'
  <2>1. Timed(w)
    BY DEF TimersInv
  <2> QED
    BY <1>1, <2>1 DEF Timed
<1> QED
  BY <1>2, <1>3 DEF TimersInv

\* A step that is w's alone: for the others nothing changes.
LEMMA TimersAlone ==
    ASSUME TimersInv, NEW w \in Workers, Others(w),
           \A v \in Workers \ {w} :
              armed_hz'[v] = armed_hz[v] /\ current_handle'[v] = current_handle[v],
           host_failed => host_failed',
           StatesKept, UNCHANGED handle, UNCHANGED sample_hz, Timed(w)'
    PROVE  TimersInv'
<1>1. Active' = Active
  BY ActiveKept
<1>2. ASSUME NEW v \in Workers \ {w} PROVE Timed(v)'
  <2>1. /\ pc'[v] = pc[v] /\ op'[v] = op[v] /\ loc'[v] = loc[v] /\ Timed(v)
        /\ armed_hz'[v] = armed_hz[v] /\ current_handle'[v] = current_handle[v]
    BY DEF Others, TimersInv
  <2> QED
    BY <1>1, <2>1 DEF Timed, Arming, Runs, Dispatching, Running
<1> QED
  BY <1>2 DEF TimersInv

LEMMA MovesTimers ==
    ASSUME TimersInv, NEW w \in Workers, Calm, TimersKept,
           \/ Moves(w) /\ pc'[w] # "sync_hz" /\ (pc[w] \in Syncing => pc'[w] \in Syncing)
           \/ Calls(w) /\ pc[w] \notin Locked \cup Syncing
    PROVE  TimersInv'
<1>1. Active' = Active
  BY ActiveKept DEF Calm
<1>2. Others(w) /\ pc'[w] # "sync_hz"
  BY DEF Moves, Calls, Entries
<1>3. \A t \in Active' : Arming(w, t) => Arming(w, t)'
  BY DEF Moves, Calls, Same, Apart, Arming, Locked
<1> QED
  BY <1>1, <1>2, <1>3, TimersSteady DEF Calm, TimersKept

\* What sync_worker_timer loads, at whatever moment it does: a session whose service
\* runs here is counted, and the frequency is that session's.  Only the session that
\* another worker is starting is not; its service runs there.
LEMMA CountedSession ==
    ASSUME HInv, SlotsInv, CountsInv, NEW w \in Workers, NEW t \in Active,
           Runs(w, t), pc[w] \notin Adding
    PROVE  active_targets # 0 /\ active_sample_hz = sample_hz[t]
<1>1. active_targets \in Nat /\ Active \subseteq Targets
  BY DEF HInv, TypeInv, HostType, Active
<1>2. Cardinality(Active) \in Nat /\ Cardinality(Active) # 0
  BY <1>1, ActiveFinite
<1>3. CASE host_lock = NoWorker
  BY <1>2, <1>3 DEF CountsInv, Settled, DroppedSession, SameHz
<1>4. CASE host_lock # NoWorker
  <2>1. PICK v \in Workers : host_lock = v /\ pc[v] \in Locked
    BY <1>4 DEF HInv, TypeInv, HostType, CountsInv, Counted
  <2>2. CASE pc[v] \in Adding
    <3>1. AddingSession(v) /\ Publisher(v)
      BY <2>2 DEF CountsInv, Counted, SlotsInv
    <3>2. op[v] = "start" /\ AboutTo(v) /\ pc[v] # "publish_even"
      BY <2>2, <3>1 DEF Publisher, Matches, AboutTo, Adding
    <3>3. Dispatching(v) /\ Sound(Intended(v))
      BY <3>1, <3>2 DEF Publisher
    <3>4. PICK s \in Active : s = loc[v].target /\ token[s] = loc[v].arg
      BY <3>1 DEF AddingSession
    <3>5. handle[s] = Running(v)
      BY <1>1, <3>2, <3>3, <3>4, TargetsAssumption DEF Sound, Intended
    <3>6. v # w
      BY <2>2
    <3>7. s # t
      BY <3>3, <3>5, <3>6 DEF SlotsInv, RunsOnce, Runs
    <3>8. /\ Cardinality(Active) = Cardinality(Active \ {t}) + 1
          /\ Cardinality(Active \ {t}) \in Nat /\ Cardinality(Active \ {t}) # 0
      <4>1. Active \ {t} \subseteq Targets /\ Active \ {t} # {}
        BY <1>1, <3>7
      <4> QED
        BY <1>1, <4>1, ActiveFinite
    <3>9. active_targets # 0
      BY <1>1, <3>1, <3>8 DEF AddingSession
    <3> QED
      BY <3>1, <3>9 DEF AddingSession, SameHz
  <2>3. CASE pc[v] \notin Adding
    <3>1. /\ SameHz(active_sample_hz)
          /\ active_targets \in {Cardinality(Active), Cardinality(Active) + 1}
      BY <2>1, <2>3 DEF CountsInv, Counted, Locked, DroppingSession, DroppedSession, Settled
    <3> QED
      BY <1>2, <3>1 DEF SameHz
  <2> QED
    BY <2>2, <2>3
<1> QED
  BY <1>3, <1>4

LEMMA SyncTimers ==
    ASSUME HInv, SlotsInv, CountsInv, TimersInv, NEW w \in Workers,
           sync_count(w) \/ sync_hz(w) \/ sync_fails(w)
    PROVE  TimersInv'
<1>1. /\ Moves(w) /\ Calm
      /\ sync_count(w) => pc'[w] = "sync_hz" /\ loc'[w].count = active_targets
      /\ ~sync_count(w) => pc'[w] \notin Syncing
  BY SyncMoves
<1>2. Active' = Active
  BY <1>1, ActiveKept DEF Calm
<1>3. /\ StatesKept /\ UNCHANGED handle /\ UNCHANGED sample_hz /\ UNCHANGED current_handle
      /\ Others(w) /\ op'[w] = op[w] /\ loc'[w].target = loc[w].target
  BY <1>1 DEF Calm, Moves, Same
<1>4. pc[w] \notin Adding /\ pc[w] \in Syncing
  BY DEF sync_count, sync_hz, sync_fails, At, Adding, Syncing
<1>5. Timed(w)
  BY DEF TimersInv
<1>6. (host_failed => host_failed')
      /\ \A v \in Workers \ {w} : armed_hz'[v] = armed_hz[v]
  BY DEF sync_count, sync_hz, sync_fails, host_vars, worker_vars, HInv, TypeInv, WorkerType
<1>7. Timed(w)'
  <2> SUFFICES ASSUME NEW t \in Active, Runs(w, t)
               PROVE  /\ (pc[w] = "sync_hz" => loc[w].count # 0)'
                      /\ (~Arming(w, t) /\ ~host_failed => armed_hz[w] = sample_hz[t])'
    BY <1>2, <1>3 DEF Timed, Runs, Dispatching, Running
  <2>1. active_targets # 0 /\ active_sample_hz = sample_hz[t]
    BY <1>4, CountedSession
  <2>2. CASE sync_count(w)
    <3>1. Arming(w, t)' <=> Arming(w, t)
      BY <1>1, <1>3, <1>4, <2>2 DEF Arming, Syncing
    <3>2. UNCHANGED armed_hz /\ UNCHANGED host_failed
      BY <2>2 DEF sync_count, host_vars, worker_vars
    <3> QED
      BY <1>1, <1>3, <1>5, <2>1, <2>2, <3>1, <3>2 DEF Timed
  <2>3. CASE sync_hz(w)
    <3>1. pc[w] = "sync_hz" /\ armed_hz'[w] = WantedHz(w)
      BY <2>3 DEF sync_hz, At, HInv, TypeInv, WorkerType
    <3>2. loc[w].count # 0
      BY <1>5, <3>1 DEF Timed
    <3>3. armed_hz'[w] = sample_hz[t]
      BY <2>1, <3>1, <3>2 DEF WantedHz
    <3>4. pc'[w] # "sync_hz"
      BY <1>1, <3>1 DEF sync_count, At, Syncing
    <3> QED
      BY <1>3, <3>3, <3>4
  <2>4. CASE sync_fails(w)
    <3>1. host_failed' = TRUE /\ pc[w] = "sync_hz"
      BY <2>4 DEF sync_fails, At
    <3>2. pc'[w] # "sync_hz"
      BY <1>1, <3>1 DEF sync_count, At, Syncing
    <3> QED
      BY <3>1, <3>2
  <2> QED
    BY <2>2, <2>3, <2>4
<1> QED
  BY <1>3, <1>6, <1>7, TimersAlone

\* A session is opened: its own worker is about to arm its timer, and no other runs
\* its service.
LEMMA SelectTimers ==
    ASSUME HInv, SlotsInv, TimersInv, NEW w \in Workers, start_select(w)
    PROVE  TimersInv'
<1>1. loc[w] \in LocType /\ next_token \in Nat
  BY DEF HInv, TypeInv, ControlType, LifeType
<1>2. PICK t \in Targets :
        /\ pc[w] = "start_lock"
        /\ handle' = [handle EXCEPT ![t] = Running(w)]
        /\ sample_hz' = [sample_hz EXCEPT ![t] = loc[w].hz]
        /\ target_transition(t, "FREE", "ACTIVE")
        /\ GotoWith(w, "start_hz", Opened(loc[w], t, next_token + 1))
        /\ UNCHANGED armed_hz /\ UNCHANGED current_handle /\ UNCHANGED host_failed
  BY DEF start_select, At, Opened, worker_vars
<1>3. PICK l \in LocType : l = Opened(loc[w], t, next_token + 1)
  BY <1>1, LocTarget, next_token + 1 \in Nat
<1>4. l.target = t
  BY <1>1, <1>3 DEF Opened, LocType
<1>5. Others(w) /\ pc'[w] = "start_hz" /\ op'[w] = op[w] /\ loc'[w] = l
  BY <1>2, <1>3, GotoWithFacts DEF HInv, TypeInv, Pcs
<1>6. op[w] = "start" /\ Dispatching(w)
  BY <1>2 DEF SlotsInv, Publisher, Matches
<1>7. /\ life[t].state = "FREE" /\ life'[t].state = "ACTIVE"
      /\ \A s \in Targets \ {t} : life'[s].state = life[s].state
  BY <1>2, TransitionType DEF HInv, TypeInv, States
<1>8. Active' = Active \cup {t} /\ t \notin Active /\ Active \subseteq Targets
  BY <1>7 DEF Active
<1>9. handle'[t] = Running(w)
      /\ \A s \in Targets \ {t} : handle'[s] = handle[s] /\ sample_hz'[s] = sample_hz[s]
  BY <1>2 DEF HInv, TypeInv, TargetType
<1>10. ASSUME NEW v \in Workers \ {w} PROVE Timed(v)'
  <2>1. pc'[v] = pc[v] /\ op'[v] = op[v] /\ loc'[v] = loc[v] /\ Timed(v)
    BY <1>5 DEF Others, TimersInv
  <2>2. ~Runs(v, t)'
    BY <1>2, <1>6, <1>9 DEF Runs, Dispatching, Running, SlotsInv, RunsOnce
  <2>3. \A s \in Active : Runs(v, s)' => Runs(v, s)
    BY <1>2, <1>8, <1>9 DEF Runs, Dispatching, Running
  <2> QED
    BY <1>2, <1>8, <1>9, <2>1, <2>2, <2>3 DEF Timed, Arming
<1>11. Timed(w)'
  <2>1. Timed(w) /\ \A s \in Targets : ~Arming(w, s)
    BY <1>2 DEF TimersInv, Arming, Syncing, Adding
  <2>2. Arming(w, t)'
    BY <1>4, <1>5, <1>6 DEF Arming, Adding
  <2>3. \A s \in Active : Runs(w, s)' => Runs(w, s)
    BY <1>2, <1>8, <1>9 DEF Runs, Dispatching, Running
  <2> QED
    BY <1>2, <1>5, <1>8, <1>9, <2>1, <2>2, <2>3 DEF Timed
<1> QED
  BY <1>10, <1>11 DEF TimersInv

\* The other steps of a thread under the lock, or that takes it.
LEMMA LockTimers ==
    ASSUME HInv, TimersInv, NEW w \in Workers,
           \/ start_hz(w) \/ start_count(w) \/ rollback_lock(w) \/ rollback_hz(w)
           \/ drop_count(w, "rollback_count", "rollback_hz")
           \/ drop_count(w, "quiesce_count", "quiesce_hz")
           \/ quiesce_lock(w) \/ quiesce_hz(w) \/ release_lock(w)
    PROVE  TimersInv'
<1>1. loc[w] \in LocType /\ slot[w] \in SlotType
  BY DEF HInv, TypeInv, ControlType, WorkerType
<1>2. PICK p \in Locked \cup {"discard_pin"}, l \in LocType :
        /\ GotoWith(w, p, l) \/ (Goto(w, p) /\ l = loc[w])
        /\ pc[w] \notin Syncing
        /\ pc[w] \in Adding => p \in Adding \cup {"discard_pin"} /\ l.target = loc[w].target
  <2>1. CASE \/ start_hz(w) \/ rollback_lock(w) \/ rollback_hz(w)
             \/ drop_count(w, "rollback_count", "rollback_hz")
             \/ drop_count(w, "quiesce_count", "quiesce_hz")
    BY <1>1, <2>1 DEF start_hz, rollback_lock, rollback_hz, drop_count, At, Locked, Adding,
                      Dropping, Dropped, Freeing, Syncing
  <2>2. CASE start_count(w)
    <3>1. PICK l \in LocType : l = SetAside(loc[w], slot[w]) /\ l.target = loc[w].target
      BY <1>1, LocPrev
    <3>2. GotoWith(w, "discard_pin", l) /\ pc[w] = "start_count"
      BY <2>2, <3>1 DEF start_count, SetAside, At
    <3> QED
      BY <3>1, <3>2 DEF Syncing
  <2>3. CASE quiesce_hz(w)
    <3>1. [NoSlot EXCEPT !.target = loc[w].target, !.token = loc[w].arg] \in SlotType
      BY <1>1, LocFields, SlotFacts
    <3>2. PICK l \in LocType : GotoWith(w, "discard_pin", l) /\ pc[w] = "quiesce_hz"
      BY <1>1, <2>3, <3>1, LocPrev DEF quiesce_hz, SetAside, At
    <3> QED
      BY <3>2 DEF Syncing, Adding
  <2>4. CASE quiesce_lock(w) \/ release_lock(w)
    <3>1. PICK t \in Targets, p \in {"quiesce_count", "release_wait"} :
             /\ GotoWith(w, p, Named(loc[w], t)) /\ pc[w] \in {"quiesce_lock", "release_lock"}
      BY <2>4 DEF quiesce_lock, release_lock, At, Named
    <3>2. PICK l \in LocType : l = Named(loc[w], t)
      BY <1>1, LocTarget, 0 \in Nat
    <3>3. GotoWith(w, p, l) /\ p \in Locked /\ pc[w] \notin Syncing \cup Adding
      BY <3>1, <3>2 DEF Locked, Adding, Dropping, Dropped, Freeing, Syncing
    <3> QED
      BY <3>3, Zenon
  <2> QED
    BY <2>1, <2>2, <2>3, <2>4
<1>3. Others(w) /\ pc'[w] = p /\ op'[w] = op[w] /\ loc'[w] = l
  <2>1. p \in Pcs
    BY DEF Pcs, Locked, Adding, Dropping, Dropped, Freeing
  <2> QED
    BY <1>2, <2>1, GotoFacts, GotoWithFacts DEF HInv, TypeInv
<1>4. /\ UNCHANGED armed_hz /\ UNCHANGED current_handle /\ UNCHANGED host_failed
      /\ UNCHANGED handle /\ UNCHANGED sample_hz
  BY DEF start_hz, start_count, rollback_lock, rollback_hz, drop_count, quiesce_lock,
         quiesce_hz, release_lock, target_vars, worker_vars
<1>5. Active' \subseteq Active
  <2>1. CASE quiesce_lock(w) \/ release_lock(w) \/ rollback_lock(w)
    BY <2>1 DEF quiesce_lock, release_lock, rollback_lock, target_transition, Active, HInv,
                TypeInv, LifeType
  <2>2. CASE \/ start_hz(w) \/ start_count(w) \/ rollback_hz(w) \/ quiesce_hz(w)
             \/ drop_count(w, "rollback_count", "rollback_hz")
             \/ drop_count(w, "quiesce_count", "quiesce_hz")
    BY <2>2 DEF start_hz, start_count, rollback_hz, quiesce_hz, drop_count, life_vars, Active
  <2> QED
    BY <2>1, <2>2
<1>6. \A t \in Active' : Arming(w, t) => Arming(w, t)'
  BY <1>2, <1>3 DEF Arming, Syncing
<1>7. pc'[w] # "sync_hz"
  BY <1>3 DEF Locked, Adding, Dropping, Dropped, Freeing
<1> QED
  BY <1>3, <1>4, <1>5, <1>6, <1>7, TimersSteady

\* A thread that keeps its service and writes its slot, or begins to leave.
LEMMA PublishTimers ==
    ASSUME HInv, TimersInv, NEW w \in Workers,
           publish_even(w) \/ bind_dispatch(w) \/ start_publish(w) \/ dispatch_leave(w)
    PROVE  TimersInv'
<1>1. StatesKept
  BY LifeKept, UnpinKeepsStates DEF publish_even, bind_dispatch, UnpinAndReturn,
                                    start_publish, dispatch_leave
<1>2. /\ UNCHANGED handle /\ UNCHANGED sample_hz /\ UNCHANGED armed_hz
      /\ UNCHANGED current_handle /\ UNCHANGED host_failed
  BY DEF publish_even, bind_dispatch, UnpinAndReturn, start_publish, dispatch_leave,
         target_vars, host_vars
<1>3. /\ Others(w) /\ pc'[w] # "sync_hz"
      /\ pc[w] \in {"publish_even", "find_use", "start_publish", "idle"}
  <2>1. CASE publish_even(w)
    BY <2>1, GotoFacts DEF publish_even, At, HInv, TypeInv, Pcs
  <2>2. CASE bind_dispatch(w) \/ start_publish(w)
    <3>1. Calls(w)
      BY <2>2, ReturnCalls, ReturnToCalls DEF bind_dispatch, UnpinAndReturn, start_publish, Ops
    <3> QED
      BY <2>2, <3>1 DEF Calls, Entries, bind_dispatch, Use, start_publish, At
  <2>3. CASE dispatch_leave(w)
    <3>1. PICK l : Call(w, "leave", l) /\ UNCHANGED irq /\ Idle(w)
      BY <2>3 DEF dispatch_leave, Withdraw
    <3> QED
      BY <3>1 DEF Call, Entry, HInv, TypeInv, ControlType, Others, Idle, At
  <2> QED
    BY <2>1, <2>2, <2>3
<1>4. \A t \in Targets : ~Arming(w, t)
  BY <1>3 DEF Arming, Syncing, Adding
<1>5. Active' = Active /\ Active \subseteq Targets
  BY <1>1, ActiveKept DEF Active
<1> QED
  BY <1>2, <1>3, <1>4, <1>5, TimersSteady

\* A service is entered, or has been left: nothing is claimed of its worker.
LEMMA ServiceTimers ==
    ASSUME HInv, TimersInv, NEW w \in Workers,
           leave_end(w) \/ \E h \in Handles : dispatch_enter(w, h)
    PROVE  TimersInv'
<1>1. /\ StatesKept /\ UNCHANGED handle /\ UNCHANGED sample_hz /\ UNCHANGED armed_hz
      /\ UNCHANGED host_failed
  BY LifeKept DEF leave_end, dispatch_enter, target_vars, host_vars
<1>2. \A v \in Workers \ {w} : current_handle'[v] = current_handle[v]
  BY DEF leave_end, dispatch_enter, HInv, TypeInv, WorkerType
<1>3. Others(w) /\ Timed(w)'
  <2>1. CASE leave_end(w)
    <3>1. Calls(w)
      BY <2>1, ReturnCalls DEF leave_end
    <3>2. current_handle'[w] = NoHandle
      BY <2>1 DEF leave_end, HInv, TypeInv, WorkerType
    <3> QED
      BY <3>1, <3>2 DEF Calls, Timed, Runs, Dispatching, Running
  <2>2. CASE \E h \in Handles : dispatch_enter(w, h)
    <3>1. PICK l : Call(w, "enter", l) /\ UNCHANGED irq
      BY <2>2 DEF dispatch_enter, Withdraw
    <3>2. Others(w) /\ op'[w] = "enter" /\ pc'[w] = "discard_pin"
      BY <3>1 DEF Call, Entry, HInv, TypeInv, ControlType, Others
    <3> QED
      BY <3>2 DEF Timed, Arming, Syncing
  <2> QED
    BY <2>1, <2>2
<1> QED
  BY <1>1, <1>2, <1>3, TimersAlone

\* A session is erased: it was not ACTIVE any more.
LEMMA FreeTimers ==
    ASSUME HInv, TimersInv, NEW w \in Workers, rollback_wait(w) \/ release_wait(w)
    PROVE  TimersInv'
<1>1. PICK t : FreeTarget(t)
  BY DEF rollback_wait, release_wait
<1>2. Calls(w) /\ pc[w] \in Freeing
  BY ReturnToCalls DEF rollback_wait, release_wait, At, Freeing, Ops
<1>3. UNCHANGED armed_hz /\ UNCHANGED current_handle /\ UNCHANGED host_failed
  BY DEF rollback_wait, release_wait, worker_vars
<1>4. \A s \in Active' : /\ s \in Active
                         /\ handle'[s] = handle[s] /\ sample_hz'[s] = sample_hz[s]
  BY <1>1 DEF FreeTarget, target_transition, HInv, TypeInv, LifeType, TargetType, Active
<1>5. Others(w) /\ pc'[w] # "sync_hz" /\ \A s \in Targets : ~Arming(w, s)
  BY <1>2 DEF Calls, Entries, Arming, Syncing, Adding, Freeing
<1>6. Active' \subseteq Targets
  BY DEF Active
<1> QED
  BY <1>3, <1>4, <1>5, <1>6, TimersSteady

LEMMA TimersStill ==
    ASSUME TimersInv, UNCHANGED pc, UNCHANGED op, UNCHANGED loc, StatesKept,
           UNCHANGED handle, UNCHANGED sample_hz, UNCHANGED armed_hz,
           UNCHANGED current_handle, UNCHANGED host_failed
    PROVE  TimersInv'
<1>1. Active' = Active
  BY ActiveKept
<1> QED
  BY <1>1 DEF TimersInv, Timed, Arming, Runs, Dispatching, Running

LEMMA HandlerTimers ==
    ASSUME HInv, TimersInv, NEW w \in Workers, tick(w) \/ handler_enter(w) \/ Handler(w)
    PROVE  TimersInv'
<1>1. StatesKept
  BY LifeKept, PinKeepsStates, UnpinKeepsStates
     DEF tick, handler_enter, Handler, handler_pin, handler_unpinned, handler_push,
         handler_reject, handler_stale_token, HandlerReturn
<1>2. /\ UNCHANGED pc /\ UNCHANGED op /\ UNCHANGED loc
      /\ UNCHANGED handle /\ UNCHANGED sample_hz
      /\ UNCHANGED armed_hz /\ UNCHANGED current_handle /\ UNCHANGED host_failed
  BY DEF tick, handler_enter, Handler, handler_pin, handler_unpinned, handler_push,
         handler_reject, handler_stale_token, HandlerReturn, life_vars, target_vars,
         worker_vars, host_vars, control_vars
<1> QED
  BY <1>1, <1>2, TimersStill

-----------------------------------------------------------------------------
(* TimersInv is an invariant.                                              *)

LEMMA InitTimers == Init => TimersInv
<1> SUFFICES ASSUME Init PROVE TimersInv
  OBVIOUS
<1>1. Active = {}
  BY DEF Init, Active
<1> QED
  BY <1>1 DEF TimersInv, Timed

LEMMA StepTimers ==
    ASSUME HInv, SlotsInv, CountsInv, TimersInv, NEW w \in Workers, Step(w)
    PROVE  TimersInv'
<1>1. CASE \/ discard_pin(w) \/ fail_pin(w) \/ find_pin(w)
           \/ discard_use(w) \/ fail_use(w) \/ find_lost(w) \/ next_event(w)
  BY <1>1, PinMoves, UnpinMoves, MovesTimers
<1>2. CASE find(w) \/ find_missed(w) \/ fail_skip(w) \/ fail_end(w)
  BY <1>2, ScanMoves, MovesTimers
<1>3. CASE discard_unowned(w) \/ quiesce_end(w) \/ publish_odd(w)
  BY <1>3, OtherMoves, MovesTimers
<1>4. CASE sync_count(w) \/ sync_hz(w) \/ sync_fails(w)
  BY <1>4, SyncTimers
<1>5. CASE publish_even(w) \/ bind_dispatch(w) \/ start_publish(w) \/ leave_end(w)
  BY <1>5, PublishTimers, ServiceTimers
<1>6. CASE \/ start_hz(w) \/ start_count(w) \/ rollback_hz(w) \/ quiesce_hz(w)
           \/ drop_count(w, "rollback_count", "rollback_hz")
           \/ drop_count(w, "quiesce_count", "quiesce_hz")
  BY <1>6, LockTimers
<1>7. CASE rollback_wait(w) \/ release_wait(w)
  BY <1>7, FreeTimers
<1>8. CASE \/ find_none(w) \/ publish_unpin(w) \/ next_empty(w) \/ take_quality(w)
           \/ event_drain(w, "begin", TRUE) \/ event_drain(w, "end", FALSE)
  BY <1>8, QuietReturns, MovesTimers
<1> QED
  BY <1>1, <1>2, <1>3, <1>4, <1>5, <1>6, <1>7, <1>8 DEF Step

LEMMA NextTimers == HInv /\ SlotsInv /\ CountsInv /\ TimersInv /\ [Next]_vars => TimersInv'
<1> SUFFICES ASSUME HInv, SlotsInv, CountsInv, TimersInv, [Next]_vars
             PROVE  TimersInv'
  OBVIOUS
<1>1. CASE UNCHANGED vars
  <2>1. StatesKept
    BY <1>1, LifeKept DEF vars
  <2> QED
    BY <1>1, <2>1, TimersStill DEF vars, life_vars, target_vars, host_vars, worker_vars,
                                   control_vars
<1>2. CASE Next
  <2>1. PICK w \in Workers :
          Client(w) \/ Thread(w) \/ tick(w) \/ handler_enter(w) \/ Handler(w)
    BY <1>2 DEF Next
  <2>2. CASE Client(w)
    BY <2>2, PublishTimers, ServiceTimers, ClientCalls, MovesTimers DEF Client
  <2>3. CASE Step(w)
    BY <2>3, StepTimers
  <2>4. CASE Lock(w) \/ quiesce_wait(w)
    BY <2>4, SelectTimers, LockTimers, QuietReturns, MovesTimers DEF Lock
  <2>5. CASE tick(w) \/ handler_enter(w) \/ Handler(w)
    BY <2>5, HandlerTimers
  <2> QED
    BY <2>1, <2>2, <2>3, <2>4, <2>5 DEF Thread
<1> QED
  BY <1>1, <1>2

LEMMA TimersInvariance == Spec => []TimersInv
  BY InitTimers, NextTimers, Invariance, SlotsInvariance, CountsInvariance, PTL DEF Spec

\* A worker that publishes an ACTIVE session samples at that session's frequency,
\* unless a timer system call has failed, although the count and the frequency are
\* read without the lock while other sessions start and stop.
THEOREM TimersFollow == Spec => []ArmedForTarget
<1>1. SlotsInv /\ CountsInv /\ TimersInv => ArmedForTarget
  <2> SUFFICES ASSUME SlotsInv, CountsInv, TimersInv, NEW w \in Workers, NEW t \in Active,
                      Publishes(w, t), ~host_failed
               PROVE  armed_hz[w] = sample_hz[t]
    BY DEF ArmedForTarget
  <2>1. t \in Targets
    BY DEF Active
  <2>2. Runs(w, t)
    BY <2>1, PublisherRuns
  <2>3. slot[w].target # NoTarget
    BY <2>1, TargetsAssumption DEF Publishes
  <2>4. ~Withdrawn(w)
    BY <2>3 DEF SlotsInv, Publisher
  <2>5. ~Arming(w, t)
    <3> SUFFICES ASSUME Arming(w, t) PROVE FALSE
      OBVIOUS
    <3>1. op[w] = "start" /\ pc[w] \in Adding /\ loc[w].target = t
      BY <2>4 DEF Arming, Withdrawn, Syncing, Adding
    <3>2. AddingSession(w)
      BY <3>1 DEF CountsInv, Counted
    <3> QED
      BY <3>1, <3>2 DEF AddingSession, Publishes
  <2> QED
    BY <2>2, <2>5 DEF TimersInv, Timed
<1> QED
  BY <1>1, SlotsInvariance, CountsInvariance, TimersInvariance, PTL

-----------------------------------------------------------------------------
(* What the lifecycle words say, step by step.                             *)

\* A live target has its own token, a free one has none; a pinned one has readers.
WordsInv ==
    /\ \A t \in Targets : token[t] <= next_token /\ (token[t] = 0 <=> life[t].state = "FREE")
    /\ \A s, t \in Targets : token[s] = token[t] /\ token[t] # 0 => s = t
    /\ \A x \in Holders : pin[x] # NoTarget => life[pin[x]].readers # 0

LEMMA WordsInvariance == Spec => []WordsInv
<1>1. HInv /\ Protocol!IInv => WordsInv
  <2> SUFFICES ASSUME HInv, Protocol!IInv PROVE WordsInv
    OBVIOUS
  <2>1. /\ \A t \in Targets : token[t] <= next_token /\ (token[t] = 0 <=> life[t].state = "FREE")
        /\ \A s, t \in Targets : token[s] = token[t] /\ token[t] # 0 => s = t
    BY DEF Protocol!IInv, Protocol!TokenWhileLive, Protocol!TokensDistinct, HInv, TypeInv, LifeType
  <2>2. ASSUME NEW x \in Holders, pin[x] # NoTarget
        PROVE  life[pin[x]].readers # 0
    <3>1. PICK t \in Targets : t = pin[x]
      BY <2>2 DEF HInv, TypeInv, LifeType
    <3>2. life[t].readers = Cardinality(HoldersOf(t))
      BY SameCardinality DEF Protocol!IInv, Protocol!ReadersExact, Protocol!HoldersOf, HoldersOf
    <3>3. x \in HoldersOf(t) /\ IsFiniteSet(HoldersOf(t))
      BY <3>1, HoldersAreFinite, FS_Subset DEF HoldersOf
    <3>4. Cardinality(HoldersOf(t)) # 0
      BY <3>3, FS_EmptySet
    <3> QED
      BY <3>1, <3>2, <3>4
  <2> QED
    BY <2>1, <2>2 DEF WordsInv
<1> QED
  BY <1>1, Invariance, ProtocolInvariance, PTL

-----------------------------------------------------------------------------
(* The inductive invariant: whose session a call is about.                 *)

\* A service has one target at most, and a free target belongs to none.
HandlesApart ==
    /\ \A t \in Targets : life[t].state = "FREE" => handle[t] = NoHandle
    /\ \A s, t \in Targets : handle[s] = handle[t] /\ handle[t] # NoHandle => s = t

\* A bridge's token is that of a session of its own service.
Bridged ==
    \A h \in Handles :
        /\ scheduler_token[h] <= next_token
        /\ scheduler_token[h] # 0 =>
               \A t \in Targets : token[t] = scheduler_token[h] => handle[t] = h

\* The session that a start sets up is this thread's, until it is published or
\* reclaimed: no bridge has its token yet.
Started(w) == op[w] = "start" /\ pc[w] # "start_lock"
Reclaiming == Rollback \ {"rollback_lock"}
Opening(w) ==
    Started(w) =>
        /\ loc[w].arg # 0 /\ token[loc[w].target] = loc[w].arg
        /\ handle[loc[w].target] = Running(w)
        /\ life[loc[w].target].state = IF pc[w] \in Reclaiming THEN "RECLAIMING" ELSE "ACTIVE"
        /\ \A h \in Handles : scheduler_token[h] # loc[w].arg

\* A VM calls the API for its own session.
Serving(w) ==
    /\ op[w] \in {"begin", "next", "take", "end", "publish"} /\ ~loc[w].stop =>
           /\ Dispatching(w) /\ loc[w].arg # 0
           /\ \A t \in Targets : token[t] = loc[w].arg => handle[t] = Running(w)
    /\ pc[w] = "publish_even" => token[loc[w].i] = loc[w].arg

\* From stop_collector's quiesce on, its session is STOPPING; the call that releases
\* it is about the target that it has found.
Late(w) == loc[w].stop /\ op[w] # "begin" /\ pc[w] # "quiesce_lock"
Closing(w) ==
    /\ op[w] \in {"quiesce", "release"} \/ pc[w] = "release_wait" => loc[w].stop
    /\ pc[w] = "release_wait" => op[w] = "release"
    /\ loc[w].stop =>
           /\ op[w] \in {"begin", "quiesce", "next", "take", "end", "release"}
           /\ loc[w].arg # 0
    /\ Late(w) =>
           \A t \in Targets : token[t] = loc[w].arg =>
              life[t].state = IF pc[w] = "release_wait" THEN "RECLAIMING" ELSE "STOPPING"
    /\ (op[w] = "quiesce" /\ pc[w] # "quiesce_lock") \/ pc[w] = "release_wait" =>
           token[loc[w].target] = loc[w].arg

Owner(w) == loc[w].arg <= next_token /\ Opening(w) /\ Serving(w) /\ Closing(w)

\* No two threads open or stop the same session.
Rivals(v, w) ==
    /\ Started(w) => loc[v].arg # loc[w].arg
    /\ loc[v].stop /\ loc[w].stop => loc[v].arg # loc[w].arg

OwnersInv ==
    /\ HandlesApart /\ Bridged
    /\ \A w \in Workers : Owner(w)
    /\ \A v, w \in Workers : v # w => Rivals(v, w)

-----------------------------------------------------------------------------
(* Steps that open and close no session, for the calls.                    *)

\* Every session stays as it is, and every bridge keeps its token.
SessionsStill ==
    /\ UNCHANGED token /\ UNCHANGED next_token /\ UNCHANGED handle
    /\ UNCHANGED scheduler_token /\ StatesKept

\* A call's token stays, or is its bridge's; one call at a time stops a session.
TokenStep(w) ==
    /\ \/ loc'[w].arg \in {loc[w].arg, 0}
       \/ \E h \in Handles : loc'[w].arg = scheduler_token[h]
    /\ loc'[w].stop =>
          \/ loc[w].stop /\ loc'[w].arg = loc[w].arg
          \/ \A v \in Workers \ {w} : ~(loc[v].stop /\ loc[v].arg = loc'[w].arg)
    /\ Started(w)' => Started(w) /\ loc'[w].arg = loc[w].arg

LEMMA OwnersFrame ==
    ASSUME HInv, HInv', SlotsInv, OwnersInv, NEW w \in Workers, Others(w), SessionsStill,
           \A v \in Workers \ {w} : current_handle'[v] = current_handle[v],
           TokenStep(w), Owner(w)'
    PROVE  OwnersInv'
<1>1. HandlesApart' /\ Bridged'
  BY DEF OwnersInv, HandlesApart, Bridged, SessionsStill, StatesKept
<1>2. ASSUME NEW v \in Workers \ {w}
      PROVE  Owner(v)' /\ Rivals(v, w)' /\ Rivals(w, v)'
  <2>1. /\ pc'[v] = pc[v] /\ op'[v] = op[v] /\ loc'[v] = loc[v]
        /\ current_handle'[v] = current_handle[v]
    BY DEF Others
  <2>2. /\ Owner(v) /\ Owner(w) /\ Rivals(v, w) /\ Rivals(w, v)
    BY DEF OwnersInv
  <2>3. loc[v].i \in Nat /\ (pc[v] = "publish_even" => loc[v].i \in Targets)
        /\ (Started(v) => loc[v].target \in Targets)
        /\ (pc[v] = "release_wait" => loc[v].target \in Targets)
    <3>1. Matches(op[v], pc[v])
      BY DEF SlotsInv, Publisher
    <3> QED
      BY <3>1, LocFields
         DEF HInv, TypeInv, ControlType, Local, ScanPcs, OwnsTarget, Started, Matches
  <2>4. Started(v)' = Started(v) /\ Late(v)' = Late(v) /\ Running(v)' = Running(v)
        /\ Dispatching(v)' = Dispatching(v)
    BY <2>1 DEF Started, Late, Running, Dispatching
  <2>5. Opening(v)'
    BY <2>1, <2>2, <2>3, <2>4 DEF Owner, Opening, SessionsStill, StatesKept
  <2>6. Serving(v)' /\ Closing(v)'
    BY <2>1, <2>2, <2>3, <2>4 DEF Owner, Serving, Closing, SessionsStill, StatesKept
  <2>7. Rivals(v, w)'
    BY <2>1, <2>2 DEF TokenStep, Rivals
  <2>8. Rivals(w, v)'
    BY <2>1, <2>2, <2>4 DEF TokenStep, Rivals, Owner, Opening
  <2> QED
    BY <2>1, <2>2, <2>5, <2>6, <2>7, <2>8 DEF Owner, SessionsStill
<1>3. ASSUME NEW u \in Workers, NEW v \in Workers, u # v PROVE Rivals(u, v)'
  <2>1. CASE u = w \/ v = w
    BY <1>2, <1>3, <2>1
  <2>2. CASE u # w /\ v # w
    BY <1>3, <2>2 DEF OwnersInv, Rivals, Started, Others
  <2> QED
    BY <2>1, <2>2
<1> QED
  BY <1>1, <1>2, <1>3 DEF OwnersInv

\* The same call goes on.
LEMMA OwnersOn ==
    ASSUME HInv, HInv', SlotsInv, OwnersInv, NEW w \in Workers, Others(w), SessionsStill,
           UNCHANGED current_handle, op'[w] = op[w], Same(loc'[w], loc[w]),
           pc'[w] = "start_lock" <=> pc[w] = "start_lock",
           pc'[w] = "quiesce_lock" <=> pc[w] = "quiesce_lock",
           pc'[w] = "release_wait" <=> pc[w] = "release_wait",
           pc'[w] \in Reclaiming <=> pc[w] \in Reclaiming,
           pc'[w] = "publish_even" => token[loc'[w].i] = loc[w].arg
    PROVE  OwnersInv'
<1>1. Owner(w)
  BY DEF OwnersInv
<1>2. /\ loc'[w].arg = loc[w].arg /\ loc'[w].stop = loc[w].stop
      /\ loc'[w].target = loc[w].target
  BY DEF Same
<1>3. /\ Started(w) => loc[w].target \in Targets
      /\ pc[w] = "release_wait" => loc[w].target \in Targets
  <2>1. Matches(op[w], pc[w])
    BY DEF SlotsInv, Publisher
  <2> QED
    BY <2>1 DEF HInv, Local, OwnsTarget, Started, Matches
<1>4. Started(w)' = Started(w) /\ Late(w)' = Late(w) /\ Running(w)' = Running(w)
      /\ Dispatching(w)' = Dispatching(w)
  BY <1>2 DEF Started, Late, Running, Dispatching
<1>5. Opening(w)'
  BY <1>1, <1>2, <1>3, <1>4 DEF Owner, Opening, SessionsStill, StatesKept
<1>6. Serving(w)' /\ Closing(w)'
  BY <1>1, <1>2, <1>3, <1>4 DEF Owner, Serving, Closing, SessionsStill, StatesKept
<1>7. TokenStep(w)
  BY <1>2, <1>4 DEF TokenStep
<1>8. Owner(w)'
  BY <1>1, <1>2, <1>5, <1>6 DEF Owner, SessionsStill
<1> QED
  BY <1>7, <1>8, OwnersFrame

\* The locals of the next call.
LEMMA ReturnToLocals ==
    ASSUME ControlType, NEW w \in Workers, NEW o \in Ops, ReturnTo(w, o)
    PROVE  /\ o = "none" => loc'[w] = NoLoc
           /\ o # "none" => /\ loc'[w].arg = loc[w].arg /\ loc'[w].stop = loc[w].stop
                            /\ loc'[w].i = 1
<1> DEFINE l == IF o = "none" THEN NoLoc
                ELSE [NoLoc EXCEPT !.arg = loc[w].arg, !.stop = loc[w].stop]
<1>1. loc'[w] = l
  BY DEF ReturnTo, Call, ControlType
<1>2. l.arg = IF o = "none" THEN 0 ELSE loc[w].arg
  BY DEF NoLoc
<1>3. l.stop = IF o = "none" THEN FALSE ELSE loc[w].stop
  BY DEF NoLoc
<1>4. l.i = 1
  BY DEF NoLoc
<1> QED
  BY <1>1, <1>2, <1>3, <1>4

\* The bridge's next call.
NextCall(w, o) ==
    /\ Others(w) /\ UNCHANGED irq /\ UNCHANGED scheduler_token
    /\ op'[w] = o /\ pc'[w] = Entry(o)
    /\ o = "none" => loc'[w] = NoLoc
    /\ o # "none" => /\ loc'[w].arg = loc[w].arg /\ loc'[w].stop = loc[w].stop
                     /\ loc'[w].i = 1

LEMMA Returns ==
    ASSUME HInv, NEW w \in Workers, Return(w)
    PROVE  \E o \in After(op[w], loc[w].stop) \cap Ops : NextCall(w, o)
<1>1. op[w] \in Ops /\ loc[w].stop \in BOOLEAN
  BY LocFields DEF HInv, TypeInv, ControlType
<1>2. PICK o \in After(op[w], loc[w].stop) : ReturnTo(w, o)
  BY DEF Return
<1>3. o \in Ops
  BY <1>1, <1>2, AfterIsNew
<1> QED
  BY <1>2, <1>3, ReturnToFacts, ReturnToLocals DEF NextCall, HInv, TypeInv, Return

\* The bridge goes on with its next call, or its API call returns.
LEMMA OwnersNext ==
    ASSUME HInv, HInv', WordsInv, SlotsInv, OwnersInv, NEW w \in Workers, SessionsStill,
           NEW o \in Ops \cap ({"none"} \cup After(op[w], loc[w].stop)), NextCall(w, o),
           o # "none" => UNCHANGED current_handle,
           \A v \in Workers \ {w} : current_handle'[v] = current_handle[v],
           pc[w] \notin {"start_lock", "quiesce_lock", "release_wait"} \/ o = "none"
    PROVE  OwnersInv'
<1>1. Owner(w) /\ Matches(op[w], pc[w])
  BY DEF OwnersInv, SlotsInv, Publisher
<1>2. NoLoc.arg = 0 /\ NoLoc.stop = FALSE
  BY DEF NoLoc
<1>3. next_token \in Nat /\ op[w] \in Ops /\ loc[w].stop \in BOOLEAN
  BY LocFields DEF HInv, TypeInv, LifeType, ControlType
<1>4. /\ op'[w] = o /\ pc'[w] = Entry(o)
      /\ o = "none" => loc'[w].arg = 0 /\ ~loc'[w].stop
      /\ o # "none" => loc'[w].arg = loc[w].arg /\ loc'[w].stop = loc[w].stop
  BY <1>2 DEF NextCall
<1>5. /\ o \notin {"enter", "leave", "start", "publish"}
      /\ pc'[w] \notin {"start_lock", "release_wait", "publish_even"}
      /\ pc'[w] = "quiesce_lock" <=> o = "quiesce"
  <2>1. o \notin {"enter", "leave", "start", "publish"}
    BY <1>3, AfterIsNew
  <2> QED
    BY <1>4, <2>1 DEF Entry, Ops
<1>6. CASE o = "none"
  <2>1. Owner(w)'
    BY <1>2, <1>3, <1>4, <1>5, <1>6
       DEF Owner, Opening, Started, Serving, Closing, Late, SessionsStill
  <2>2. TokenStep(w)
    BY <1>4, <1>6 DEF TokenStep, Started
  <2> QED
    BY <2>1, <2>2, OwnersFrame DEF NextCall
<1>7. CASE o # "none"
  <2>1. o \in After(op[w], loc[w].stop) /\ UNCHANGED current_handle
    BY <1>7
  <2>2. /\ pc[w] \notin {"start_lock", "quiesce_lock", "release_wait"}
        /\ loc'[w].arg = loc[w].arg /\ loc'[w].stop = loc[w].stop
    BY <1>4, <1>7
  <2>3. /\ op[w] \in {"begin", "next", "take", "end", "publish", "quiesce", "start"}
        /\ op[w] = "begin" /\ loc[w].stop => o = "quiesce"
        /\ o = "quiesce" => op[w] = "begin" /\ loc[w].stop
        /\ o = "release" => op[w] \in {"take", "end"} /\ loc[w].stop
        /\ o = "begin" => op[w] = "publish"
        /\ o \in {"begin", "next", "take", "end", "quiesce", "release"}
    BY <1>3, <1>7, <2>1 DEF After, Drain, Ops
  <2>4. Opening(w)'
    BY <1>4, <1>5 DEF Opening, Started
  <2>5. Serving(w)'
    <3> SUFFICES ASSUME ~loc[w].stop
                 PROVE  /\ Dispatching(w) /\ loc[w].arg # 0
                        /\ \A t \in Targets : token[t] = loc[w].arg => handle[t] = Running(w)
      BY <1>4, <1>5, <2>1, <2>2 DEF Serving, Dispatching, Running, SessionsStill
    <3>1. op[w] # "quiesce"
      BY <1>1 DEF Owner, Closing
    <3>2. CASE op[w] = "start"
      <4>1. Started(w) /\ Opening(w) /\ Dispatching(w)
        BY <1>1, <2>2, <3>2 DEF Started, Owner, SlotsInv, Publisher
      <4>2. loc[w].target \in Targets
        BY <1>1, <2>2, <3>2 DEF HInv, Local, OwnsTarget, Matches
      <4> QED
        BY <4>1, <4>2 DEF Opening, WordsInv
    <3> QED
      BY <1>1, <2>3, <3>1, <3>2 DEF Owner, Serving
  <2>6. Closing(w)'
    <3>1. ~loc'[w].stop => o \notin {"quiesce", "release"}
      BY <2>2, <2>3
    <3>2. loc'[w].stop => /\ loc'[w].arg # 0
                          /\ o \in {"begin", "quiesce", "next", "take", "end", "release"}
                          /\ o # "begin"
      BY <1>1, <2>2, <2>3 DEF Owner, Closing
    <3>3. Late(w)' => Late(w) /\ pc[w] # "release_wait"
      BY <1>1, <1>4, <1>5, <2>2, <2>3 DEF Late, Owner, Closing
    <3>4. \A t \in Targets : Late(w)' /\ token'[t] = loc'[w].arg => life'[t].state = "STOPPING"
      BY <1>1, <2>2, <3>3 DEF Owner, Closing, SessionsStill, StatesKept
    <3> QED
      BY <1>4, <1>5, <3>1, <3>2, <3>4 DEF Closing
  <2>7. Owner(w)'
    BY <1>1, <2>2, <2>4, <2>5, <2>6 DEF Owner, SessionsStill
  <2>8. TokenStep(w)
    BY <1>4, <1>5, <2>2 DEF TokenStep, Started
  <2> QED
    BY <2>1, <2>7, <2>8, OwnersFrame DEF NextCall
<1> QED
  BY <1>6, <1>7

-----------------------------------------------------------------------------
(* What the steps of a call do to the sessions it is about.                *)

LEMMA CalmStill == Calm /\ UNCHANGED scheduler_token => SessionsStill /\ UNCHANGED current_handle
  BY DEF Calm, SessionsStill

\* The steps between which a call goes on.
Going(w) ==
    \/ discard_pin(w) \/ fail_pin(w) \/ find_pin(w)
    \/ discard_use(w) \/ fail_use(w) \/ find_lost(w) \/ next_event(w)
    \/ find(w) \/ find_missed(w) \/ fail_skip(w) \/ fail_end(w)
    \/ sync_count(w) \/ sync_hz(w) \/ sync_fails(w)
    \/ discard_unowned(w) \/ quiesce_end(w) \/ publish_odd(w)

LEMMA GoingMoves ==
    ASSUME HInv, NEW w \in Workers, Going(w)
    PROVE  /\ Moves(w) /\ Calm /\ SessionsStill
           /\ pc'[w] = "publish_even" => publish_odd(w)
<1>1. UNCHANGED scheduler_token
  BY DEF Going, discard_pin, fail_pin, find_pin, discard_use, fail_use, find_lost, next_event,
         find, find_missed, fail_skip, fail_end, sync_count, sync_hz, sync_fails,
         discard_unowned, quiesce_end, publish_odd, AfterDiscard, NextTarget, Goto, GotoWith
<1>2. CASE \/ discard_pin(w) \/ fail_pin(w) \/ find_pin(w)
           \/ discard_use(w) \/ fail_use(w) \/ find_lost(w) \/ next_event(w)
  BY <1>1, <1>2, PinMoves, UnpinMoves, CalmStill
<1>3. CASE \/ find(w) \/ find_missed(w) \/ fail_skip(w) \/ fail_end(w)
           \/ sync_count(w) \/ sync_hz(w) \/ sync_fails(w)
  BY <1>1, <1>3, ScanMoves, SyncMoves, CalmStill
<1>4. CASE discard_unowned(w) \/ quiesce_end(w) \/ publish_odd(w)
  BY <1>1, <1>4, OtherMoves, CalmStill
<1> QED
  BY <1>2, <1>3, <1>4 DEF Going

LEMMA GoingOwners ==
    ASSUME HInv, HInv', SlotsInv, OwnersInv, NEW w \in Workers, Going(w)
    PROVE  OwnersInv'
<1>1. /\ Moves(w) /\ Calm /\ SessionsStill
      /\ pc'[w] = "publish_even" => publish_odd(w)
  BY GoingMoves
<1>2. /\ op'[w] = op[w] /\ Same(loc'[w], loc[w]) /\ Others(w)
      /\ {pc[w], pc'[w]} \cap (Reclaiming \cup {"start_lock", "quiesce_lock", "release_wait"}) = {}
  BY <1>1 DEF Moves, Apart, Locked, Adding, Dropping, Dropped, Freeing, Reclaiming, Rollback
<1>3. publish_odd(w) => loc'[w] = loc[w] /\ token[loc[w].i] = loc[w].arg
  BY OtherMoves DEF publish_odd, Use, Wanted
<1> QED
  BY <1>1, <1>2, <1>3, OwnersOn DEF Calm

\* The steps of a start, a roll-back, a quiesce and a publication that keep the states
\* of the sessions.
Holding(w) ==
    \/ start_hz(w) \/ start_count(w) \/ rollback_hz(w) \/ quiesce_hz(w)
    \/ drop_count(w, "rollback_count", "rollback_hz")
    \/ drop_count(w, "quiesce_count", "quiesce_hz")
    \/ publish_even(w)

LEMMA HoldingMoves ==
    ASSUME HInv, NEW w \in Workers, Holding(w)
    PROVE  /\ Others(w) /\ UNCHANGED irq /\ SessionsStill /\ UNCHANGED current_handle
           /\ op'[w] = op[w] /\ Same(loc'[w], loc[w])
           /\ loc'[w].i = loc[w].i
           /\ <<pc[w], pc'[w]>> \in
                 {<<"start_hz", "start_count">>, <<"start_count", "discard_pin">>,
                  <<"rollback_hz", "rollback_wait">>, <<"quiesce_hz", "discard_pin">>,
                  <<"rollback_count", "rollback_hz">>, <<"quiesce_count", "quiesce_hz">>,
                  <<"publish_even", "publish_unpin">>}
<1>1. loc[w] \in LocType /\ slot[w] \in SlotType
  BY DEF HInv, TypeInv, ControlType, WorkerType
<1>2. UNCHANGED life_vars /\ UNCHANGED handle /\ UNCHANGED current_handle
  BY DEF Holding, start_hz, start_count, rollback_hz, quiesce_hz, drop_count, publish_even,
         target_vars, worker_vars
<1>3. PICK q \in {<<"start_hz", "start_count">>, <<"start_count", "discard_pin">>,
                  <<"rollback_hz", "rollback_wait">>, <<"quiesce_hz", "discard_pin">>,
                  <<"rollback_count", "rollback_hz">>, <<"quiesce_count", "quiesce_hz">>,
                  <<"publish_even", "publish_unpin">>}, l \in LocType :
        /\ pc[w] = q[1]
        /\ GotoWith(w, q[2], l) \/ (Goto(w, q[2]) /\ l = loc[w])
        /\ Same(l, loc[w]) /\ l.i = loc[w].i
  <2>1. CASE start_count(w)
    <3>1. PICK l \in LocType : l = SetAside(loc[w], slot[w])
      BY <1>1, LocPrev
    <3>2. /\ GotoWith(w, "discard_pin", l) /\ Same(l, loc[w]) /\ l.i = loc[w].i
          /\ pc[w] = "start_count"
      BY <1>1, <2>1, <3>1, SameLocs, LocPrev DEF start_count, SetAside, At
    <3> QED
      BY <3>2
  <2>2. CASE quiesce_hz(w)
    <3>1. PICK s \in SlotType : s = [NoSlot EXCEPT !.target = loc[w].target, !.token = loc[w].arg]
      BY <1>1, LocFields, SlotFacts
    <3>2. PICK l \in LocType : l = SetAside(loc[w], s)
      BY <1>1, LocPrev
    <3>3. GotoWith(w, "discard_pin", l) /\ Same(l, loc[w]) /\ l.i = loc[w].i /\ pc[w] = "quiesce_hz"
      BY <1>1, <2>2, <3>1, <3>2, SameLocs, LocPrev DEF quiesce_hz, SetAside, At
    <3> QED
      BY <3>3
  <2>3. CASE \/ start_hz(w) \/ rollback_hz(w) \/ publish_even(w)
             \/ drop_count(w, "rollback_count", "rollback_hz")
             \/ drop_count(w, "quiesce_count", "quiesce_hz")
    <3>1. Same(loc[w], loc[w])
      BY <1>1, SameLocs
    <3> QED
      BY <1>1, <2>3, <3>1 DEF start_hz, rollback_hz, publish_even, drop_count, At
  <2> QED
    BY <2>1, <2>2, <2>3 DEF Holding
<1>4. q[2] \in Pcs
  BY <1>3 DEF Pcs
<1>5. /\ Others(w) /\ UNCHANGED irq /\ UNCHANGED scheduler_token
      /\ pc'[w] = q[2] /\ op'[w] = op[w] /\ loc'[w] = l
  BY <1>3, <1>4, GotoFacts, GotoWithFacts DEF HInv, TypeInv
<1>6. SessionsStill
  BY <1>2, <1>5, LifeKept DEF SessionsStill, life_vars
<1>7. <<pc[w], pc'[w]>> = q
  BY <1>3, <1>5
<1> QED
  BY <1>2, <1>3, <1>5, <1>6, <1>7

LEMMA HoldingOwners ==
    ASSUME HInv, HInv', SlotsInv, OwnersInv, NEW w \in Workers, Holding(w)
    PROVE  OwnersInv'
<1>1. /\ Others(w) /\ SessionsStill /\ UNCHANGED current_handle
      /\ op'[w] = op[w] /\ Same(loc'[w], loc[w])
  BY HoldingMoves
<1>2. /\ pc'[w] = "start_lock" <=> pc[w] = "start_lock"
      /\ pc'[w] = "quiesce_lock" <=> pc[w] = "quiesce_lock"
      /\ pc'[w] = "release_wait" <=> pc[w] = "release_wait"
      /\ pc'[w] \in Reclaiming <=> pc[w] \in Reclaiming
      /\ pc'[w] # "publish_even"
  BY HoldingMoves DEF Reclaiming, Rollback
<1> QED
  BY <1>1, <1>2, OwnersOn

\* The steps with which a call ends.
Ending(w) ==
    \/ find_none(w) \/ publish_unpin(w) \/ next_empty(w) \/ take_quality(w)
    \/ event_drain(w, "begin", TRUE) \/ event_drain(w, "end", FALSE)
    \/ quiesce_wait(w) \/ bind_dispatch(w)

LEMMA EndingReturns ==
    ASSUME HInv, NEW w \in Workers, Ending(w)
    PROVE  /\ Return(w) /\ SessionsStill /\ UNCHANGED current_handle
           /\ pc[w] \in {"find", "find_use", "publish_unpin", "quiesce_wait"}
<1>1. Return(w) /\ UNCHANGED scheduler_token
  BY DEF Ending, find_none, publish_unpin, next_empty, take_quality, event_drain, quiesce_wait,
         bind_dispatch, UnpinAndReturn, Return
<1>2. pc[w] \in {"find", "find_use", "publish_unpin", "quiesce_wait"}
  BY DEF Ending, find_none, publish_unpin, next_empty, take_quality, event_drain, quiesce_wait,
         bind_dispatch, Use, At
<1>3. CASE bind_dispatch(w)
  <2>1. StatesKept
    BY <1>3, UnpinKeepsStates DEF bind_dispatch, UnpinAndReturn
  <2> QED
    BY <1>1, <1>2, <1>3, <2>1 DEF bind_dispatch, UnpinAndReturn, target_vars, SessionsStill
<1>4. CASE ~bind_dispatch(w)
  <2>1. Calm
    BY <1>4, QuietReturns DEF Ending
  <2> QED
    BY <1>1, <1>2, <2>1, CalmStill
<1> QED
  BY <1>3, <1>4

LEMMA EndingOwners ==
    ASSUME HInv, HInv', WordsInv, SlotsInv, OwnersInv, NEW w \in Workers, Ending(w)
    PROVE  OwnersInv'
<1>1. /\ Return(w) /\ SessionsStill /\ UNCHANGED current_handle
      /\ pc[w] \notin {"start_lock", "quiesce_lock", "release_wait"}
  BY EndingReturns
<1>2. PICK o \in After(op[w], loc[w].stop) \cap Ops : NextCall(w, o)
  BY <1>1, Returns
<1> QED
  BY <1>1, <1>2, OwnersNext

\* A call that returns to the VM or the scheduler at once.
LEMMA ReturnNone ==
    ASSUME HInv, NEW w \in Workers, ReturnTo(w, "none"), UNCHANGED scheduler_token
    PROVE  NextCall(w, "none")
<1>1. "none" \in Ops
  BY DEF Ops
<1> QED
  BY <1>1, ReturnToFacts, ReturnToLocals DEF NextCall, HInv, TypeInv

LEMMA RefusedOwners ==
    ASSUME HInv, HInv', WordsInv, SlotsInv, OwnersInv, NEW w \in Workers, start_refused(w)
    PROVE  OwnersInv'
<1>1. NextCall(w, "none") /\ UNCHANGED scheduler_token
  BY ReturnNone DEF start_refused
<1>2. Calm
  BY QuietReturns
<1>3. "none" \in Ops
  BY DEF Ops
<1> QED
  BY <1>1, <1>2, <1>3, CalmStill, OwnersNext

LEMMA LeaveEndOwners ==
    ASSUME HInv, HInv', WordsInv, SlotsInv, OwnersInv, NEW w \in Workers, leave_end(w)
    PROVE  OwnersInv'
<1>1. op[w] = "leave"
  BY DEF leave_end, At, SlotsInv, Publisher, Matches
<1>2. PICK o \in After(op[w], loc[w].stop) \cap Ops : NextCall(w, o)
  BY Returns DEF leave_end
<1>3. o = "none"
  BY <1>1, <1>2 DEF After
<1>4. SessionsStill
  BY LifeKept DEF leave_end, Return, life_vars, target_vars, SessionsStill
<1>5. \A v \in Workers \ {w} : current_handle'[v] = current_handle[v]
  BY DEF leave_end, HInv, TypeInv, WorkerType
<1> QED
  BY <1>2, <1>3, <1>4, <1>5, OwnersNext

\* Calls of the scheduler and of a VM.
LEMMA ClientOwners ==
    ASSUME HInv, HInv', WordsInv, SlotsInv, OwnersInv, NEW w \in Workers, Client(w)
    PROVE  OwnersInv'
<1>1. pc[w] = "idle" /\ next_token \in Nat /\ slot[w] \in SlotType
  BY DEF Client, dispatch_enter, dispatch_leave, target_start, profiler_work, publish_state,
         stop_collector, Idle, At, HInv, TypeInv, LifeType, WorkerType
<1>2. SessionsStill
  BY LifeKept DEF Client, dispatch_enter, dispatch_leave, target_start, profiler_work,
                  publish_state, stop_collector, life_vars, target_vars, SessionsStill
<1>3. \A v \in Workers \ {w} : current_handle'[v] = current_handle[v]
  BY DEF Client, dispatch_enter, dispatch_leave, target_start, profiler_work, publish_state,
         stop_collector, worker_vars, HInv, TypeInv, WorkerType
<1>4. CASE \/ \E h \in Handles : dispatch_enter(w, h)
           \/ dispatch_leave(w)
           \/ \E hz \in Hz : target_start(w, hz)
  <2>1. PICK o, l :
          /\ o \in {"enter", "leave", "start"}
          /\ Call(w, o, l) /\ UNCHANGED irq /\ l.arg = 0 /\ l.stop = FALSE
    <3>1. CASE \E h \in Handles : dispatch_enter(w, h)
      BY <1>1, <3>1 DEF dispatch_enter, Withdraw, NoLoc
    <3>2. CASE dispatch_leave(w)
      BY <1>1, <3>2 DEF dispatch_leave, Withdraw, NoLoc
    <3>3. CASE \E hz \in Hz : target_start(w, hz)
      BY <3>3 DEF target_start, NoLoc
    <3> QED
      BY <1>4, <3>1, <3>2, <3>3
  <2>2. /\ Others(w) /\ op'[w] = o /\ loc'[w] = l
        /\ pc'[w] = IF o = "start" THEN "start_lock" ELSE "discard_pin"
    BY <2>1 DEF Call, Entry, HInv, TypeInv, ControlType, Others
  <2>3. Owner(w)'
    BY <1>1, <1>2, <2>1, <2>2 DEF Owner, Opening, Started, Serving, Closing, Late, SessionsStill
  <2>4. TokenStep(w)
    BY <2>1, <2>2 DEF TokenStep, Started
  <2> QED
    BY <1>2, <1>3, <2>2, <2>3, <2>4, OwnersFrame
<1>5. CASE profiler_work(w) \/ publish_state(w)
  <2>1. PICK o, l :
          /\ o \in {"begin", "publish"}
          /\ Call(w, o, l) /\ UNCHANGED irq /\ Profiled(w) /\ UNCHANGED current_handle
          /\ l.arg = scheduler_token[Running(w)] /\ l.stop = FALSE
    BY <1>5 DEF profiler_work, publish_state, NoLoc, worker_vars
  <2>2. Others(w) /\ op'[w] = o /\ loc'[w] = l /\ pc'[w] = "find"
    BY <2>1 DEF Call, Entry, HInv, TypeInv, ControlType, Others
  <2>3. /\ Running(w) \in Handles /\ Dispatching(w) /\ scheduler_token[Running(w)] # 0
    BY <2>1 DEF Profiled, Dispatching, Running, HInv, TypeInv, WorkerType
  <2>4. /\ l.arg <= next_token /\ \A t \in Targets : token[t] = l.arg => handle[t] = Running(w)
    BY <2>1, <2>3 DEF OwnersInv, Bridged
  <2>5. Running(w)' = Running(w) /\ Dispatching(w)' = Dispatching(w)
    BY <2>1 DEF Running, Dispatching
  <2>6. Owner(w)'
    BY <1>2, <2>1, <2>2, <2>3, <2>4, <2>5
       DEF Owner, Opening, Started, Serving, Closing, Late, SessionsStill
  <2>7. TokenStep(w)
    BY <2>1, <2>2, <2>3 DEF TokenStep, Started
  <2> QED
    BY <1>2, <1>3, <2>2, <2>6, <2>7, OwnersFrame
<1>6. CASE \E h \in Handles : stop_collector(w, h)
  <2>1. PICK h, l :
          /\ h \in Handles
          /\ Call(w, "begin", l) /\ UNCHANGED irq
          /\ l.arg = scheduler_token[h] /\ l.stop = TRUE
          /\ scheduler_token[h] # 0 /\ ~BeingStopped(scheduler_token[h])
    BY <1>6 DEF stop_collector, NoLoc
  <2>2. Others(w) /\ op'[w] = "begin" /\ loc'[w] = l /\ pc'[w] = "find"
    BY <2>1 DEF Call, Entry, HInv, TypeInv, ControlType, Others
  <2>3. l.arg <= next_token
    BY <2>1 DEF OwnersInv, Bridged
  <2>4. Owner(w)'
    BY <1>2, <2>1, <2>2, <2>3 DEF Owner, Opening, Started, Serving, Closing, Late, SessionsStill
  <2>5. TokenStep(w)
    BY <2>1, <2>2 DEF TokenStep, Started, BeingStopped
  <2> QED
    BY <1>2, <1>3, <2>2, <2>4, <2>5, OwnersFrame
<1> QED
  BY <1>4, <1>5, <1>6 DEF Client

-----------------------------------------------------------------------------
(* The steps that open, stop and close a session.                          *)

\* A session is opened in a free slot, for a service that has none.
Opens(w, t) ==
    /\ pc[w] = "start_lock" /\ op[w] = "start" /\ Dispatching(w)
    /\ Others(w) /\ UNCHANGED irq /\ UNCHANGED scheduler_token
    /\ pc'[w] = "start_hz" /\ op'[w] = op[w]
    /\ loc'[w].target = t /\ loc'[w].arg = next_token + 1 /\ loc'[w].stop = loc[w].stop
    /\ next_token' = next_token + 1
    /\ life[t].state = "FREE" /\ life'[t].state = "ACTIVE"
    /\ token'[t] = next_token + 1 /\ handle'[t] = Running(w)
    /\ ring'[t] = <<>> /\ quality'[t] = {}
    /\ \A s \in Targets \ {t} :
          /\ life'[s].state = life[s].state /\ token'[s] = token[s] /\ handle'[s] = handle[s]
          /\ ring'[s] = ring[s] /\ quality'[s] = quality[s] /\ sample_hz'[s] = sample_hz[s]
    /\ ~HandleTaken(Running(w)) /\ UNCHANGED worker_vars

LEMMA SelectOpens ==
    ASSUME HInv, SlotsInv, NEW w \in Workers, start_select(w)
    PROVE  \E t \in Targets : Opens(w, t)
<1>1. loc[w] \in LocType /\ next_token \in Nat
  BY DEF HInv, TypeInv, ControlType, LifeType
<1>2. PICK t \in Targets :
        /\ pc[w] = "start_lock"
        /\ next_token' = next_token + 1
        /\ token' = [token EXCEPT ![t] = next_token + 1]
        /\ handle' = [handle EXCEPT ![t] = Running(w)]
        /\ sample_hz' = [sample_hz EXCEPT ![t] = loc[w].hz]
        /\ ring' = [ring EXCEPT ![t] = <<>>]
        /\ quality' = [quality EXCEPT ![t] = {}]
        /\ target_transition(t, "FREE", "ACTIVE")
        /\ GotoWith(w, "start_hz", Opened(loc[w], t, next_token + 1))
        /\ ~HandleTaken(Running(w)) /\ UNCHANGED worker_vars
  BY DEF start_select, At, Opened
<1>3. PICK l \in LocType : l = Opened(loc[w], t, next_token + 1)
  BY <1>1, LocTarget, next_token + 1 \in Nat
<1>4. l.target = t /\ l.arg = next_token + 1 /\ l.stop = loc[w].stop
  BY <1>1, <1>3 DEF Opened, LocType
<1>5. /\ Others(w) /\ UNCHANGED irq /\ pc'[w] = "start_hz" /\ op'[w] = op[w] /\ loc'[w] = l
      /\ UNCHANGED scheduler_token
  BY <1>2, <1>3, GotoWithFacts DEF HInv, TypeInv, Pcs
<1>6. op[w] = "start" /\ Dispatching(w)
  BY <1>2 DEF SlotsInv, Publisher, Matches
<1>7. /\ life[t].state = "FREE" /\ life'[t].state = "ACTIVE"
      /\ \A s \in Targets \ {t} : life'[s].state = life[s].state
  BY <1>2, TransitionType DEF HInv, TypeInv, States
<1>8. /\ token'[t] = next_token + 1 /\ handle'[t] = Running(w)
      /\ ring'[t] = <<>> /\ quality'[t] = {}
      /\ \A s \in Targets \ {t} :
            /\ token'[s] = token[s] /\ handle'[s] = handle[s]
            /\ ring'[s] = ring[s] /\ quality'[s] = quality[s] /\ sample_hz'[s] = sample_hz[s]
  BY <1>2 DEF HInv, TypeInv, LifeType, TargetType
<1> QED
  BY <1>2, <1>4, <1>5, <1>6, <1>7, <1>8 DEF Opens

\* A session is stopped, or reclaimed by a roll-back or a release.
Stages == {<<"rollback_lock", "rollback_count", "ACTIVE", "RECLAIMING">>,
           <<"quiesce_lock", "quiesce_count", "ACTIVE", "STOPPING">>,
           <<"release_lock", "release_wait", "STOPPING", "RECLAIMING">>}
Enters(w, t, q) ==
    /\ pc[w] = q[1] /\ pc'[w] = q[2] /\ op'[w] = op[w]
    /\ Others(w) /\ UNCHANGED irq /\ UNCHANGED scheduler_token
    /\ loc'[w].arg = loc[w].arg /\ loc'[w].stop = loc[w].stop /\ loc'[w].target = t
    /\ q[1] = "rollback_lock" => loc[w].target = t
    /\ q[1] # "rollback_lock" => token[t] = loc[w].arg
    /\ life[t].state = q[3] /\ life'[t].state = q[4]
    /\ \A s \in Targets \ {t} : life'[s].state = life[s].state
    /\ UNCHANGED token /\ UNCHANGED next_token /\ UNCHANGED target_vars
    /\ UNCHANGED worker_vars

LEMMA LockEnters ==
    ASSUME HInv, NEW w \in Workers, rollback_lock(w) \/ quiesce_lock(w) \/ release_lock(w)
    PROVE  \E t \in Targets, q \in Stages : Enters(w, t, q)
<1>1. loc[w] \in LocType
  BY DEF HInv, TypeInv, ControlType
<1>2. CASE rollback_lock(w)
  <2>1. PICK t \in Targets :
          /\ t = loc[w].target /\ target_transition(t, "ACTIVE", "RECLAIMING")
          /\ pc[w] = "rollback_lock" /\ Goto(w, "rollback_count")
    BY <1>2 DEF rollback_lock, At, HInv, Local, OwnsTarget, Rollback
  <2>2. /\ Others(w) /\ UNCHANGED irq /\ pc'[w] = "rollback_count" /\ op'[w] = op[w]
        /\ loc'[w] = loc[w] /\ UNCHANGED scheduler_token
    BY <2>1, GotoFacts DEF HInv, TypeInv, Pcs
  <2>3. /\ life[t].state = "ACTIVE" /\ life'[t].state = "RECLAIMING"
        /\ \A s \in Targets \ {t} : life'[s].state = life[s].state
    BY <2>1, TransitionType DEF HInv, TypeInv, States
  <2>4. Enters(w, t, <<"rollback_lock", "rollback_count", "ACTIVE", "RECLAIMING">>)
    BY <1>2, <2>1, <2>2, <2>3 DEF rollback_lock, Enters
  <2> QED
    BY <2>4 DEF Stages
<1>3. CASE quiesce_lock(w) \/ release_lock(w)
  <2>1. PICK t \in Targets, q \in Stages :
          /\ q[1] # "rollback_lock"
          /\ token[t] = loc[w].arg /\ target_transition(t, q[3], q[4])
          /\ pc[w] = q[1] /\ GotoWith(w, q[2], Named(loc[w], t))
          /\ UNCHANGED token /\ UNCHANGED next_token /\ UNCHANGED target_vars
          /\ UNCHANGED worker_vars
    <3>1. CASE quiesce_lock(w)
      <4>1. PICK t \in Targets :
              /\ token[t] = loc[w].arg /\ target_transition(t, "ACTIVE", "STOPPING")
              /\ GotoWith(w, "quiesce_count", Named(loc[w], t))
        BY <3>1 DEF quiesce_lock, Session, Named
      <4> DEFINE q == <<"quiesce_lock", "quiesce_count", "ACTIVE", "STOPPING">>
      <4>2. q \in Stages /\ q[1] = "quiesce_lock" /\ q[2] = "quiesce_count" /\ q[3] = "ACTIVE"
            /\ q[4] = "STOPPING"
        BY DEF Stages
      <4>3. pc[w] = "quiesce_lock" /\ UNCHANGED token /\ UNCHANGED next_token
            /\ UNCHANGED target_vars /\ UNCHANGED worker_vars
        BY <3>1 DEF quiesce_lock, At
      <4> HIDE DEF q
      <4> QED
        BY <4>1, <4>2, <4>3
    <3>2. CASE release_lock(w)
      <4>1. PICK t \in Targets :
              /\ token[t] = loc[w].arg /\ target_transition(t, "STOPPING", "RECLAIMING")
              /\ GotoWith(w, "release_wait", Named(loc[w], t))
        BY <3>2 DEF release_lock, Session, Named
      <4> DEFINE q == <<"release_lock", "release_wait", "STOPPING", "RECLAIMING">>
      <4>2. q \in Stages /\ q[1] = "release_lock" /\ q[2] = "release_wait" /\ q[3] = "STOPPING"
            /\ q[4] = "RECLAIMING"
        BY DEF Stages
      <4>3. pc[w] = "release_lock" /\ UNCHANGED token /\ UNCHANGED next_token
            /\ UNCHANGED target_vars /\ UNCHANGED worker_vars
        BY <3>2 DEF release_lock, At
      <4> HIDE DEF q
      <4> QED
        BY <4>1, <4>2, <4>3
    <3> QED
      BY <1>3, <3>1, <3>2
  <2>2. PICK l \in LocType : l = Named(loc[w], t)
    BY <1>1, LocTarget, 0 \in Nat
  <2>3. l.target = t /\ l.arg = loc[w].arg /\ l.stop = loc[w].stop
    BY <1>1, <2>2 DEF Named, LocType
  <2>4. q[2] \in Pcs /\ q[4] \in States
    BY DEF Stages, Pcs, States
  <2>5. /\ Others(w) /\ UNCHANGED irq /\ pc'[w] = q[2] /\ op'[w] = op[w] /\ loc'[w] = l
        /\ UNCHANGED scheduler_token
    BY <2>1, <2>2, <2>4, GotoWithFacts DEF HInv, TypeInv
  <2>6. /\ life[t].state = q[3] /\ life'[t].state = q[4]
        /\ \A s \in Targets \ {t} : life'[s].state = life[s].state
    BY <2>1, <2>4, TransitionType DEF HInv, TypeInv
  <2>7. Enters(w, t, q)
    BY <2>1, <2>3, <2>5, <2>6 DEF Enters
  <2> QED
    BY <2>7
<1> QED
  BY <1>2, <1>3

\* A session is erased, when nobody has its target pinned.
Erases(w, t) ==
    /\ pc[w] \in {"rollback_wait", "release_wait"} /\ loc[w].target = t
    /\ Others(w) /\ UNCHANGED irq /\ op'[w] = "none" /\ pc'[w] = "idle" /\ loc'[w] = NoLoc
    /\ life[t].readers = 0 /\ life[t].state = "RECLAIMING" /\ life'[t].state = "FREE"
    /\ token'[t] = 0 /\ handle'[t] = NoHandle /\ ring'[t] = <<>>
    /\ \A s \in Targets \ {t} :
          /\ life'[s].state = life[s].state /\ token'[s] = token[s] /\ handle'[s] = handle[s]
          /\ ring'[s] = ring[s] /\ sample_hz'[s] = sample_hz[s]
    /\ UNCHANGED next_token /\ UNCHANGED quality /\ UNCHANGED slot
    /\ UNCHANGED current_handle /\ UNCHANGED armed_hz
    /\ pc[w] = "rollback_wait" => UNCHANGED scheduler_token
    /\ pc[w] = "release_wait" => ClosedBy(w)

LEMMA FreeErases ==
    ASSUME HInv, NEW w \in Workers, rollback_wait(w) \/ release_wait(w)
    PROVE  \E t \in Targets : Erases(w, t)
<1>1. PICK t \in Targets :
        /\ t = loc[w].target /\ FreeTarget(t) /\ ReturnTo(w, "none") /\ life[t].readers = 0
        /\ pc[w] \in {"rollback_wait", "release_wait"}
  BY DEF rollback_wait, release_wait, At, Unpinned, HInv, Local, OwnsTarget, Rollback
<1>2. "none" \in Ops /\ Entry("none") = "idle"
  BY DEF Ops, Entry
<1>3. /\ Others(w) /\ UNCHANGED irq /\ op'[w] = "none" /\ pc'[w] = "idle" /\ loc'[w] = NoLoc
  BY <1>1, <1>2, ReturnToFacts, ReturnToLocals DEF HInv, TypeInv
<1>4. /\ life[t].state = "RECLAIMING" /\ life'[t].state = "FREE"
      /\ \A s \in Targets \ {t} : life'[s].state = life[s].state
  BY <1>1, TransitionType DEF HInv, TypeInv, States, FreeTarget
<1>5. /\ token'[t] = 0 /\ handle'[t] = NoHandle /\ ring'[t] = <<>>
      /\ \A s \in Targets \ {t} :
            /\ token'[s] = token[s] /\ handle'[s] = handle[s]
            /\ ring'[s] = ring[s] /\ sample_hz'[s] = sample_hz[s]
      /\ UNCHANGED next_token /\ UNCHANGED quality
  BY <1>1 DEF FreeTarget, HInv, TypeInv, LifeType, TargetType
<1>6. /\ UNCHANGED slot /\ UNCHANGED current_handle /\ UNCHANGED armed_hz
      /\ pc[w] = "rollback_wait" => UNCHANGED scheduler_token
      /\ pc[w] = "release_wait" => ClosedBy(w)
  BY DEF rollback_wait, release_wait, worker_vars, At
<1> QED
  BY <1>1, <1>3, <1>4, <1>5, <1>6 DEF Erases

-----------------------------------------------------------------------------
(* What these steps leave of the other threads' sessions.                  *)

LEMMA OtherOwner ==
    ASSUME HInv, HInv', SlotsInv, OwnersInv, NEW w \in Workers, Others(w), NEW v \in Workers \ {w},
           current_handle'[v] = current_handle[v], next_token <= next_token',
           loc[v].arg # 0 => \A s \in Targets : token'[s] = loc[v].arg =>
               token[s] = loc[v].arg /\ handle'[s] = handle[s],
           Started(v) \/ loc[v].stop => \A s \in Targets : token[s] = loc[v].arg =>
               /\ token'[s] = token[s] /\ handle'[s] = handle[s]
               /\ life'[s].state = life[s].state,
           pc[v] = "publish_even" => token'[loc[v].i] = token[loc[v].i],
           Started(v) => \A h \in Handles : scheduler_token'[h] # loc[v].arg
    PROVE  Owner(v)'
<1>1. /\ pc'[v] = pc[v] /\ op'[v] = op[v] /\ loc'[v] = loc[v]
  BY DEF Others
<1>2. Owner(v)
  BY DEF OwnersInv
<1>3. /\ loc[v].arg \in Nat /\ next_token \in Nat /\ next_token' \in Nat
      /\ (Started(v) => loc[v].target \in Targets)
      /\ (op[v] = "quiesce" /\ pc[v] # "quiesce_lock" => loc[v].target \in Targets)
      /\ (pc[v] = "release_wait" => loc[v].target \in Targets)
  <2>1. Matches(op[v], pc[v])
    BY DEF SlotsInv, Publisher
  <2> QED
    BY <2>1, LocFields
       DEF HInv, TypeInv, ControlType, LifeType, Local, OwnsTarget, Started, Matches
<1>4. Started(v)' = Started(v) /\ Late(v)' = Late(v) /\ Running(v)' = Running(v)
      /\ Dispatching(v)' = Dispatching(v)
  BY <1>1 DEF Started, Late, Running, Dispatching
<1>5. Opening(v)'
  BY <1>1, <1>2, <1>3, <1>4 DEF Owner, Opening
<1>6. Serving(v)'
  BY <1>1, <1>2, <1>4 DEF Owner, Serving
<1>7. Closing(v)'
  <2>1. /\ op[v] \in {"quiesce", "release"} \/ pc[v] = "release_wait" => loc[v].stop
        /\ pc[v] = "release_wait" => op[v] = "release"
        /\ loc[v].stop =>
           /\ op[v] \in {"begin", "quiesce", "next", "take", "end", "release"}
           /\ loc[v].arg # 0
    BY <1>2 DEF Owner, Closing
  <2>2. ASSUME Late(v), NEW t \in Targets, token'[t] = loc[v].arg
        PROVE  life'[t].state = IF pc[v] = "release_wait" THEN "RECLAIMING" ELSE "STOPPING"
    <3>1. loc[v].stop /\ token[t] = loc[v].arg /\ life'[t].state = life[t].state
      BY <2>1, <2>2 DEF Late
    <3> QED
      BY <1>2, <2>2, <3>1 DEF Owner, Closing
  <2>3. (op[v] = "quiesce" /\ pc[v] # "quiesce_lock") \/ pc[v] = "release_wait" =>
           token'[loc[v].target] = loc[v].arg
    BY <1>2, <1>3, <2>1 DEF Owner, Closing
  <2> QED
    BY <1>1, <1>4, <2>1, <2>2, <2>3 DEF Closing
<1>8. loc[v].arg <= next_token'
  BY <1>2, <1>3 DEF Owner
<1> QED
  BY <1>1, <1>5, <1>6, <1>7, <1>8 DEF Owner

\* The rivals of a thread that takes no session over.
LEMMA OtherRivals ==
    ASSUME OwnersInv, NEW w \in Workers, Others(w),
           \A v \in Workers \ {w} : Owner(v)' /\ Rivals(v, w)' /\ Rivals(w, v)',
           Owner(w)', HandlesApart', Bridged'
    PROVE  OwnersInv'
<1>1. ASSUME NEW u \in Workers, NEW v \in Workers, u # v PROVE Rivals(u, v)'
  <2>1. CASE u = w \/ v = w
    BY <1>1, <2>1
  <2>2. CASE u # w /\ v # w
    BY <1>1, <2>2 DEF OwnersInv, Rivals, Started, Others
  <2> QED
    BY <2>1, <2>2
<1> QED
  BY <1>1 DEF OwnersInv

LEMMA SelectOwners ==
    ASSUME HInv, HInv', WordsInv, SlotsInv, OwnersInv, NEW w \in Workers, start_select(w)
    PROVE  OwnersInv'
<1>1. PICK t \in Targets : Opens(w, t)
  BY SelectOpens
<1>2. /\ next_token \in Nat /\ next_token' = next_token + 1 /\ token[t] = 0
      /\ \A s \in Targets : token[s] \in Nat /\ token[s] <= next_token
      /\ \A h \in Handles : scheduler_token[h] \in Nat /\ scheduler_token[h] <= next_token
      /\ \A v \in Workers : loc[v].arg \in Nat /\ loc[v].arg <= next_token
  BY <1>1, LocFields
     DEF Opens, HInv, TypeInv, LifeType, BridgeType, ControlType, WordsInv, OwnersInv, Bridged,
         Owner
<1>3. /\ Others(w) /\ UNCHANGED scheduler_token /\ UNCHANGED current_handle
      /\ Running(w)' = Running(w)
      /\ \A s \in Targets \ {t} :
           life'[s].state = life[s].state /\ token'[s] = token[s] /\ handle'[s] = handle[s]
      /\ life'[t].state = "ACTIVE" /\ token'[t] = next_token + 1 /\ handle'[t] = Running(w)
      /\ Running(w) # NoHandle /\ ~HandleTaken(Running(w))
  BY <1>1 DEF Opens, worker_vars, Running, Dispatching
<1>4. HandlesApart'
  <2>1. ASSUME NEW s \in Targets \ {t} PROVE handle[s] # Running(w)
    BY <1>3 DEF OwnersInv, HandlesApart, HandleTaken
  <2> QED
    BY <1>3, <2>1 DEF OwnersInv, HandlesApart
<1>5. Bridged'
  <2>1. \A h \in Handles : scheduler_token[h] # token'[t] /\ scheduler_token[h] <= next_token'
    BY <1>2, <1>3
  <2> QED
    BY <1>3, <2>1 DEF OwnersInv, Bridged
<1>6. /\ pc'[w] = "start_hz" /\ op'[w] = "start" /\ loc'[w].target = t
      /\ loc'[w].arg = next_token + 1 /\ loc'[w].stop = loc[w].stop /\ op[w] = "start"
  BY <1>1 DEF Opens
<1>7. ~loc'[w].stop
  BY <1>6 DEF OwnersInv, Owner, Closing
<1>8. Owner(w)'
  <2>1. Opening(w)'
    <3>1. \A h \in Handles : scheduler_token'[h] # loc'[w].arg
      BY <1>2, <1>3, <1>6
    <3>2. "start_hz" \notin Reclaiming
      BY DEF Reclaiming, Rollback
    <3> QED
      BY <1>2, <1>3, <1>6, <3>1, <3>2 DEF Opening
  <2>2. Serving(w)' /\ Closing(w)'
    BY <1>6, <1>7 DEF Serving, Closing, Late
  <2> QED
    BY <1>2, <1>6, <2>1, <2>2 DEF Owner
<1>9. ASSUME NEW v \in Workers \ {w} PROVE Owner(v)'
  <2>1. \A s \in Targets : token'[s] = loc[v].arg => s # t
    BY <1>2, <1>3
  <2>2. \A s \in Targets : token[s] = loc[v].arg /\ loc[v].arg # 0 => s # t
    BY <1>2
  <2>3. Owner(v)
    BY DEF OwnersInv
  <2>4. Started(v) \/ loc[v].stop => loc[v].arg # 0
    BY <2>3 DEF Owner, Opening, Closing
  <2>5. pc[v] = "publish_even" => loc[v].i \in Targets /\ loc[v].i # t
    <3> SUFFICES ASSUME pc[v] = "publish_even" PROVE loc[v].i \in Targets /\ loc[v].i # t
      OBVIOUS
    <3>1. op[v] = "publish" /\ loc[v].i \in Targets
      BY DEF SlotsInv, Publisher, Matches, HInv, Local, ScanPcs
    <3>2. loc[v].arg # 0 /\ token[loc[v].i] = loc[v].arg
      BY <2>3, <3>1 DEF Owner, Serving, Closing
    <3> QED
      BY <2>2, <3>1, <3>2
  <2>6. Started(v) => \A h \in Handles : scheduler_token'[h] # loc[v].arg
    BY <1>3, <2>3 DEF Owner, Opening
  <2>7. next_token <= next_token'
    BY <1>2
  <2>8. loc[v].arg # 0 => \A s \in Targets : token'[s] = loc[v].arg =>
            token[s] = loc[v].arg /\ handle'[s] = handle[s]
    BY <1>3, <2>1
  <2>9. Started(v) \/ loc[v].stop => \A s \in Targets : token[s] = loc[v].arg =>
            token'[s] = token[s] /\ handle'[s] = handle[s] /\ life'[s].state = life[s].state
    BY <1>3, <2>2, <2>4
  <2> QED
    BY <1>3, <2>5, <2>6, <2>7, <2>8, <2>9, OtherOwner
<1>10. ASSUME NEW v \in Workers \ {w} PROVE Rivals(v, w)' /\ Rivals(w, v)'
  <2>1. loc'[v] = loc[v] /\ loc'[v].arg # loc'[w].arg
    BY <1>2, <1>3, <1>6 DEF Others
  <2> QED
    BY <1>7, <2>1 DEF Rivals
<1> QED
  BY <1>3, <1>4, <1>5, <1>8, <1>9, <1>10, OtherRivals

LEMMA PublishOwners ==
    ASSUME HInv, HInv', WordsInv, SlotsInv, OwnersInv, NEW w \in Workers, start_publish(w)
    PROVE  OwnersInv'
<1>1. /\ pc[w] = "start_publish" /\ op[w] = "start"
      /\ scheduler_token' = [scheduler_token EXCEPT ![Running(w)] = loc[w].arg]
  BY DEF start_publish, At, SlotsInv, Publisher, Matches
<1>2. /\ Others(w) /\ op'[w] = "end" /\ pc'[w] = "find"
      /\ loc'[w].arg = loc[w].arg /\ loc'[w].stop = loc[w].stop
  <2>1. "end" \in Ops /\ Entry("end") = "find" /\ ReturnTo(w, "end")
    BY DEF Ops, Entry, start_publish
  <2> QED
    BY <2>1, ReturnToFacts, ReturnToLocals DEF HInv, TypeInv
<1>3. /\ UNCHANGED token /\ UNCHANGED next_token /\ UNCHANGED handle /\ UNCHANGED current_handle
      /\ StatesKept
  BY LifeKept DEF start_publish, life_vars, target_vars
<1>4. /\ Running(w) \in Handles /\ Dispatching(w) /\ loc[w].target \in Targets
      /\ Running(w)' = Running(w) /\ Dispatching(w)' = Dispatching(w)
  <2>1. Dispatching(w)
    BY <1>1 DEF SlotsInv, Publisher
  <2>2. current_handle[w] \in Handles \cup {NoHandle}
    BY DEF HInv, TypeInv, WorkerType
  <2>3. loc[w].target \in Targets
    BY <1>1 DEF HInv, Local, OwnsTarget
  <2> QED
    BY <1>3, <2>1, <2>2, <2>3 DEF Dispatching, Running
<1>5. /\ scheduler_token'[Running(w)] = loc[w].arg
      /\ \A h \in Handles \ {Running(w)} : scheduler_token'[h] = scheduler_token[h]
  BY <1>1, <1>4 DEF HInv, TypeInv, BridgeType
<1>6. /\ loc[w].arg # 0 /\ loc[w].arg <= next_token /\ ~loc[w].stop
      /\ \A t \in Targets : token[t] = loc[w].arg => handle[t] = Running(w)
  BY <1>1, <1>4 DEF OwnersInv, Owner, Opening, Closing, Started, WordsInv
<1>7. HandlesApart'
  BY <1>3 DEF OwnersInv, HandlesApart, StatesKept
<1>8. Bridged'
  <2>1. \A h \in Handles \ {Running(w)} :
          /\ scheduler_token[h] <= next_token
          /\ scheduler_token[h] # 0 =>
               \A t \in Targets : token[t] = scheduler_token[h] => handle[t] = h
    BY DEF OwnersInv, Bridged
  <2> QED
    BY <1>3, <1>5, <1>6, <2>1 DEF Bridged
<1>9. Owner(w)'
  BY <1>2, <1>3, <1>4, <1>6 DEF Owner, Opening, Started, Serving, Closing, Late
<1>10. ASSUME NEW v \in Workers \ {w} PROVE Owner(v)' /\ Rivals(v, w)' /\ Rivals(w, v)'
  <2>1. Owner(v) /\ Rivals(w, v)
    BY DEF OwnersInv
  <2>2. Started(v) => \A h \in Handles : scheduler_token'[h] # loc[v].arg
    BY <1>5, <2>1 DEF Owner, Opening, Rivals
  <2>3. next_token <= next_token' /\ current_handle'[v] = current_handle[v]
    BY <1>3 DEF HInv, TypeInv, LifeType
  <2>4. Owner(v)'
    BY <1>2, <1>3, <2>2, <2>3, OtherOwner DEF StatesKept
  <2>5. Rivals(v, w)' /\ Rivals(w, v)'
    BY <1>2, <1>6, <2>1 DEF Rivals, Started, Others
  <2> QED
    BY <2>4, <2>5
<1> QED
  BY <1>2, <1>7, <1>8, <1>9, <1>10, OtherRivals

LEMMA LockOwners ==
    ASSUME HInv, HInv', WordsInv, SlotsInv, OwnersInv, NEW w \in Workers,
           rollback_lock(w) \/ quiesce_lock(w) \/ release_lock(w)
    PROVE  OwnersInv'
<1>1. PICK t \in Targets, q \in Stages : Enters(w, t, q)
  BY LockEnters
<1>2. /\ pc[w] = q[1] /\ pc'[w] = q[2] /\ op'[w] = op[w] /\ Others(w)
      /\ UNCHANGED scheduler_token
      /\ loc'[w].arg = loc[w].arg /\ loc'[w].stop = loc[w].stop /\ loc'[w].target = t
      /\ q[1] = "rollback_lock" => loc[w].target = t
      /\ q[1] # "rollback_lock" => token[t] = loc[w].arg
      /\ life[t].state = q[3] /\ life'[t].state = q[4]
      /\ \A s \in Targets \ {t} : life'[s].state = life[s].state
      /\ UNCHANGED token /\ UNCHANGED next_token /\ UNCHANGED handle
      /\ UNCHANGED current_handle
  BY <1>1 DEF Enters, target_vars, worker_vars
<1>3. /\ q[1] = "rollback_lock" =>
            q[2] = "rollback_count" /\ q[3] = "ACTIVE" /\ q[4] = "RECLAIMING"
      /\ q[1] = "quiesce_lock" =>
            q[2] = "quiesce_count" /\ q[3] = "ACTIVE" /\ q[4] = "STOPPING"
      /\ q[1] = "release_lock" =>
            q[2] = "release_wait" /\ q[3] = "STOPPING" /\ q[4] = "RECLAIMING"
      /\ q[1] \in {"rollback_lock", "quiesce_lock", "release_lock"}
  BY DEF Stages
<1>4. /\ q[1] = "rollback_lock" => op[w] = "start"
      /\ q[1] = "quiesce_lock" => op[w] = "quiesce"
      /\ q[1] = "release_lock" => op[w] = "release"
  BY <1>2 DEF HInv, Local, Rollback, SlotsInv, Publisher, Matches
<1>5. Owner(w)
  BY DEF OwnersInv
<1>6. /\ loc[w].arg # 0 /\ token[t] = loc[w].arg
      /\ q[1] = "rollback_lock" => Started(w) /\ ~loc[w].stop
      /\ q[1] # "rollback_lock" => loc[w].stop
  BY <1>2, <1>3, <1>4, <1>5 DEF Owner, Opening, Closing, Started
<1>7. \A s \in Targets \ {t} : token[s] # loc[w].arg
  BY <1>6 DEF WordsInv
<1>8. HandlesApart' /\ Bridged'
  <2>1. \A s \in Targets : life'[s].state = "FREE" => life[s].state = "FREE"
    BY <1>2, <1>3
  <2> QED
    BY <1>2, <2>1 DEF OwnersInv, HandlesApart, Bridged
<1>9. Owner(w)'
  <2>1. CASE q[1] = "rollback_lock"
    <3>1. Started(w)' /\ pc'[w] \in Reclaiming
      BY <1>2, <1>3, <1>4, <2>1 DEF Started, Reclaiming, Rollback
    <3>2. Opening(w)'
      BY <1>2, <1>3, <1>5, <1>6, <2>1, <3>1 DEF Owner, Opening, Running
    <3>3. Serving(w)' /\ Closing(w)'
      BY <1>2, <1>3, <1>4, <1>6, <2>1 DEF Serving, Closing, Late
    <3> QED
      BY <1>2, <1>5, <3>2, <3>3 DEF Owner
  <2>2. CASE q[1] # "rollback_lock"
    <3>1. /\ op'[w] \in {"quiesce", "release"} /\ loc'[w].stop
          /\ pc'[w] \in {"quiesce_count", "release_wait"}
          /\ pc'[w] = "release_wait" => op'[w] = "release"
      BY <1>2, <1>3, <1>4, <1>6, <2>2
    <3>2. Opening(w)' /\ Serving(w)'
      BY <3>1 DEF Opening, Started, Serving
    <3>3. \A s \in Targets : token'[s] = loc'[w].arg =>
              life'[s].state = IF pc'[w] = "release_wait" THEN "RECLAIMING" ELSE "STOPPING"
      BY <1>2, <1>3, <1>7, <2>2
    <3>4. Closing(w)'
      BY <1>2, <1>6, <3>1, <3>3 DEF Closing
    <3> QED
      BY <1>2, <1>5, <3>2, <3>4 DEF Owner
  <2> QED
    BY <2>1, <2>2
<1>10. ASSUME NEW v \in Workers \ {w} PROVE Owner(v)' /\ Rivals(v, w)' /\ Rivals(w, v)'
  <2>1. Owner(v) /\ Rivals(w, v) /\ Rivals(v, w)
    BY DEF OwnersInv
  <2>2. Started(v) \/ loc[v].stop => loc[v].arg # loc[w].arg
    BY <1>6, <2>1 DEF Rivals, Owner, Closing, Started
  <2>3. Started(v) \/ loc[v].stop => \A s \in Targets : token[s] = loc[v].arg =>
               token'[s] = token[s] /\ handle'[s] = handle[s] /\ life'[s].state = life[s].state
    BY <1>2, <1>6, <2>2
  <2>4. next_token <= next_token' /\ current_handle'[v] = current_handle[v]
    BY <1>2 DEF HInv, TypeInv, LifeType
  <2>5. Started(v) => \A h \in Handles : scheduler_token'[h] # loc[v].arg
    BY <1>2, <2>1 DEF Owner, Opening
  <2>6. Owner(v)'
    BY <1>2, <2>3, <2>4, <2>5, OtherOwner
  <2>7. Started(w)' => Started(w)
    BY <1>2, <1>3, <1>4, <1>6 DEF Started
  <2>8. Rivals(v, w)' /\ Rivals(w, v)'
    BY <1>2, <2>1, <2>7 DEF Rivals, Started, Others
  <2> QED
    BY <2>6, <2>8
<1> QED
  BY <1>2, <1>8, <1>9, <1>10, OtherRivals

LEMMA EraseOwners ==
    ASSUME HInv, HInv', WordsInv, SlotsInv, OwnersInv, NEW w \in Workers,
           rollback_wait(w) \/ release_wait(w)
    PROVE  OwnersInv'
<1>1. PICK t \in Targets : Erases(w, t)
  BY FreeErases
<1>2. /\ pc[w] \in {"rollback_wait", "release_wait"} /\ loc[w].target = t
      /\ Others(w) /\ op'[w] = "none" /\ pc'[w] = "idle" /\ loc'[w].arg = 0 /\ ~loc'[w].stop
      /\ life[t].readers = 0 /\ life'[t].state = "FREE"
      /\ token'[t] = 0 /\ handle'[t] = NoHandle
      /\ \A s \in Targets \ {t} :
           life'[s].state = life[s].state /\ token'[s] = token[s] /\ handle'[s] = handle[s]
      /\ UNCHANGED next_token /\ UNCHANGED current_handle
  BY <1>1 DEF Erases, NoLoc
<1>3. \A h \in Handles : scheduler_token'[h] \in {0, scheduler_token[h]}
  BY <1>1 DEF Erases, ClosedBy, HInv, TypeInv, BridgeType
<1>4. next_token \in Nat
  BY DEF HInv, TypeInv, LifeType
<1>5. /\ loc[w].arg # 0 /\ token[t] = loc[w].arg
      /\ Started(w) \/ loc[w].stop
  <2>1. pc[w] = "rollback_wait" => Started(w)
    BY DEF HInv, Local, Rollback, Started
  <2> QED
    BY <1>2, <2>1 DEF OwnersInv, Owner, Opening, Closing
<1>6. HandlesApart'
  BY <1>2 DEF OwnersInv, HandlesApart
<1>7. Bridged'
  BY <1>2, <1>3, <1>4 DEF OwnersInv, Bridged
<1>8. Owner(w)'
  BY <1>2, <1>4 DEF Owner, Opening, Started, Serving, Closing, Late
<1>9. ASSUME NEW v \in Workers \ {w} PROVE Owner(v)' /\ Rivals(v, w)' /\ Rivals(w, v)'
  <2>1. Owner(v) /\ Rivals(w, v) /\ Rivals(v, w)
    BY DEF OwnersInv
  <2>2. Started(v) \/ loc[v].stop => loc[v].arg # loc[w].arg /\ loc[v].arg # 0
    BY <1>5, <2>1 DEF Rivals, Owner, Opening, Closing
  <2>3. Started(v) \/ loc[v].stop => \A s \in Targets : token[s] = loc[v].arg =>
            token'[s] = token[s] /\ handle'[s] = handle[s] /\ life'[s].state = life[s].state
    BY <1>2, <1>5, <2>2
  <2>4. loc[v].arg # 0 => \A s \in Targets : token'[s] = loc[v].arg =>
            token[s] = loc[v].arg /\ handle'[s] = handle[s]
    BY <1>2
  <2>5. pc[v] = "publish_even" => token'[loc[v].i] = token[loc[v].i]
    <3> SUFFICES ASSUME pc[v] = "publish_even" PROVE token'[loc[v].i] = token[loc[v].i]
      OBVIOUS
    <3>1. loc[v].i \in Targets /\ pin[<<v, "op">>] = loc[v].i
      BY DEF HInv, Local, ScanPcs, PinsMatch, OpPinned
    <3> DEFINE x == <<v, "op">>
    <3>3. x \in Holders /\ pin[x] = loc[v].i
      BY <3>1 DEF Holders, Levels
    <3> HIDE DEF x
    <3>2. life[loc[v].i].readers # 0
      BY <3>1, <3>3, TargetsAssumption DEF WordsInv
    <3> QED
      BY <1>2, <3>1, <3>2
  <2>6. Started(v) => \A h \in Handles : scheduler_token'[h] # loc[v].arg
    BY <1>3, <2>1, <2>2 DEF Owner, Opening
  <2>7. next_token <= next_token' /\ current_handle'[v] = current_handle[v]
    BY <1>2, <1>4
  <2>8. Owner(v)'
    BY <1>2, <2>3, <2>4, <2>5, <2>6, <2>7, OtherOwner
  <2>9. Rivals(v, w)' /\ Rivals(w, v)'
    BY <1>2, <2>2 DEF Rivals, Started, Others
  <2> QED
    BY <2>8, <2>9
<1> QED
  BY <1>2, <1>6, <1>7, <1>8, <1>9, OtherRivals

-----------------------------------------------------------------------------
(* OwnersInv is an invariant.                                              *)

LEMMA HandlerOwners ==
    ASSUME HInv, HInv', SlotsInv, OwnersInv, NEW w \in Workers,
           tick(w) \/ handler_enter(w) \/ Handler(w)
    PROVE  OwnersInv'
<1>1. StatesKept
  BY LifeKept, PinKeepsStates, UnpinKeepsStates
     DEF tick, handler_enter, Handler, handler_pin, handler_unpinned, handler_push,
         handler_reject, handler_stale_token, HandlerReturn
<1>2. /\ UNCHANGED pc /\ UNCHANGED op /\ UNCHANGED loc /\ UNCHANGED token
      /\ UNCHANGED next_token /\ UNCHANGED handle /\ UNCHANGED scheduler_token
      /\ UNCHANGED current_handle
  BY DEF tick, handler_enter, Handler, handler_pin, handler_unpinned, handler_push,
         handler_reject, handler_stale_token, HandlerReturn, life_vars, target_vars,
         worker_vars, control_vars
<1>3. \A v \in Workers \ {w} : irq'[v] = irq[v]
  BY DEF tick, handler_enter, Handler, handler_pin, handler_unpinned, handler_push,
         handler_reject, handler_stale_token, HandlerReturn, HInv, TypeInv, BridgeType
<1>4. Others(w) /\ SessionsStill /\ Same(loc'[w], loc[w])
  BY <1>1, <1>2, <1>3 DEF Others, SessionsStill, Same
<1>5. pc'[w] = "publish_even" => token[loc'[w].i] = loc[w].arg
  BY <1>2 DEF OwnersInv, Owner, Serving
<1> QED
  BY <1>2, <1>4, <1>5, OwnersOn

LEMMA InitOwners == Init => OwnersInv
<1> SUFFICES ASSUME Init PROVE OwnersInv
  OBVIOUS
<1>1. \A w \in Workers : /\ op[w] = "none" /\ pc[w] = "idle"
                         /\ loc[w].arg = 0 /\ ~loc[w].stop
  BY DEF Init, NoLoc
<1>2. HandlesApart /\ Bridged /\ next_token = 0
  BY DEF Init, HandlesApart, Bridged
<1> QED
  BY <1>1, <1>2 DEF OwnersInv, Owner, Opening, Started, Serving, Closing, Late, Rivals

LEMMA StepOwners ==
    ASSUME HInv, HInv', WordsInv, SlotsInv, OwnersInv, NEW w \in Workers, Thread(w)
    PROVE  OwnersInv'
<1>1. CASE Going(w) \/ Holding(w) \/ Ending(w)
  BY <1>1, GoingOwners, HoldingOwners, EndingOwners
<1>2. CASE start_refused(w) \/ leave_end(w)
  BY <1>2, RefusedOwners, LeaveEndOwners
<1>3. CASE start_select(w) \/ start_publish(w)
  BY <1>3, SelectOwners, PublishOwners
<1>4. CASE rollback_lock(w) \/ quiesce_lock(w) \/ release_lock(w)
  BY <1>4, LockOwners
<1>5. CASE rollback_wait(w) \/ release_wait(w)
  BY <1>5, EraseOwners
<1> QED
  BY <1>1, <1>2, <1>3, <1>4, <1>5 DEF Thread, Step, Lock, Going, Holding, Ending

LEMMA NextOwners ==
    ASSUME HInv, HInv', WordsInv, SlotsInv, OwnersInv, [Next]_vars
    PROVE  OwnersInv'
<1>1. CASE UNCHANGED vars
  <2>1. /\ UNCHANGED next_token /\ UNCHANGED token /\ UNCHANGED handle /\ UNCHANGED life
        /\ UNCHANGED current_handle /\ UNCHANGED scheduler_token
        /\ UNCHANGED op /\ UNCHANGED pc /\ UNCHANGED loc
    BY <1>1 DEF vars, life_vars, target_vars, worker_vars, control_vars
  <2>2. HandlesApart' /\ Bridged' /\ \A v, w \in Workers : Rivals(v, w)' = Rivals(v, w)
    BY <2>1 DEF OwnersInv, HandlesApart, Bridged, Rivals, Started
  <2>3. \A w \in Workers : Owner(w)' = Owner(w)
    BY <2>1 DEF Owner, Opening, Started, Serving, Closing, Late, Dispatching, Running
  <2> QED
    BY <2>2, <2>3 DEF OwnersInv
<1>2. CASE Next
  <2>1. PICK w \in Workers :
          Client(w) \/ Thread(w) \/ tick(w) \/ handler_enter(w) \/ Handler(w)
    BY <1>2 DEF Next
  <2> QED
    BY <2>1, ClientOwners, StepOwners, HandlerOwners
<1> QED
  BY <1>1, <1>2

LEMMA OwnersInvariance == Spec => []OwnersInv
  BY InitOwners, NextOwners, Invariance, WordsInvariance, SlotsInvariance, PTL DEF Spec

-----------------------------------------------------------------------------
(* Where a call stands, and where it goes.                                 *)

Failing == {"fail_scan", "fail_use"}
Finding == {"find", "find_pin", "find_use"}
Places(o) == CASE o = "none" -> {"idle"}
               [] o = "enter" -> Syncing \cup Failing \cup Finding
               [] o = "leave" -> Syncing \cup Failing \cup {"leave_end"}
               [] o = "start" -> Syncing \cup Failing \cup Rollback
                                 \cup {"start_lock", "start_hz", "start_count", "start_publish"}
               [] o = "quiesce" -> Syncing \cup Failing
                                   \cup {"quiesce_lock", "quiesce_count", "quiesce_hz",
                                         "quiesce_end", "quiesce_wait"}
               [] o = "release" -> {"release_lock", "release_wait"}
               [] o = "publish" -> Finding \cup {"publish_even", "publish_unpin"}
               [] OTHER -> Finding
PlacesInv == \A w \in Workers : pc[w] \in Places(op[w])

\* The steps inside a call.
GoesOn(w, p) == pc'[w] = p /\ loc'[w].i = loc[w].i
GoesNext(w, p) == pc'[w] = p /\ loc'[w].i = loc[w].i + 1
GoesBack(w, p) == pc'[w] = p /\ loc'[w].i = 1

LEMMA LocKeeps ==
    ASSUME NEW l \in LocType, l.i # 0
    PROVE  /\ Advanced(l).prev = l.prev /\ Rewound(l).prev = l.prev /\ Failed(l).prev = l.prev
           /\ \A n \in Nat : [l EXCEPT !.count = n].prev = l.prev
  BY DEF LocType, Advanced, Rewound, Failed

LEMMA GotoGoes ==
    ASSUME HInv, NEW w \in Workers, NEW p \in Pcs, Goto(w, p)
    PROVE  GoesOn(w, p) /\ loc'[w].prev = loc[w].prev
  BY GotoFacts DEF HInv, TypeInv, GoesOn

LEMMA NextGoes ==
    ASSUME HInv, NEW w \in Workers, NEW p \in Pcs, GotoWith(w, p, Advanced(loc[w]))
    PROVE  GoesNext(w, p) /\ loc'[w].prev = loc[w].prev
<1>1. loc[w] \in LocType /\ loc[w].i # 0
  BY DEF HInv, TypeInv, ControlType, Local
<1>2. PICK l \in LocType : l = Advanced(loc[w]) /\ l.i = loc[w].i + 1 /\ l.prev = loc[w].prev
  BY <1>1, LocIndex, LocKeeps
<1> QED
  BY <1>2, GotoWithFacts DEF HInv, TypeInv, GoesNext

LEMMA BackGoes ==
    ASSUME HInv, NEW w \in Workers, NEW p \in Pcs,
           GotoWith(w, p, Rewound(loc[w])) \/ GotoWith(w, p, Failed(loc[w]))
    PROVE  GoesBack(w, p) /\ loc'[w].prev = loc[w].prev
<1>1. loc[w] \in LocType /\ loc[w].i # 0
  BY DEF HInv, TypeInv, ControlType, Local
<1>2. PICK l \in LocType : GotoWith(w, p, l) /\ l.i = 1 /\ l.prev = loc[w].prev
  BY <1>1, LocIndex, LocKeeps
<1> QED
  BY <1>2, GotoWithFacts DEF HInv, TypeInv, GoesBack

LEMMA CountGoes ==
    ASSUME HInv, NEW w \in Workers, NEW p \in Pcs, NEW n \in Nat,
           GotoWith(w, p, [loc[w] EXCEPT !.count = n])
    PROVE  GoesOn(w, p) /\ loc'[w].prev = loc[w].prev
<1>1. loc[w] \in LocType /\ loc[w].i # 0
  BY DEF HInv, TypeInv, ControlType, Local
<1>2. PICK l \in LocType :
        GotoWith(w, p, l) /\ l.i = loc[w].i /\ l.prev = loc[w].prev
  BY <1>1, LocCount, LocKeeps
<1> QED
  BY <1>2, GotoWithFacts DEF HInv, TypeInv, GoesOn

LEMMA DiscardGoes ==
    ASSUME HInv, NEW w \in Workers
    PROVE  /\ discard_pin(w) => /\ pc[w] = "discard_pin" /\ GoesOn(w, "discard_use")
                                /\ loc'[w].prev = loc[w].prev
           /\ discard_unowned(w) => /\ pc[w] = "discard_pin" /\ GoesOn(w, "sync_count")
                                    /\ loc'[w].prev = loc[w].prev
           /\ discard_use(w) => /\ pc[w] = "discard_use" /\ GoesOn(w, "sync_count")
                                /\ loc'[w].prev = loc[w].prev
<1>1. {"discard_use", "sync_count"} \subseteq Pcs
  BY DEF Pcs
<1> QED
  BY <1>1, GotoGoes DEF discard_pin, discard_unowned, discard_use, AfterDiscard, At

LEMMA SyncGoes ==
    ASSUME HInv, NEW w \in Workers
    PROVE  /\ sync_count(w) => /\ pc[w] = "sync_count" /\ GoesOn(w, "sync_hz")
                               /\ loc'[w].prev = loc[w].prev
           /\ sync_hz(w) => /\ pc[w] = "sync_hz" /\ GoesOn(w, AfterSync[op[w]])
                            /\ loc'[w].prev = loc[w].prev
           /\ sync_fails(w) => /\ pc[w] = "sync_hz" /\ GoesBack(w, "fail_scan")
                               /\ loc'[w].prev = loc[w].prev
<1>1. /\ {"fail_scan", "sync_hz"} \subseteq Pcs /\ AfterSync[op[w]] \in Pcs
      /\ active_targets \in Nat /\ 0 \in Nat
  BY AfterSyncMatches DEF Pcs, HInv, TypeInv, ControlType, HostType
<1>2. sync_count(w) => /\ pc[w] = "sync_count"
                       /\ GotoWith(w, "sync_hz", [loc[w] EXCEPT !.count = active_targets])
  BY DEF sync_count, At
<1>3. sync_hz(w) => /\ pc[w] = "sync_hz"
                    /\ GotoWith(w, AfterSync[op[w]], [loc[w] EXCEPT !.count = 0])
  BY DEF sync_hz, At
<1>4. sync_fails(w) => pc[w] = "sync_hz" /\ GotoWith(w, "fail_scan", Failed(loc[w]))
  BY DEF sync_fails, At, Failed
<1> QED
  BY <1>1, <1>2, <1>3, <1>4, CountGoes, BackGoes

LEMMA FailGoes ==
    ASSUME HInv, NEW w \in Workers
    PROVE  /\ fail_pin(w) => /\ pc[w] = "fail_scan" /\ GoesOn(w, "fail_use")
                             /\ loc'[w].prev = loc[w].prev
           /\ fail_skip(w) => /\ pc[w] = "fail_scan" /\ GoesNext(w, "fail_scan")
                              /\ loc'[w].prev = loc[w].prev
           /\ fail_use(w) => /\ pc[w] = "fail_use" /\ GoesNext(w, "fail_scan")
                             /\ loc'[w].prev = loc[w].prev
           /\ fail_end(w) =>
                 /\ pc[w] = "fail_scan" /\ loc'[w].prev = loc[w].prev
                 /\ GoesBack(w, IF op[w] = "start" THEN "rollback_lock" ELSE AfterSync[op[w]])
<1>1. {"fail_scan", "fail_use", "rollback_lock"} \subseteq Pcs /\ AfterSync[op[w]] \in Pcs
  BY AfterSyncMatches DEF Pcs, HInv, TypeInv, ControlType
<1>2. fail_pin(w) => pc[w] = "fail_scan" /\ Goto(w, "fail_use")
  BY DEF fail_pin, At
<1>3. fail_skip(w) => pc[w] = "fail_scan" /\ GotoWith(w, "fail_scan", Advanced(loc[w]))
  BY DEF fail_skip, At, Advanced
<1>4. fail_use(w) => pc[w] = "fail_use" /\ GotoWith(w, "fail_scan", Advanced(loc[w]))
  BY DEF fail_use, At, Advanced
<1>5. fail_end(w) => /\ pc[w] = "fail_scan"
                     /\ GotoWith(w, IF op[w] = "start" THEN "rollback_lock"
                                    ELSE AfterSync[op[w]], Rewound(loc[w]))
  BY DEF fail_end, At, Rewound
<1> QED
  BY <1>1, <1>2, <1>3, <1>4, <1>5, GotoGoes, NextGoes, BackGoes

LEMMA FindGoes ==
    ASSUME HInv, NEW w \in Workers
    PROVE  /\ find(w) => /\ pc[w] = "find" /\ loc'[w].prev = loc[w].prev
                         /\ \/ GoesOn(w, "find_pin") /\ Found(w, loc[w].i)
                            \/ GoesNext(w, "find") /\ ~Found(w, loc[w].i)
           /\ find_pin(w) => /\ pc[w] = "find_pin" /\ GoesOn(w, "find_use")
                             /\ loc'[w].prev = loc[w].prev
           /\ find_missed(w) => /\ pc[w] = "find_pin" /\ GoesNext(w, "find")
                                /\ loc'[w].prev = loc[w].prev
           /\ find_lost(w) => /\ pc[w] = "find_use" /\ GoesNext(w, "find")
                              /\ loc'[w].prev = loc[w].prev
           /\ next_event(w) => /\ pc[w] = "find_use" /\ GoesBack(w, "find")
                               /\ loc'[w].prev = loc[w].prev
<1>1. {"find", "find_pin", "find_use"} \subseteq Pcs
  BY DEF Pcs
<1>2. find(w) => /\ pc[w] = "find"
                 /\ \/ Goto(w, "find_pin") /\ Found(w, loc[w].i)
                    \/ GotoWith(w, "find", Advanced(loc[w])) /\ ~Found(w, loc[w].i)
  BY DEF find, At, NextTarget, Advanced
<1>3. find_pin(w) => pc[w] = "find_pin" /\ Goto(w, "find_use")
  BY DEF find_pin, At
<1>4. find_missed(w) => pc[w] = "find_pin" /\ GotoWith(w, "find", Advanced(loc[w]))
  BY DEF find_missed, At, NextTarget, Advanced
<1>5. find_lost(w) => pc[w] = "find_use" /\ GotoWith(w, "find", Advanced(loc[w]))
  BY DEF find_lost, At, NextTarget, Advanced
<1>6. next_event(w) => pc[w] = "find_use" /\ GotoWith(w, "find", Rewound(loc[w]))
  BY DEF next_event, Use, At, Rewound
<1> QED
  BY <1>1, <1>2, <1>3, <1>4, <1>5, <1>6, GotoGoes, NextGoes, BackGoes

LEMMA EndGoes ==
    ASSUME HInv, NEW w \in Workers
    PROVE  /\ quiesce_end(w) => /\ pc[w] = "quiesce_end" /\ GoesOn(w, "quiesce_wait")
                                /\ loc'[w].prev = loc[w].prev
           /\ publish_odd(w) => /\ pc[w] = "find_use" /\ GoesOn(w, "publish_even")
                                /\ op[w] = "publish" /\ loc'[w].prev = loc[w].prev
<1>1. {"quiesce_wait", "publish_even"} \subseteq Pcs
  BY DEF Pcs
<1> QED
  BY <1>1, GotoGoes DEF quiesce_end, publish_odd, Use, At

LEMMA PlacesFrame ==
    ASSUME PlacesInv, NEW w \in Workers, Others(w), pc'[w] \in Places(op'[w])
    PROVE  PlacesInv'
  BY DEF PlacesInv, Others

LEMMA EntryPlaces == \A o \in Ops : Entry(o) \in Places(o)
  BY DEF Ops, Entry, Places, Syncing, Finding

LEMMA GoingPlaces ==
    ASSUME HInv, PlacesInv, NEW w \in Workers, Going(w)
    PROVE  PlacesInv'
<1>1. Others(w) /\ op'[w] = op[w] /\ op[w] \in Ops /\ pc[w] \in Places(op[w])
  BY GoingMoves DEF Moves, HInv, TypeInv, ControlType, PlacesInv
<1>2. \/ pc[w] \in {"discard_pin", "discard_use"} /\ pc'[w] \in {"discard_use", "sync_count"}
      \/ pc[w] = "sync_count" /\ pc'[w] = "sync_hz"
      \/ pc[w] = "sync_hz" /\ pc'[w] \in {AfterSync[op[w]], "fail_scan"}
      \/ pc[w] \in Failing /\ pc'[w] \in Failing
      \/ /\ pc[w] = "fail_scan"
         /\ pc'[w] = IF op[w] = "start" THEN "rollback_lock" ELSE AfterSync[op[w]]
      \/ pc[w] \in Finding /\ pc'[w] \in Finding
      \/ pc[w] = "quiesce_end" /\ pc'[w] = "quiesce_wait"
      \/ pc[w] = "find_use" /\ pc'[w] = "publish_even" /\ op[w] = "publish"
  <2>1. CASE discard_pin(w) \/ discard_unowned(w) \/ discard_use(w)
    BY <2>1, DiscardGoes DEF GoesOn
  <2>2. CASE sync_count(w) \/ sync_hz(w) \/ sync_fails(w)
    BY <2>2, SyncGoes DEF GoesOn, GoesBack
  <2>3. CASE fail_pin(w) \/ fail_skip(w) \/ fail_use(w) \/ fail_end(w)
    BY <2>3, FailGoes DEF GoesOn, GoesNext, GoesBack, Failing
  <2>4. CASE find(w) \/ find_pin(w) \/ find_missed(w) \/ find_lost(w) \/ next_event(w)
    BY <2>4, FindGoes DEF GoesOn, GoesNext, GoesBack, Finding
  <2>5. CASE quiesce_end(w) \/ publish_odd(w)
    BY <2>5, EndGoes DEF GoesOn
  <2> QED
    BY <2>1, <2>2, <2>3, <2>4, <2>5 DEF Going
<1>3. pc[w] \in Syncing \cup Failing => op[w] \in {"enter", "leave", "start", "quiesce"}
  BY <1>1 DEF Places, Syncing, Failing, Finding, Ops
<1>4. op[w] \in {"enter", "leave", "start", "quiesce"} => AfterSync[op[w]] \in Places(op[w])
  BY <1>1 DEF Places, AfterSync, Finding, Ops
<1>5. pc'[w] \in Places(op[w])
  <2>1. CASE pc[w] \in Syncing \cup Failing
    BY <1>2, <1>3, <1>4, <2>1 DEF Places, Syncing, Failing, Finding, Rollback
  <2>2. CASE pc[w] \notin Syncing \cup Failing
    BY <1>1, <1>2, <2>2 DEF Places, Syncing, Failing, Finding, Ops, Rollback
  <2> QED
    BY <2>1, <2>2
<1> QED
  BY <1>1, <1>5, PlacesFrame

LEMMA HoldingPlaces ==
    ASSUME HInv, PlacesInv, NEW w \in Workers, Holding(w)
    PROVE  PlacesInv'
<1>1. /\ Others(w) /\ op'[w] = op[w] /\ op[w] \in Ops /\ pc[w] \in Places(op[w])
      /\ <<pc[w], pc'[w]>> \in
                 {<<"start_hz", "start_count">>, <<"start_count", "discard_pin">>,
                  <<"rollback_hz", "rollback_wait">>, <<"quiesce_hz", "discard_pin">>,
                  <<"rollback_count", "rollback_hz">>, <<"quiesce_count", "quiesce_hz">>,
                  <<"publish_even", "publish_unpin">>}
  BY HoldingMoves DEF HInv, TypeInv, ControlType, PlacesInv
<1>2. pc'[w] \in Places(op[w])
  BY <1>1 DEF Places, Syncing, Failing, Finding, Rollback, Ops
<1> QED
  BY <1>1, <1>2, PlacesFrame

\* A call begins, or one ends and the next begins.
LEMMA CallPlaces ==
    ASSUME HInv, PlacesInv, NEW w \in Workers,
           \/ Ending(w) \/ leave_end(w) \/ start_refused(w) \/ start_publish(w)
           \/ rollback_wait(w) \/ release_wait(w)
    PROVE  PlacesInv'
<1>1. \E o \in Ops : ReturnTo(w, o)
  <2>1. CASE Return(w)
    <3>1. PICK o \in After(op[w], loc[w].stop) \cap Ops : NextCall(w, o)
      BY <2>1, Returns
    <3>2. op[w] \in Ops /\ loc[w].stop \in BOOLEAN
      BY LocFields DEF HInv, TypeInv, ControlType
    <3> QED
      BY <2>1, <3>2, AfterIsNew DEF Return
  <2>2. CASE ~Return(w)
    <3>1. {"none", "end"} \subseteq Ops
      BY DEF Ops
    <3> QED
      BY <2>2, <3>1, EndingReturns
         DEF leave_end, start_refused, start_publish, rollback_wait, release_wait
  <2> QED
    BY <2>1, <2>2
<1>2. PICK o \in Ops : ReturnTo(w, o)
  BY <1>1
<1>3. Others(w) /\ pc'[w] = Entry(o) /\ op'[w] = o
  BY <1>2, ReturnToFacts DEF HInv, TypeInv
<1> QED
  BY <1>3, EntryPlaces, PlacesFrame

LEMMA ClientPlaces ==
    ASSUME HInv, PlacesInv, NEW w \in Workers, Client(w)
    PROVE  PlacesInv'
<1>1. PICK o \in Ops : \E l : Call(w, o, l) /\ UNCHANGED irq
  <2>1. {"enter", "leave", "start", "begin", "publish"} \subseteq Ops
    BY DEF Ops
  <2> QED
    BY <2>1 DEF Client, dispatch_enter, dispatch_leave, Withdraw, target_start, profiler_work,
                publish_state, stop_collector
<1>2. Others(w) /\ pc'[w] = Entry(o) /\ op'[w] = o
  BY <1>1 DEF Call, HInv, TypeInv, ControlType, Others
<1> QED
  BY <1>2, EntryPlaces, PlacesFrame

LEMMA LockPlaces ==
    ASSUME HInv, SlotsInv, PlacesInv, NEW w \in Workers,
           start_select(w) \/ rollback_lock(w) \/ quiesce_lock(w) \/ release_lock(w)
    PROVE  PlacesInv'
<1>1. op[w] \in Ops /\ pc[w] \in Places(op[w])
  BY DEF HInv, TypeInv, ControlType, PlacesInv
<1>2. /\ Others(w) /\ op'[w] = op[w]
      /\ <<pc[w], pc'[w]>> \in
            {<<"start_lock", "start_hz">>, <<"rollback_lock", "rollback_count">>,
             <<"quiesce_lock", "quiesce_count">>, <<"release_lock", "release_wait">>}
  <2>1. CASE start_select(w)
    BY <2>1, SelectOpens DEF Opens
  <2>2. CASE rollback_lock(w) \/ quiesce_lock(w) \/ release_lock(w)
    <3>1. PICK t \in Targets, q \in Stages : Enters(w, t, q)
      BY <2>2, LockEnters
    <3>2. pc[w] = q[1] /\ pc'[w] = q[2] /\ op'[w] = op[w] /\ Others(w)
      BY <3>1 DEF Enters
    <3>3. <<q[1], q[2]>> \in
            {<<"start_lock", "start_hz">>, <<"rollback_lock", "rollback_count">>,
             <<"quiesce_lock", "quiesce_count">>, <<"release_lock", "release_wait">>}
      BY DEF Stages
    <3> QED
      BY <3>2, <3>3
  <2> QED
    BY <2>1, <2>2
<1>3. pc'[w] \in Places(op[w])
  BY <1>1, <1>2 DEF Places, Syncing, Failing, Finding, Rollback, Ops
<1> QED
  BY <1>2, <1>3, PlacesFrame

LEMMA NextPlaces ==
    ASSUME HInv, SlotsInv, PlacesInv, [Next]_vars
    PROVE  PlacesInv'
<1>1. CASE UNCHANGED pc /\ UNCHANGED op
  BY <1>1 DEF PlacesInv
<1>2. CASE UNCHANGED vars
  BY <1>1, <1>2 DEF vars, control_vars
<1>3. CASE Next
  <2>1. PICK w \in Workers :
          Client(w) \/ Thread(w) \/ tick(w) \/ handler_enter(w) \/ Handler(w)
    BY <1>3 DEF Next
  <2>2. CASE Client(w)
    BY <2>2, ClientPlaces
  <2>3. CASE Thread(w)
    BY <2>3, GoingPlaces, HoldingPlaces, CallPlaces, LockPlaces
       DEF Thread, Step, Lock, Going, Holding, Ending
  <2>4. CASE tick(w) \/ handler_enter(w) \/ Handler(w)
    BY <1>1, <2>4
       DEF tick, handler_enter, Handler, handler_pin, handler_unpinned, handler_push,
           handler_reject, handler_stale_token, HandlerReturn, control_vars
  <2> QED
    BY <2>1, <2>2, <2>3, <2>4
<1> QED
  BY <1>2, <1>3

LEMMA PlacesInvariance == Spec => []PlacesInv
<1>1. Init => PlacesInv
  BY DEF Init, PlacesInv, Places
<1> QED
  BY <1>1, NextPlaces, Invariance, SlotsInvariance, PTL DEF Spec

-----------------------------------------------------------------------------
(* The inductive invariant: what a service is told of its timer.           *)

Reported(w, t) == armed_hz[w] = sample_hz[t] \/ "timer_failures" \in quality[t]

\* A dispatch that looks for its service's session has not gone past it; the timer
\* runs at its frequency, or the failure is counted, or will be by the scan that is
\* under way; and from then on the session is published.
Told(w) == \A t \in Active : Runs(w, t) =>
    /\ op[w] = "enter" /\ pc[w] \notin Failing => loc[w].i <= t
    /\ op[w] = "enter" /\ pc[w] \notin Syncing =>
          Reported(w, t) \/ (pc[w] \in Failing /\ loc[w].i <= t)
    /\ pc[w] = "start_publish" => armed_hz[w] = sample_hz[t]
    /\ op[w] \notin {"enter", "leave"} /\ ~Started(w) => Publishes(w, t)

ReportInv == \A w \in Workers : Told(w)

\* A live session is the same after a step, and its counted failures stay counted.
Counting(t) == "timer_failures" \in quality[t] => "timer_failures" \in quality'[t]
Carried(t) ==
    /\ t \in Active /\ handle'[t] = handle[t] /\ token'[t] = token[t]
    /\ sample_hz'[t] = sample_hz[t] /\ Counting(t)

LEMMA ReportFrame ==
    ASSUME ReportInv, NEW w \in Workers, Others(w),
           \A v \in Workers \ {w} :
              /\ slot'[v] = slot[v] /\ armed_hz'[v] = armed_hz[v]
              /\ current_handle'[v] = current_handle[v],
           \A v \in Workers \ {w}, t \in Active' : Runs(v, t)' => Carried(t),
           Told(w)'
    PROVE  ReportInv'
<1>1. ASSUME NEW v \in Workers \ {w}
      PROVE  Told(v)'
  <2> SUFFICES ASSUME NEW t \in Active', Runs(v, t)'
               PROVE  /\ op[v] = "enter" /\ pc[v] \notin Failing => loc[v].i <= t
                      /\ op[v] = "enter" /\ pc[v] \notin Syncing =>
                            Reported(v, t)' \/ (pc[v] \in Failing /\ loc[v].i <= t)
                      /\ pc[v] = "start_publish" => armed_hz'[v] = sample_hz'[t]
                      /\ op[v] \notin {"enter", "leave"} /\ ~Started(v) => Publishes(v, t)'
    BY DEF Told, Others, Started
  <2>1. Carried(t)
    OBVIOUS
  <2>2. Runs(v, t) /\ t \in Active
    BY <2>1 DEF Carried, Runs, Dispatching, Running
  <2>3. /\ Reported(v, t) => Reported(v, t)'
        /\ Publishes(v, t) => Publishes(v, t)'
        /\ armed_hz[v] = sample_hz[t] => armed_hz'[v] = sample_hz'[t]
    BY <2>1 DEF Carried, Counting, Reported, Publishes
  <2>4. Told(v)
    BY DEF ReportInv
  <2> QED
    BY <2>2, <2>3, <2>4 DEF Told
<1> QED
  BY <1>1 DEF ReportInv

\* The sessions as they are, with their counted failures.
SessionsKept ==
    SessionsStill /\ UNCHANGED sample_hz /\ \A t \in Targets : Counting(t)

LEMMA KeptCarries ==
    ASSUME SessionsKept
    PROVE  Active' = Active /\ Active \subseteq Targets /\ \A t \in Active' : Carried(t)
<1>1. Active' = Active /\ Active \subseteq Targets
  BY ActiveKept DEF SessionsKept, SessionsStill, Active
<1> QED
  BY <1>1 DEF SessionsKept, SessionsStill, Carried

LEMMA GoingKeeps ==
    ASSUME HInv, NEW w \in Workers, Going(w)
    PROVE  /\ SessionsKept /\ UNCHANGED slot /\ UNCHANGED current_handle
           /\ ~sync_hz(w) => UNCHANGED armed_hz
           /\ \A v \in Workers \ {w} : armed_hz'[v] = armed_hz[v]
<1>1. Calm /\ SessionsStill
  BY GoingMoves
<1>2. \A t \in Targets : Counting(t)
  BY SMTT(30) DEF Going, discard_pin, fail_pin, find_pin, discard_use, fail_use, find_lost, next_event,
         find, find_missed, fail_skip, fail_end, sync_count, sync_hz, sync_fails,
         discard_unowned, quiesce_end, publish_odd, target_vars, Count, Counting,
         HInv, TypeInv, TargetType
<1>3. ~sync_hz(w) => UNCHANGED armed_hz
  BY DEF Going, discard_pin, fail_pin, find_pin, discard_use, fail_use, find_lost, next_event,
         find, find_missed, fail_skip, fail_end, sync_count, sync_fails,
         discard_unowned, quiesce_end, publish_odd, worker_vars
<1>4. \A v \in Workers \ {w} : armed_hz'[v] = armed_hz[v]
  BY <1>3 DEF sync_hz, HInv, TypeInv, WorkerType
<1> QED
  BY <1>1, <1>2, <1>3, <1>4 DEF SessionsKept, Calm

LEMMA GoingTold ==
    ASSUME HInv, SlotsInv, CountsInv, TimersInv, PlacesInv, ReportInv, NEW w \in Workers, Going(w)
    PROVE  ReportInv'
<1>1. /\ Moves(w) /\ SessionsKept /\ UNCHANGED slot /\ UNCHANGED current_handle
      /\ ~sync_hz(w) => UNCHANGED armed_hz
      /\ \A v \in Workers \ {w} : armed_hz'[v] = armed_hz[v]
  BY GoingMoves, GoingKeeps
<1>2. Others(w) /\ op'[w] = op[w] /\ Started(w)' = Started(w)
  BY <1>1 DEF Moves, Apart, Started
<1>3. Active' = Active /\ Active \subseteq Targets /\ \A t \in Active' : Carried(t)
  BY <1>1, KeptCarries
<1>4. ASSUME NEW t \in Active, Runs(w, t)
      PROVE  /\ op[w] = "enter" /\ pc'[w] \notin Failing => loc'[w].i <= t
             /\ op[w] = "enter" /\ pc'[w] \notin Syncing =>
                   Reported(w, t)' \/ (pc'[w] \in Failing /\ loc'[w].i <= t)
             /\ pc'[w] = "start_publish" => armed_hz'[w] = sample_hz'[t]
  <2>1. /\ t \in Targets /\ t \in Nat /\ 1 <= t /\ t <= NumTargets /\ NumTargets \in Nat
        /\ loc[w].i \in Nat /\ op[w] \in Ops /\ Carried(t)
    BY <1>3, TargetsAssumption, LocFields DEF Targets, HInv, TypeInv, ControlType
  <2>2. /\ op[w] = "enter" /\ pc[w] \notin Failing => loc[w].i <= t
        /\ op[w] = "enter" /\ pc[w] \notin Syncing =>
              Reported(w, t) \/ (pc[w] \in Failing /\ loc[w].i <= t)
    BY <1>4 DEF ReportInv, Told
  <2>3. ~sync_hz(w) /\ Reported(w, t) => Reported(w, t)'
    BY <1>1, <2>1 DEF Reported, Carried, Counting
  <2>4. op[w] \in {"enter", "start"} =>
          AfterSync[op[w]] = IF op[w] = "enter" THEN "find" ELSE "start_publish"
    BY <2>1 DEF AfterSync
  <2>5. "find" \notin Failing \cup Syncing /\ "start_publish" \notin Failing \cup Syncing
    BY DEF Failing, Syncing
  <2>6. CASE discard_pin(w) \/ discard_unowned(w) \/ discard_use(w) \/ sync_count(w)
    <3>1. pc[w] \in Syncing /\ pc'[w] \in Syncing /\ loc'[w].i = loc[w].i
      BY <2>6, DiscardGoes, SyncGoes DEF GoesOn, Syncing
    <3>2. pc[w] \notin Failing /\ pc'[w] # "start_publish"
      BY <3>1 DEF Failing, Syncing
    <3> QED
      BY <2>2, <3>1, <3>2
  <2>7. CASE sync_hz(w)
    <3>1. pc[w] = "sync_hz" /\ GoesOn(w, AfterSync[op[w]])
      BY <2>7, SyncGoes
    <3>2. loc[w].count # 0
      BY <1>4, <3>1 DEF TimersInv, Timed
    <3>3. active_sample_hz = sample_hz[t]
      BY <1>4, <3>1, CountedSession DEF Adding
    <3>4. armed_hz'[w] = sample_hz'[t]
      BY <2>1, <2>7, <3>2, <3>3 DEF sync_hz, WantedHz, HInv, TypeInv, WorkerType, Carried
    <3>5. pc[w] \notin Failing
      BY <3>1 DEF Failing
    <3> QED
      BY <2>2, <2>4, <2>5, <3>1, <3>4, <3>5 DEF Reported, GoesOn
  <2>8. CASE sync_fails(w)
    <3>1. GoesBack(w, "fail_scan")
      BY <2>8, SyncGoes
    <3> QED
      BY <2>1, <3>1 DEF GoesBack, Failing
  <2>9. CASE fail_pin(w) \/ fail_skip(w) \/ fail_use(w)
    <3>1. /\ pc[w] \in Failing /\ pc'[w] \in Failing /\ ~sync_hz(w)
          /\ fail_pin(w) \/ loc'[w].i = loc[w].i + 1
          /\ fail_pin(w) => loc'[w].i = loc[w].i
      BY <2>9, FailGoes, SyncGoes DEF GoesOn, GoesNext, Failing
    <3>2. pc[w] \notin Syncing /\ pc'[w] # "start_publish"
      BY <3>1 DEF Failing, Syncing
    <3>3. ~fail_pin(w) /\ loc[w].i = t => "timer_failures" \in quality'[t]
      BY <1>4, <2>1, <2>9 DEF fail_skip, fail_use, Count, HInv, TypeInv, TargetType, Active
    <3>4. (fail_pin(w) \/ loc[w].i # t) /\ loc[w].i <= t => loc'[w].i <= t
      BY <2>1, <3>1
    <3> QED
      BY <2>2, <2>3, <3>1, <3>2, <3>3, <3>4 DEF Reported
  <2>10. CASE fail_end(w)
    <3>1. /\ pc[w] = "fail_scan"
          /\ GoesBack(w, IF op[w] = "start" THEN "rollback_lock" ELSE AfterSync[op[w]])
          /\ ~sync_hz(w) /\ loc[w].i > NumTargets
      BY <2>10, FailGoes, SyncGoes DEF fail_end
    <3>2. op[w] = "enter" => Reported(w, t)
      BY <2>1, <2>2, <3>1 DEF Syncing
    <3>3. op[w] # "enter" => pc'[w] # "start_publish"
      BY <2>1, <3>1 DEF GoesBack, AfterSync
    <3> QED
      BY <2>1, <2>3, <2>4, <2>5, <3>1, <3>2, <3>3 DEF GoesBack
  <2>11. CASE find(w) \/ find_pin(w) \/ find_missed(w) \/ find_lost(w)
    <3>1. /\ pc[w] \in Finding /\ pc'[w] \in Finding /\ ~sync_hz(w)
          /\ \/ loc'[w].i = loc[w].i
             \/ loc'[w].i = loc[w].i + 1 /\ ~find_pin(w) /\ (find(w) => ~Found(w, loc[w].i))
      BY <2>11, FindGoes, SyncGoes DEF GoesOn, GoesNext, Finding
    <3>2. /\ pc[w] \notin Syncing \cup Failing /\ pc'[w] \notin Syncing \cup Failing
          /\ pc'[w] # "start_publish"
      BY <3>1 DEF Finding, Failing, Syncing
    <3>3. op[w] = "enter" /\ loc'[w].i = loc[w].i + 1 => loc[w].i # t
      <4> SUFFICES ASSUME op[w] = "enter", loc'[w].i = loc[w].i + 1, loc[w].i = t PROVE FALSE
        OBVIOUS
      <4>1. /\ ~find_pin(w) /\ (find(w) => ~Found(w, t))
        BY <2>1, <3>1
      <4>2. Allowed(w) = {"ACTIVE"} /\ Wanted(w, t) /\ life[t].state = "ACTIVE"
        BY <1>4 DEF Allowed, Wanted, Runs, Active
      <4> QED
        BY <2>11, <4>1, <4>2 DEF Found, find_missed, find_lost
    <3> QED
      BY <2>1, <2>2, <2>3, <3>1, <3>2, <3>3
  <2>12. CASE next_event(w) \/ quiesce_end(w) \/ publish_odd(w)
    <3>1. op[w] # "enter" /\ pc'[w] # "start_publish"
      <4>1. next_event(w) => op[w] = "next" /\ pc'[w] = "find"
        BY FindGoes DEF next_event, Use, GoesBack
      <4>2. publish_odd(w) => op[w] = "publish" /\ pc'[w] = "publish_even"
        BY EndGoes DEF GoesOn
      <4>3. quiesce_end(w) => pc[w] = "quiesce_end" /\ pc'[w] = "quiesce_wait"
        BY EndGoes DEF GoesOn
      <4>4. pc[w] = "quiesce_end" => op[w] # "enter"
        BY DEF PlacesInv, Places, Syncing, Failing, Finding
      <4> QED
        BY <2>12, <4>1, <4>2, <4>3, <4>4
    <3> QED
      BY <3>1
  <2> QED
    BY <2>6, <2>7, <2>8, <2>9, <2>10, <2>11, <2>12 DEF Going
<1>5. Told(w)'
  <2> SUFFICES ASSUME NEW t \in Active', Runs(w, t)'
               PROVE  /\ op[w] = "enter" /\ pc'[w] \notin Failing => loc'[w].i <= t
                      /\ op[w] = "enter" /\ pc'[w] \notin Syncing =>
                            Reported(w, t)' \/ (pc'[w] \in Failing /\ loc'[w].i <= t)
                      /\ pc'[w] = "start_publish" => armed_hz'[w] = sample_hz'[t]
                      /\ op[w] \notin {"enter", "leave"} /\ ~Started(w) => Publishes(w, t)'
    BY <1>2 DEF Told
  <2>1. t \in Active /\ Runs(w, t) /\ Carried(t)
    BY <1>1, <1>3 DEF Runs, Dispatching, Running, Carried
  <2>2. op[w] \notin {"enter", "leave"} /\ ~Started(w) => Publishes(w, t)
    BY <2>1 DEF ReportInv, Told
  <2>3. Publishes(w, t) => Publishes(w, t)'
    BY <1>1, <2>1 DEF Publishes, Carried
  <2> QED
    BY <1>4, <2>1, <2>2, <2>3
<1> QED
  BY <1>1, <1>2, <1>3, <1>5, ReportFrame

LEMMA HoldingKeeps ==
    ASSUME HInv, NEW w \in Workers, Holding(w)
    PROVE  /\ SessionsKept /\ UNCHANGED armed_hz
           /\ \A v \in Workers \ {w} : slot'[v] = slot[v]
<1>1. SessionsStill
  BY HoldingMoves
<1>2. UNCHANGED sample_hz /\ UNCHANGED quality /\ UNCHANGED armed_hz
  BY DEF Holding, start_hz, start_count, rollback_hz, quiesce_hz, drop_count, publish_even,
         target_vars, worker_vars
<1>3. \A v \in Workers \ {w} : slot'[v] = slot[v]
  BY DEF Holding, start_hz, start_count, rollback_hz, quiesce_hz, drop_count, publish_even,
         worker_vars, PublishMasked, HInv, TypeInv, WorkerType
<1> QED
  BY <1>1, <1>2, <1>3 DEF SessionsKept, Counting

\* The target that a thread publishes is that of its service.
LEMMA OwnTarget ==
    ASSUME OwnersInv, NEW w \in Workers, NEW s \in Targets, NEW t \in Targets,
           Runs(w, s), Runs(w, t)
    PROVE  s = t
  BY DEF OwnersInv, HandlesApart, Runs, Dispatching

LEMMA HoldingTold ==
    ASSUME HInv, SlotsInv, PlacesInv, OwnersInv, ReportInv, NEW w \in Workers, Holding(w)
    PROVE  ReportInv'
<1>1. /\ Others(w) /\ UNCHANGED current_handle
      /\ op'[w] = op[w]
      /\ <<pc[w], pc'[w]>> \in
            {<<"start_hz", "start_count">>, <<"start_count", "discard_pin">>,
             <<"rollback_hz", "rollback_wait">>, <<"quiesce_hz", "discard_pin">>,
             <<"rollback_count", "rollback_hz">>, <<"quiesce_count", "quiesce_hz">>,
             <<"publish_even", "publish_unpin">>}
  BY HoldingMoves
<1>2. SessionsKept /\ UNCHANGED armed_hz /\ \A v \in Workers \ {w} : slot'[v] = slot[v]
  BY HoldingKeeps
<1>3. Active' = Active /\ Active \subseteq Targets /\ \A t \in Active' : Carried(t)
  BY <1>2, KeptCarries
<1>4. op[w] # "enter" /\ pc'[w] # "start_publish" /\ (Started(w)' <=> Started(w))
  <2>1. pc[w] \in Places(op[w])
    BY DEF PlacesInv
  <2>2. op[w] # "enter"
    BY <1>1, <2>1 DEF Places, Syncing, Failing, Finding
  <2> QED
    BY <1>1, <2>2 DEF Started
<1>5. ASSUME NEW t \in Active, Runs(w, t), op[w] \notin {"enter", "leave"}, ~Started(w)
      PROVE  Publishes(w, t)'
  <2>1. Publishes(w, t) /\ t \in Targets /\ UNCHANGED token
    BY <1>2, <1>3, <1>5 DEF ReportInv, Told, SessionsKept, SessionsStill
  <2>2. CASE publish_even(w)
    <3>1. pc[w] = "publish_even" /\ op[w] = "publish" /\ loc[w].i \in Targets
      BY <2>2 DEF publish_even, At, SlotsInv, Publisher, Matches, HInv, Local, ScanPcs
    <3>2. token[loc[w].i] = loc[w].arg /\ handle[loc[w].i] = Running(w) /\ Dispatching(w)
      BY <3>1 DEF OwnersInv, Owner, Serving, Closing
    <3>3. loc[w].i = t
      BY <1>5, <2>1, <3>1, <3>2, OwnTarget DEF Runs
    <3>4. slot'[w] = [target |-> loc[w].i, token |-> loc[w].arg, vm |-> Running(w)]
      BY <2>2 DEF publish_even, PublishMasked, HInv, TypeInv, WorkerType
    <3> QED
      BY <2>1, <3>2, <3>3, <3>4 DEF Publishes
  <2>3. CASE quiesce_hz(w)
    <3>1. pc[w] = "quiesce_hz" /\ op[w] = "quiesce"
      BY <2>3 DEF quiesce_hz, At, PlacesInv, Places, Syncing, Failing, Finding, Rollback
    <3>2. loc[w].target \in Targets /\ life[loc[w].target].state = "STOPPING"
      BY <3>1 DEF OwnersInv, Owner, Closing, Late, HInv, Local, OwnsTarget
    <3>3. slot[w].target # loc[w].target
      BY <1>5, <2>1, <3>2 DEF Active, Publishes
    <3>4. slot'[w] = slot[w]
      BY <2>3, <3>3 DEF quiesce_hz, PublishMasked, HInv, TypeInv, WorkerType
    <3> QED
      BY <2>1, <3>4 DEF Publishes
  <2>4. CASE \/ drop_count(w, "quiesce_count", "quiesce_hz")
             \/ drop_count(w, "rollback_count", "rollback_hz") \/ rollback_hz(w) \/ start_hz(w)
    BY <2>1, <2>4 DEF drop_count, rollback_hz, start_hz, worker_vars, Publishes
  <2>5. CASE start_count(w)
    BY <1>5, <2>5 DEF start_count, At, SlotsInv, Publisher, Matches, Started
  <2> QED
    BY <2>2, <2>3, <2>4, <2>5 DEF Holding
<1>6. Told(w)'
  <2> SUFFICES ASSUME NEW t \in Active', Runs(w, t)', op[w] \notin {"enter", "leave"}, ~Started(w)
               PROVE  Publishes(w, t)'
    BY <1>1, <1>4 DEF Told
  <2>1. t \in Active /\ Runs(w, t)
    BY <1>1, <1>3 DEF Runs, Dispatching, Running, Carried
  <2> QED
    BY <1>5, <2>1
<1> QED
  BY <1>1, <1>2, <1>3, <1>6, ReportFrame

LEMMA EndingKeeps ==
    ASSUME HInv, NEW w \in Workers, Ending(w)
    PROVE  /\ SessionsStill /\ UNCHANGED sample_hz /\ UNCHANGED armed_hz
           /\ UNCHANGED current_handle
           /\ ~bind_dispatch(w) => UNCHANGED slot
           /\ \A v \in Workers \ {w} : slot'[v] = slot[v]
           /\ ~take_quality(w) => UNCHANGED quality
           /\ take_quality(w) =>
                 \A t \in Targets \ {loc[w].i} : quality'[t] = quality[t]
<1>1. SessionsStill /\ UNCHANGED current_handle
  BY EndingReturns
<1>2. /\ UNCHANGED sample_hz /\ UNCHANGED armed_hz
      /\ ~bind_dispatch(w) => UNCHANGED slot
  BY DEF Ending, find_none, publish_unpin, next_empty, take_quality, event_drain, quiesce_wait,
         bind_dispatch, UnpinAndReturn, target_vars, worker_vars
<1>3. \A v \in Workers \ {w} : slot'[v] = slot[v]
  BY <1>2 DEF bind_dispatch, PublishMasked, HInv, TypeInv, WorkerType
<1>4. ~take_quality(w) => UNCHANGED quality
  BY DEF Ending, find_none, publish_unpin, next_empty, event_drain, quiesce_wait,
         bind_dispatch, UnpinAndReturn, target_vars
<1>5. take_quality(w) => \A t \in Targets \ {loc[w].i} : quality'[t] = quality[t]
  BY DEF take_quality, HInv, TypeInv, TargetType
<1> QED
  BY <1>1, <1>2, <1>3, <1>4, <1>5

LEMMA EndingTold ==
    ASSUME HInv, SlotsInv, PlacesInv, OwnersInv, ReportInv, NEW w \in Workers, Ending(w)
    PROVE  ReportInv'
<1>1. /\ SessionsStill /\ UNCHANGED sample_hz /\ UNCHANGED armed_hz /\ UNCHANGED current_handle
      /\ ~bind_dispatch(w) => UNCHANGED slot
      /\ \A v \in Workers \ {w} : slot'[v] = slot[v]
      /\ Return(w) /\ pc[w] \in {"find", "find_use", "publish_unpin", "quiesce_wait"}
  BY EndingKeeps, EndingReturns
<1>2. op[w] \in Ops /\ loc[w].stop \in BOOLEAN
  BY LocFields DEF HInv, TypeInv, ControlType
<1>3. PICK o \in After(op[w], loc[w].stop) \cap Ops : NextCall(w, o)
  BY <1>1, Returns
<1>4. Others(w) /\ op'[w] \notin {"enter", "leave", "start"} /\ pc'[w] # "start_publish"
  <2>1. o \notin {"enter", "leave", "start"} /\ Entry(o) # "start_publish"
    BY <1>2, <1>3, AfterIsNew, EntryFacts DEF Entries
  <2> QED
    BY <1>3, <2>1 DEF NextCall
<1>5. Active' = Active /\ Active \subseteq Targets
  BY <1>1, ActiveKept DEF SessionsStill, Active
<1>6. op[w] \notin {"leave", "start"} /\ (op[w] = "enter" => pc[w] \in {"find", "find_use"})
  <2>1. pc[w] \in Places(op[w])
    BY DEF PlacesInv
  <2> QED
    BY <1>1, <2>1 DEF Places, Syncing, Failing, Finding, Rollback
<1>7. ASSUME NEW t \in Active, Runs(w, t)
      PROVE  Publishes(w, t)'
  <2>1. UNCHANGED token /\ t \in Targets /\ t <= NumTargets /\ t \in Nat /\ NumTargets \in Nat
        /\ loc[w].i \in Nat
    BY <1>1, <1>5, TargetsAssumption, LocFields
       DEF SessionsStill, Targets, HInv, TypeInv, ControlType
  <2>2. CASE op[w] # "enter"
    <3>1. Publishes(w, t) /\ ~bind_dispatch(w)
      BY <1>6, <1>7, <2>2 DEF ReportInv, Told, Started, bind_dispatch, Use
    <3> QED
      BY <1>1, <2>1, <3>1 DEF Publishes
  <2>3. CASE op[w] = "enter"
    <3>1. loc[w].i <= t
      BY <1>6, <1>7, <2>3 DEF ReportInv, Told, Failing
    <3>2. bind_dispatch(w)
      BY <1>6, <2>1, <2>3, <3>1
         DEF Ending, find_none, publish_unpin, next_empty, take_quality, event_drain,
             quiesce_wait, Use, At
    <3>3. handle[loc[w].i] = Running(w) /\ loc[w].i \in Targets
      BY <2>3, <3>2 DEF bind_dispatch, Use, At, Wanted, HInv, Local, ScanPcs
    <3>4. loc[w].i = t
      BY <1>7, <2>1, <3>3, OwnTarget DEF Runs
    <3>5. slot'[w] = [target |-> t, token |-> token[t], vm |-> handle[t]]
      BY <3>2, <3>4 DEF bind_dispatch, PublishMasked, HInv, TypeInv, WorkerType
    <3> QED
      BY <2>1, <3>5 DEF Publishes
  <2> QED
    BY <2>2, <2>3
<1>8. Told(w)'
  <2> SUFFICES ASSUME NEW t \in Active', Runs(w, t)'
               PROVE  Publishes(w, t)'
    BY <1>4 DEF Told
  <2>1. t \in Active /\ Runs(w, t)
    BY <1>1, <1>5 DEF Runs, Dispatching, Running, SessionsStill
  <2> QED
    BY <1>7, <2>1
<1>9. ASSUME NEW v \in Workers \ {w}, NEW t \in Active', Runs(v, t)'
      PROVE  Carried(t)
  <2>1. t \in Active /\ Runs(v, t) /\ t \in Targets
    BY <1>1, <1>5, <1>9 DEF Runs, Dispatching, Running, SessionsStill
  <2>2. Counting(t)
    <3>1. CASE take_quality(w)
      <4>1. op[w] = "take" /\ loc[w].i \in Targets /\ token[loc[w].i] = loc[w].arg
        BY <3>1 DEF take_quality, Use, At, Wanted, HInv, Local, ScanPcs
      <4>2. loc[w].i # t
        <5> SUFFICES ASSUME loc[w].i = t PROVE FALSE
          OBVIOUS
        <5>1. CASE loc[w].stop
          BY <2>1, <4>1, <5>1, <3>1
             DEF OwnersInv, Owner, Closing, Late, Active, take_quality, Use, At
        <5>2. CASE ~loc[w].stop
          <6>1. Runs(w, t)
            BY <4>1, <5>2 DEF OwnersInv, Owner, Serving, Runs
          <6> QED
            BY <2>1, <6>1 DEF SlotsInv, RunsOnce, Runs
        <5> QED
          BY <1>2, <5>1, <5>2
      <4> QED
        BY <2>1, <3>1, <4>2, EndingKeeps DEF Counting
    <3>2. CASE ~take_quality(w)
      BY <3>2, EndingKeeps DEF Counting
    <3> QED
      BY <3>1, <3>2
  <2> QED
    BY <1>1, <2>1, <2>2 DEF Carried, SessionsStill
<1> QED
  BY <1>1, <1>4, <1>8, <1>9, ReportFrame

LEMMA ServiceTold ==
    ASSUME HInv, PlacesInv, ReportInv, NEW w \in Workers,
           Client(w) \/ leave_end(w) \/ start_refused(w)
    PROVE  ReportInv'
<1>1. /\ StatesKept /\ UNCHANGED handle /\ UNCHANGED token /\ UNCHANGED sample_hz
      /\ UNCHANGED quality /\ UNCHANGED armed_hz
  BY LifeKept DEF Client, dispatch_enter, dispatch_leave, target_start, profiler_work,
         publish_state, stop_collector, leave_end, start_refused, life_vars, target_vars,
         worker_vars
<1>2. \A v \in Workers \ {w} :
         slot'[v] = slot[v] /\ current_handle'[v] = current_handle[v]
  BY DEF Client, dispatch_enter, dispatch_leave, Withdraw, PublishMasked, target_start,
         profiler_work, publish_state, stop_collector, leave_end, start_refused, worker_vars,
         HInv, TypeInv, WorkerType
<1>3. Active' = Active /\ Active \subseteq Targets
  BY <1>1, ActiveKept DEF Active
<1>4. \A t \in Active' : Carried(t)
  BY <1>1, <1>3 DEF Carried, Counting
<1>5. CASE (\E h \in Handles : dispatch_enter(w, h)) \/ dispatch_leave(w)
  <2>1. PICK o, l :
          /\ o \in {"enter", "leave"}
          /\ Call(w, o, l) /\ UNCHANGED irq /\ (o = "enter" => l.i = 1)
    <3>1. CASE dispatch_leave(w)
      BY <3>1 DEF dispatch_leave, Withdraw
    <3>2. CASE \E h \in Handles : dispatch_enter(w, h)
      <4>1. slot[w] \in SlotType /\ NoLoc \in LocType /\ NoLoc.i = 1
        BY NoLocFacts DEF HInv, TypeInv, WorkerType
      <4>2. SetAside(NoLoc, slot[w]).i = 1
        BY <4>1, LocPrev
      <4>3. Call(w, "enter", SetAside(NoLoc, slot[w])) /\ UNCHANGED irq
        BY <3>2 DEF dispatch_enter, Withdraw, SetAside
      <4> QED
        BY <4>2, <4>3
    <3> QED
      BY <1>5, <3>1, <3>2
  <2>2. Others(w) /\ op'[w] = o /\ pc'[w] = "discard_pin" /\ loc'[w] = l
    BY <2>1 DEF Call, Entry, HInv, TypeInv, ControlType, Others
  <2>3. "discard_pin" \in Syncing /\ \A t \in Active' : 1 <= t
    BY <1>3, TargetsAssumption DEF Syncing, Targets
  <2>4. Told(w)'
    BY <2>1, <2>2, <2>3 DEF Told, Started
  <2> QED
    BY <1>1, <1>2, <1>4, <2>2, <2>4, ReportFrame
<1>6. CASE leave_end(w)
  <2>1. Others(w) /\ current_handle'[w] = NoHandle
    BY <1>6, ReturnCalls DEF leave_end, Calls, HInv, TypeInv, WorkerType
  <2>2. Told(w)'
    BY <2>1 DEF Told, Runs, Dispatching, Running
  <2> QED
    BY <1>1, <1>2, <1>4, <2>1, <2>2, ReportFrame
<1>7. CASE \/ \E hz \in Hz : target_start(w, hz)
           \/ profiler_work(w) \/ publish_state(w) \/ start_refused(w)
           \/ \E h \in Handles : stop_collector(w, h)
  <2>1. /\ Calls(w) /\ UNCHANGED slot /\ UNCHANGED current_handle
        /\ pc[w] \in {"idle", "start_lock"}
    <3>1. Calls(w)
      BY <1>7, ClientCalls, QuietReturns
    <3> QED
      BY <1>7, <3>1 DEF target_start, profiler_work, publish_state, start_refused,
                        stop_collector, worker_vars, Idle, At
  <2>2. op[w] \notin {"enter", "leave"} /\ ~Started(w)
    <3>1. pc[w] \in Places(op[w])
      BY DEF PlacesInv
    <3> QED
      BY <2>1, <3>1 DEF Started, Places, Syncing, Failing, Finding, Rollback
  <2>3. op'[w] # "enter" /\ pc'[w] # "start_publish"
    BY <2>1 DEF Calls, Entries
  <2>4. ASSUME NEW t \in Active', Runs(w, t)'
        PROVE  Publishes(w, t)'
    <3>1. Publishes(w, t)
      BY <1>1, <1>3, <2>1, <2>2, <2>4 DEF Runs, Dispatching, Running, ReportInv, Told
    <3> QED
      BY <1>1, <2>1, <3>1 DEF Publishes
  <2>5. Told(w)'
    BY <2>3, <2>4 DEF Told
  <2> QED
    BY <1>1, <1>2, <1>4, <2>1, <2>5, ReportFrame DEF Calls
<1> QED
  BY <1>5, <1>6, <1>7 DEF Client

LEMMA SelectTold ==
    ASSUME HInv, SlotsInv, ReportInv, NEW w \in Workers, start_select(w)
    PROVE  ReportInv'
<1>1. PICK t \in Targets : Opens(w, t)
  BY SelectOpens
<1>2. /\ Others(w) /\ op'[w] = "start" /\ pc'[w] = "start_hz" /\ handle'[t] = Running(w)
      /\ Dispatching(w) /\ UNCHANGED slot /\ UNCHANGED armed_hz /\ UNCHANGED current_handle
      /\ \A s \in Targets \ {t} :
          /\ life'[s].state = life[s].state /\ token'[s] = token[s] /\ handle'[s] = handle[s]
          /\ quality'[s] = quality[s] /\ sample_hz'[s] = sample_hz[s]
  BY <1>1 DEF Opens, worker_vars
<1>3. Told(w)'
  BY <1>2 DEF Told, Started
<1>4. ASSUME NEW v \in Workers \ {w}, NEW s \in Active', Runs(v, s)'
      PROVE  Carried(s)
  <2>1. s # t
    BY <1>2, <1>4 DEF Runs, Dispatching, Running, SlotsInv, RunsOnce
  <2> QED
    BY <1>2, <2>1 DEF Active, Carried, Counting
<1> QED
  BY <1>2, <1>3, <1>4, ReportFrame

LEMMA PublishTold ==
    ASSUME HInv, SlotsInv, OwnersInv, ReportInv, NEW w \in Workers, start_publish(w)
    PROVE  ReportInv'
<1>1. /\ pc[w] = "start_publish" /\ op[w] = "start" /\ ReturnTo(w, "end")
      /\ StatesKept /\ UNCHANGED handle /\ UNCHANGED token /\ UNCHANGED sample_hz
      /\ UNCHANGED quality /\ UNCHANGED armed_hz /\ UNCHANGED current_handle
  BY LifeKept DEF start_publish, At, SlotsInv, Publisher, Matches, life_vars, target_vars
<1>2. Others(w) /\ op'[w] = "end" /\ pc'[w] = "find"
  <2>1. "end" \in Ops /\ Entry("end") = "find"
    BY DEF Ops, Entry
  <2> QED
    BY <1>1, <2>1, ReturnToFacts DEF HInv, TypeInv
<1>3. /\ loc[w].target \in Targets /\ token[loc[w].target] = loc[w].arg
      /\ Runs(w, loc[w].target)
  BY <1>1 DEF HInv, Local, OwnsTarget, OwnersInv, Owner, Opening, Started, Runs, SlotsInv,
              Publisher
<1>4. /\ slot'[w] = [target |-> loc[w].target, token |-> loc[w].arg, vm |-> Running(w)]
      /\ \A v \in Workers \ {w} : slot'[v] = slot[v]
  BY DEF start_publish, PublishMasked, HInv, TypeInv, WorkerType
<1>5. Active' = Active /\ Active \subseteq Targets /\ \A t \in Active' : Carried(t)
  <2>1. Active' = Active /\ Active \subseteq Targets
    BY <1>1, ActiveKept DEF Active
  <2> QED
    BY <1>1, <2>1 DEF Carried, Counting
<1>6. Told(w)'
  <2> SUFFICES ASSUME NEW t \in Active', Runs(w, t)'
               PROVE  Publishes(w, t)'
    BY <1>2 DEF Told
  <2>1. t \in Targets /\ Runs(w, t)
    BY <1>1, <1>5 DEF Runs, Dispatching, Running
  <2>2. t = loc[w].target
    BY <1>3, <2>1, OwnTarget
  <2> QED
    BY <1>1, <1>3, <1>4, <2>2 DEF Publishes
<1> QED
  BY <1>1, <1>2, <1>4, <1>5, <1>6, ReportFrame

LEMMA LockTold ==
    ASSUME HInv, SlotsInv, PlacesInv, ReportInv, NEW w \in Workers,
           rollback_lock(w) \/ quiesce_lock(w) \/ release_lock(w)
    PROVE  ReportInv'
<1>1. PICK t \in Targets, q \in Stages : Enters(w, t, q)
  BY LockEnters
<1>2. /\ Others(w) /\ op'[w] = op[w] /\ UNCHANGED token /\ UNCHANGED handle
      /\ UNCHANGED sample_hz /\ UNCHANGED quality /\ UNCHANGED slot /\ UNCHANGED armed_hz
      /\ UNCHANGED current_handle
      /\ pc[w] = q[1] /\ pc'[w] = q[2] /\ life'[t].state = q[4]
      /\ \A s \in Targets \ {t} : life'[s].state = life[s].state
  BY <1>1 DEF Enters, target_vars, worker_vars
<1>3. /\ q[1] \in {"rollback_lock", "quiesce_lock", "release_lock"} /\ q[4] # "ACTIVE"
      /\ q[2] \in {"rollback_count", "quiesce_count", "release_wait"}
  BY DEF Stages
<1>4. \A s \in Active' : Carried(s)
  BY <1>2, <1>3 DEF Active, Carried, Counting
<1>5. op[w] # "enter" /\ (Started(w)' <=> Started(w))
  <2>1. pc[w] \in Places(op[w])
    BY DEF PlacesInv
  <2>2. op[w] # "enter"
    BY <1>2, <1>3, <2>1 DEF Places, Syncing, Failing, Finding
  <2> QED
    BY <1>2, <1>3, <2>2 DEF Started
<1>6. Told(w)'
  <2> SUFFICES ASSUME NEW s \in Active', Runs(w, s)', op[w] \notin {"enter", "leave"}, ~Started(w)
               PROVE  Publishes(w, s)'
    BY <1>2, <1>3, <1>5 DEF Told
  <2>1. s \in Active /\ Runs(w, s)
    BY <1>2, <1>4 DEF Runs, Dispatching, Running, Carried
  <2>2. Publishes(w, s)
    BY <2>1 DEF ReportInv, Told
  <2> QED
    BY <1>2, <2>2 DEF Publishes
<1> QED
  BY <1>2, <1>4, <1>6, ReportFrame

LEMMA EraseTold ==
    ASSUME HInv, PlacesInv, OwnersInv, ReportInv, NEW w \in Workers,
           rollback_wait(w) \/ release_wait(w)
    PROVE  ReportInv'
<1>1. PICK t \in Targets : Erases(w, t)
  BY FreeErases
<1>2. /\ Others(w) /\ op'[w] = "none" /\ pc'[w] = "idle" /\ UNCHANGED quality
      /\ UNCHANGED slot /\ UNCHANGED armed_hz /\ UNCHANGED current_handle
      /\ life'[t].state = "FREE" /\ life[t].state = "RECLAIMING" /\ loc[w].target = t
      /\ pc[w] \in {"rollback_wait", "release_wait"}
      /\ \A s \in Targets \ {t} :
          /\ life'[s].state = life[s].state /\ token'[s] = token[s] /\ handle'[s] = handle[s]
          /\ sample_hz'[s] = sample_hz[s]
  BY <1>1 DEF Erases
<1>3. \A s \in Active' : Carried(s)
  BY <1>2 DEF Active, Carried, Counting
<1>4. Told(w)'
  <2> SUFFICES ASSUME NEW s \in Active', Runs(w, s)'
               PROVE  Publishes(w, s)'
    BY <1>2 DEF Told
  <2>1. s \in Active /\ Runs(w, s) /\ s \in Targets /\ Carried(s)
    BY <1>2, <1>3 DEF Runs, Dispatching, Running, Carried, Active
  <2>2. op[w] \notin {"enter", "leave"} /\ (op[w] = "start" => pc[w] = "rollback_wait")
    <3>1. pc[w] \in Places(op[w])
      BY DEF PlacesInv
    <3> QED
      BY <1>2, <3>1 DEF Places, Syncing, Failing, Finding, Rollback
  <2>3. ~Started(w)
    <3> SUFFICES ASSUME Started(w) PROVE FALSE
      OBVIOUS
    <3>1. Runs(w, t)
      BY <1>2, <2>1 DEF OwnersInv, Owner, Opening, Runs
    <3> QED
      BY <1>2, <2>1, <3>1, OwnTarget DEF Active
  <2>4. Publishes(w, s)
    BY <2>1, <2>2, <2>3 DEF ReportInv, Told
  <2> QED
    BY <1>2, <2>1, <2>4 DEF Publishes, Carried
<1> QED
  BY <1>2, <1>3, <1>4, ReportFrame

LEMMA HandlerTold ==
    ASSUME HInv, ReportInv, NEW w \in Workers, tick(w) \/ handler_enter(w) \/ Handler(w)
    PROVE  ReportInv'
<1>1. StatesKept
  BY LifeKept, PinKeepsStates, UnpinKeepsStates
     DEF tick, handler_enter, Handler, handler_pin, handler_unpinned, handler_push,
         handler_reject, handler_stale_token, HandlerReturn
<1>2. /\ UNCHANGED pc /\ UNCHANGED op /\ UNCHANGED loc /\ UNCHANGED token
      /\ UNCHANGED handle /\ UNCHANGED sample_hz /\ UNCHANGED slot /\ UNCHANGED armed_hz
      /\ UNCHANGED current_handle
  BY DEF tick, handler_enter, Handler, handler_pin, handler_unpinned, handler_push,
         handler_reject, handler_stale_token, HandlerReturn, life_vars, target_vars,
         worker_vars, control_vars
<1>3. \A t \in Targets : Counting(t)
  BY DEF tick, handler_enter, Handler, handler_pin, handler_unpinned, handler_push,
         handler_reject, handler_stale_token, Count, Counting, target_vars,
         HInv, TypeInv, TargetType
<1>4. Active' = Active /\ Active \subseteq Targets
  BY <1>1, ActiveKept DEF Active
<1>5. \A v \in Workers : Told(v)'
  BY <1>2, <1>3, <1>4 DEF ReportInv, Told, Reported, Counting, Publishes, Runs, Dispatching,
                          Running, Started
<1> QED
  BY <1>5 DEF ReportInv

LEMMA NextTold ==
    ASSUME HInv, SlotsInv, CountsInv, TimersInv, PlacesInv, OwnersInv, ReportInv, [Next]_vars
    PROVE  ReportInv'
<1>1. CASE UNCHANGED vars
  <2>1. /\ UNCHANGED pc /\ UNCHANGED op /\ UNCHANGED loc /\ UNCHANGED token /\ UNCHANGED life
        /\ UNCHANGED handle /\ UNCHANGED sample_hz /\ UNCHANGED slot /\ UNCHANGED armed_hz
        /\ UNCHANGED current_handle /\ UNCHANGED quality
    BY <1>1 DEF vars, life_vars, target_vars, worker_vars, control_vars
  <2>2. Active' = Active
    BY <2>1 DEF Active
  <2>3. \A v \in Workers : Told(v)'
    BY <2>1, <2>2 DEF ReportInv, Told, Reported, Publishes, Runs, Dispatching, Running, Started
  <2> QED
    BY <2>3 DEF ReportInv
<1>2. CASE Next
  <2>1. PICK w \in Workers :
          Client(w) \/ Thread(w) \/ tick(w) \/ handler_enter(w) \/ Handler(w)
    BY <1>2 DEF Next
  <2>2. CASE Client(w)
    BY <2>2, ServiceTold
  <2>3. CASE Thread(w)
    BY <2>3, GoingTold, HoldingTold, EndingTold, ServiceTold, SelectTold, PublishTold, LockTold,
       EraseTold
       DEF Thread, Step, Lock, Going, Holding, Ending
  <2>4. CASE tick(w) \/ handler_enter(w) \/ Handler(w)
    BY <2>4, HandlerTold
  <2> QED
    BY <2>1, <2>2, <2>3, <2>4
<1> QED
  BY <1>1, <1>2

LEMMA ReportInvariance == Spec => []ReportInv
<1>1. Init => ReportInv
  BY DEF Init, ReportInv, Told, Active
<1> QED
  BY <1>1, NextTold, Invariance, SlotsInvariance, CountsInvariance, TimersInvariance,
     PlacesInvariance, OwnersInvariance, PTL DEF Spec

\* A service that lands on a worker's slot has its timer, or is told.
LEMMA SlotTells ==
    ASSUME HInv, SlotsInv, PlacesInv, OwnersInv, ReportInv, [Next]_vars,
           NEW u \in Workers, NEW t \in Active, slot'[u] # slot[u], slot'[u].target = t
    PROVE  Reported(u, t)
<1>1. slot \in [Workers -> SlotType] /\ t \in Targets /\ t # NoTarget
      /\ NoSlot.target = NoTarget
  BY TargetsAssumption DEF HInv, TypeInv, WorkerType, Active, NoSlot
<1>2. PICK w \in Workers :
        Client(w) \/ Thread(w) \/ tick(w) \/ handler_enter(w) \/ Handler(w)
  BY DEF Next, vars, worker_vars
<1>3. slot' # slot
  OBVIOUS
<1>4. /\ ~Going(w) /\ ~quiesce_hz(w)
      /\ ~leave_end(w) /\ ~start_refused(w)
      /\ ~rollback_lock(w) /\ ~quiesce_lock(w) /\ ~release_lock(w)
      /\ ~start_select(w) /\ ~rollback_wait(w) /\ ~release_wait(w)
      /\ ~tick(w) /\ ~handler_enter(w) /\ ~Handler(w)
  <2>1. ~Going(w)
    BY <1>3, GoingKeeps
  <2>2. ~quiesce_hz(w)
    BY <1>1 DEF quiesce_hz, PublishMasked
  <2>3. ~leave_end(w) /\ ~start_refused(w)
    BY <1>3 DEF leave_end, start_refused, worker_vars
  <2>4. ~tick(w) /\ ~handler_enter(w) /\ ~Handler(w)
    BY <1>3 DEF tick, handler_enter, Handler, handler_pin, handler_unpinned, handler_push,
                handler_reject, handler_stale_token, HandlerReturn, worker_vars
  <2>5. ~rollback_lock(w) /\ ~quiesce_lock(w) /\ ~release_lock(w) /\ ~start_select(w)
    BY <1>3, LockEnters, SelectOpens DEF Enters, Opens, worker_vars
  <2>6. ~rollback_wait(w) /\ ~release_wait(w)
    BY <1>3, FreeErases DEF Erases
  <2> QED
    BY <2>1, <2>2, <2>3, <2>4, <2>5, <2>6
<1>5. ~Client(w)
  BY <1>1 DEF Client, dispatch_enter, dispatch_leave, Withdraw, PublishMasked, target_start,
              profiler_work, publish_state, stop_collector, worker_vars
<1>6. CASE bind_dispatch(w)
  <2>1. w = u /\ slot'[w] = [target |-> loc[w].i, token |-> token[loc[w].i],
                             vm |-> handle[loc[w].i]]
    BY <1>1, <1>6 DEF bind_dispatch, PublishMasked
  <2>2. t = loc[w].i /\ op[w] = "enter" /\ pc[w] = "find_use" /\ handle[t] = Running(w)
    BY <1>6, <2>1 DEF bind_dispatch, Use, At, Wanted
  <2>3. Runs(w, t)
    BY <2>2 DEF Runs, SlotsInv, Publisher
  <2> QED
    BY <2>1, <2>2, <2>3 DEF ReportInv, Told, Syncing, Failing
<1>7. CASE start_publish(w)
  <2>1. /\ pc[w] = "start_publish"
        /\ w = u /\ slot'[w] = [target |-> loc[w].target, token |-> loc[w].arg,
                                vm |-> Running(w)]
    BY <1>1, <1>7 DEF start_publish, At, PublishMasked
  <2>2. Runs(w, t)
    BY <2>1 DEF HInv, Local, OwnersInv, Owner, Opening, Started, Runs, SlotsInv, Publisher,
                Matches
  <2> QED
    BY <2>1, <2>2 DEF ReportInv, Told, Reported
<1>8. CASE publish_even(w)
  <2>1. /\ pc[w] = "publish_even" /\ op[w] = "publish"
        /\ w = u /\ slot'[w] = [target |-> loc[w].i, token |-> loc[w].arg, vm |-> Running(w)]
    BY <1>1, <1>8 DEF publish_even, At, PublishMasked, SlotsInv, Publisher, Matches
  <2>2. loc[w].i = t /\ token[t] = loc[w].arg /\ Runs(w, t)
    BY <1>1, <2>1 DEF OwnersInv, Owner, Serving, Closing, Runs
  <2>3. Publishes(w, t)
    BY <2>1, <2>2 DEF ReportInv, Told, Started
  <2>4. slot[w].vm = Running(w)
    BY <1>1, <2>3 DEF Publishes, SlotsInv, Publisher
  <2>5. slot'[w] = slot[w]
    BY <1>1, <2>1, <2>2, <2>3, <2>4 DEF Publishes, SlotType
  <2> QED
    BY <2>1, <2>5
<1>9. CASE start_count(w)
  BY <1>1, <1>9 DEF start_count, PublishMasked
<1>10. Holding(w) => quiesce_hz(w) \/ start_count(w) \/ publish_even(w)
  BY <1>3 DEF Holding, start_hz, rollback_hz, drop_count, worker_vars
<1>11. Ending(w) => bind_dispatch(w)
  BY <1>3, EndingKeeps
<1>12. Going(w) \/ Holding(w) \/ Ending(w) \/ start_publish(w)
  BY <1>2, <1>4, <1>5 DEF Thread, Step, Lock, Going, Holding, Ending
<1> QED
  BY <1>4, <1>6, <1>7, <1>8, <1>9, <1>10, <1>11, <1>12

\* sync_worker_timer's result is dropped by dispatch_enter, so its failure must have
\* reached the session another way (record_active_timer_failure): whatever the services
\* and the workers do meanwhile, a session lands on a worker's slot only if that
\* worker's timer runs at its frequency or its timer_failures is counted.
THEOREM FailuresTold == Spec => FailureReported
<1>1. HInv /\ SlotsInv /\ PlacesInv /\ OwnersInv /\ ReportInv /\ [Next]_vars =>
        [\A w \in Workers, t \in Active :
           slot'[w] # slot[w] /\ slot'[w].target = t /\ armed_hz[w] # sample_hz[t]
              => "timer_failures" \in quality[t]]_vars
  BY SlotTells DEF Reported
<1> QED
  BY <1>1, Invariance, SlotsInvariance, PlacesInvariance, OwnersInvariance, ReportInvariance,
     PTL DEF Spec, FailureReported

-----------------------------------------------------------------------------
(* What a thread that stops a session sees of the steps of the others.     *)

\* The kinds of steps.
Asking(w) == Client(w) \/ leave_end(w) \/ start_refused(w)
Locking(w) == rollback_lock(w) \/ quiesce_lock(w) \/ release_lock(w)
Erasing(w) == rollback_wait(w) \/ release_wait(w)
Handling(w) == tick(w) \/ handler_enter(w) \/ Handler(w)

LEMMA NextKinds ==
    ASSUME [Next]_vars, vars' # vars
    PROVE  \E w \in Workers :
              \/ Asking(w) \/ Going(w) \/ Holding(w) \/ Ending(w) \/ start_select(w)
              \/ start_publish(w) \/ Locking(w) \/ Erasing(w) \/ Handling(w)
<1>1. PICK w \in Workers :
        Client(w) \/ Thread(w) \/ tick(w) \/ handler_enter(w) \/ Handler(w)
  BY DEF Next
<1>2. Thread(w) => \/ Going(w) \/ Holding(w) \/ Ending(w) \/ start_select(w) \/ start_publish(w)
                   \/ Locking(w) \/ Erasing(w) \/ leave_end(w) \/ start_refused(w)
  BY DEF Thread, Step, Lock, Going, Holding, Ending, Locking, Erasing
<1> QED
  BY <1>1, <1>2 DEF Asking, Handling

\* A step of a thread is made outside of its handler, one of a handler at any point.
LEMMA ThreadAlone ==
    ASSUME HInv, NEW w \in Workers,
           \/ Asking(w) \/ Going(w) \/ Holding(w) \/ Ending(w) \/ start_select(w)
           \/ start_publish(w) \/ Locking(w) \/ Erasing(w)
    PROVE  irq[w].pc = "none" /\ UNCHANGED irq /\ Others(w)
<1>1. irq[w].pc = "none"
  BY DEF Asking, Client, dispatch_enter, dispatch_leave, target_start, profiler_work,
         publish_state, stop_collector, Idle, At, leave_end, start_refused, Going, discard_pin,
         discard_unowned, discard_use, sync_count, sync_hz, sync_fails, fail_pin, fail_skip,
         fail_use, fail_end, find, find_pin, find_missed, find_lost, next_event, Use,
         quiesce_end, publish_odd, Holding, start_hz, start_count, rollback_hz, quiesce_hz,
         drop_count, publish_even, Ending, find_none, publish_unpin, next_empty, take_quality,
         event_drain, quiesce_wait, bind_dispatch, start_select, start_publish, Locking,
         rollback_lock, quiesce_lock, release_lock, Erasing, rollback_wait, release_wait
<1>2. CASE Asking(w)
  <2>1. UNCHANGED irq
    BY <1>2 DEF Asking, Client, dispatch_enter, dispatch_leave, target_start, profiler_work,
                publish_state, stop_collector, leave_end, start_refused, Return, ReturnTo
  <2>2. Others(w)
    BY <1>2, <2>1
       DEF Asking, Client, dispatch_enter, dispatch_leave, Withdraw, target_start,
           profiler_work, publish_state, stop_collector, leave_end, start_refused, Return,
           ReturnTo, Call, Others, HInv, TypeInv, ControlType
  <2> QED
    BY <1>1, <2>1, <2>2
<1>3. CASE Going(w) \/ Holding(w)
  BY <1>1, <1>3, GoingMoves, HoldingMoves DEF Moves
<1>4. CASE Ending(w)
  BY <1>1, <1>4, EndingReturns, ReturnCalls DEF Calls
<1>5. CASE start_publish(w)
  <2>1. UNCHANGED irq /\ "end" \in Ops /\ ReturnTo(w, "end")
    BY <1>5 DEF start_publish, ReturnTo, Ops
  <2> QED
    BY <1>1, <2>1, ReturnToFacts DEF HInv, TypeInv
<1>6. CASE start_select(w)
  <2>1. UNCHANGED irq
    BY <1>6 DEF start_select, GotoWith
  <2>2. Others(w)
    BY <1>6, <2>1 DEF start_select, GotoWith, Others, HInv, TypeInv, ControlType
  <2> QED
    BY <1>1, <2>1, <2>2
<1>7. CASE Locking(w) \/ Erasing(w)
  BY <1>1, <1>7, LockEnters, FreeErases DEF Locking, Erasing, Enters, Erases
<1> QED
  BY <1>2, <1>3, <1>4, <1>5, <1>6, <1>7

\* What a handler leaves alone.
LEMMA HandlingKeeps ==
    ASSUME HInv, NEW w \in Workers, Handling(w)
    PROVE  /\ Others(w) /\ UNCHANGED <<pc, op, loc>> /\ SessionsStill
           /\ UNCHANGED slot /\ UNCHANGED current_handle
<1>1. StatesKept
  BY LifeKept, PinKeepsStates, UnpinKeepsStates
     DEF Handling, tick, handler_enter, Handler, handler_pin, handler_unpinned, handler_push,
         handler_reject, handler_stale_token, HandlerReturn
<1>2. /\ UNCHANGED <<pc, op, loc>> /\ UNCHANGED token
      /\ UNCHANGED next_token /\ UNCHANGED handle /\ UNCHANGED scheduler_token
      /\ UNCHANGED current_handle /\ UNCHANGED slot
  BY DEF Handling, tick, handler_enter, Handler, handler_pin, handler_unpinned, handler_push,
         handler_reject, handler_stale_token, HandlerReturn, life_vars, target_vars,
         worker_vars, control_vars
<1>3. \A v \in Workers \ {w} : irq'[v] = irq[v]
  BY DEF Handling, tick, handler_enter, Handler, handler_pin, handler_unpinned, handler_push,
         handler_reject, handler_stale_token, HandlerReturn, HInv, TypeInv, BridgeType
<1> QED
  BY <1>1, <1>2, <1>3 DEF Others, SessionsStill

\* A token that was taken is not taken again.
Lasting ==
    /\ next_token' \in Nat /\ next_token <= next_token'
    /\ \A t \in Targets, k \in Nat : k # 0 /\ k <= next_token /\ token'[t] = k =>
          token[t] = k /\ handle'[t] = handle[t]

LEMMA NextLasts ==
    ASSUME HInv, SlotsInv, [Next]_vars
    PROVE  Lasting
<1>1. next_token \in Nat
  BY DEF HInv, TypeInv, LifeType
<1>2. CASE vars' = vars
  BY <1>1, <1>2 DEF vars, life_vars, target_vars, Lasting
<1>3. ASSUME UNCHANGED token, UNCHANGED next_token, UNCHANGED handle
      PROVE  Lasting
  BY <1>1, <1>3 DEF Lasting
<1>4. CASE vars' # vars
  <2>1. PICK w \in Workers :
              \/ Asking(w) \/ Going(w) \/ Holding(w) \/ Ending(w) \/ start_select(w)
              \/ start_publish(w) \/ Locking(w) \/ Erasing(w) \/ Handling(w)
    BY <1>4, NextKinds
  <2>2. CASE Going(w) \/ Holding(w) \/ Ending(w) \/ Handling(w)
    BY <1>3, <2>2, GoingMoves, HoldingMoves, EndingReturns, HandlingKeeps DEF SessionsStill
  <2>3. CASE Asking(w) \/ start_publish(w)
    BY <1>3, <2>3
       DEF Asking, Client, dispatch_enter, dispatch_leave, target_start, profiler_work,
           publish_state, stop_collector, leave_end, start_refused, start_publish, life_vars,
           target_vars
  <2>4. CASE start_select(w)
    <3>1. PICK t \in Targets : Opens(w, t)
      BY <2>4, SelectOpens
    <3> QED
      BY <1>1, <3>1 DEF Opens, Lasting
  <2>5. CASE Locking(w)
    <3>1. PICK t \in Targets, q \in Stages : Enters(w, t, q)
      BY <2>5, LockEnters DEF Locking
    <3> QED
      BY <1>3, <3>1 DEF Enters, target_vars
  <2>6. CASE Erasing(w)
    <3>1. PICK t \in Targets : Erases(w, t)
      BY <2>6, FreeErases DEF Erasing
    <3> QED
      BY <1>1, <3>1 DEF Erases, Lasting
  <2> QED
    BY <2>1, <2>2, <2>3, <2>4, <2>5, <2>6
<1> QED
  BY <1>2, <1>4

-----------------------------------------------------------------------------
(* The inductive invariant: what is set aside of a slot, and copied of it. *)

\* The slot whose ticks a call discards is the caller's own, or the stopped session's.
Discarded(w, s) ==
    s.target # NoTarget =>
        /\ s.token # 0 /\ s.token <= next_token
        /\ token[s.target] = s.token =>
              IF op[w] = "quiesce" THEN s.token = loc[w].arg ELSE Runs(w, s.target)
Aside(w) == pc[w] \in {"discard_pin", "discard_use"} => Discarded(w, loc[w].prev)

\* A thread does not step while its handler runs, so the handler's copy is the slot.
Copied(w) == irq[w].pc # "none" => irq[w].slot = slot[w]

HiddenInv == \A w \in Workers : Aside(w) /\ Copied(w)

LEMMA CopiedKept ==
    ASSUME HInv, HiddenInv, [Next]_vars
    PROVE  \A v \in Workers : Copied(v)'
<1>1. CASE vars' = vars
  BY <1>1 DEF vars, worker_vars, HiddenInv, Copied
<1>2. CASE vars' # vars
  <2>1. PICK w \in Workers :
              \/ Asking(w) \/ Going(w) \/ Holding(w) \/ Ending(w) \/ start_select(w)
              \/ start_publish(w) \/ Locking(w) \/ Erasing(w) \/ Handling(w)
    BY <1>2, NextKinds
  <2>2. \A v \in Workers \ {w} : slot'[v] = slot[v]
    <3>1. CASE Going(w) \/ Holding(w) \/ Ending(w) \/ Handling(w)
      BY <3>1, GoingKeeps, HoldingKeeps, EndingKeeps, HandlingKeeps
    <3>2. CASE Locking(w) \/ Erasing(w)
      BY <3>2, LockEnters, FreeErases DEF Locking, Erasing, Enters, Erases, worker_vars
    <3>3. CASE Asking(w) \/ start_select(w) \/ start_publish(w)
      BY <3>3
         DEF Asking, Client, dispatch_enter, dispatch_leave, Withdraw, PublishMasked,
             target_start, profiler_work, publish_state, stop_collector, leave_end,
             start_refused, start_select, start_publish, worker_vars, HInv, TypeInv, WorkerType
    <3> QED
      BY <2>1, <3>1, <3>2, <3>3
  <2>3. CASE Handling(w)
    <3>1. Others(w) /\ UNCHANGED slot
      BY <2>3, HandlingKeeps
    <3>2. tick(w) => UNCHANGED irq
      BY DEF tick
    <3>3. handler_enter(w) => Copied(w)'
      BY DEF handler_enter, Copied, NoIrq, IrqType, HInv, TypeInv, BridgeType
    <3>4. handler_pin(w) => Copied(w)'
      <4>1. handler_pin(w) => irq'[w].slot = irq[w].slot /\ irq[w].pc = "pin"
        BY DEF handler_pin, HInv, TypeInv, BridgeType, IrqType
      <4> QED
        BY <3>1, <4>1 DEF HiddenInv, Copied
    <3>5. Handler(w) /\ ~handler_pin(w) => irq'[w].pc = "none"
      <4>1. NoIrq.pc = "none"
        BY DEF NoIrq
      <4>2. Handler(w) /\ ~handler_pin(w) => irq' = [irq EXCEPT ![w] = NoIrq]
        BY DEF Handler, handler_unpinned, handler_push, handler_reject, handler_stale_token,
               HandlerReturn
      <4> QED
        BY <4>1, <4>2 DEF HInv, TypeInv, BridgeType
    <3>6. Copied(w)'
      BY <2>3, <3>1, <3>2, <3>3, <3>4, <3>5 DEF Handling, HiddenInv, Copied
    <3> QED
      BY <2>2, <3>1, <3>6 DEF HiddenInv, Copied, Others
  <2>4. CASE ~Handling(w)
    BY <2>1, <2>2, <2>4, ThreadAlone DEF HiddenInv, Copied
  <2> QED
    BY <2>3, <2>4
<1> QED
  BY <1>1, <1>2

LEMMA AsideKept ==
    ASSUME HInv, HiddenInv, Lasting, NEW v \in Workers,
           pc'[v] = pc[v], op'[v] = op[v], loc'[v] = loc[v],
           current_handle'[v] = current_handle[v]
    PROVE  Aside(v)'
<1>1. PICK s \in SlotType : s = loc[v].prev
  BY DEF HInv, TypeInv, ControlType, LocType
<1>2. Discarded(v, s) => Discarded(v, s)'
  <2>1. SUFFICES ASSUME Discarded(v, s), s.target # NoTarget
                 PROVE  Discarded(v, s)'
    BY DEF Discarded
  <2>2. /\ s.target \in Targets /\ s.token \in Nat
        /\ next_token \in Nat /\ next_token' >= next_token /\ next_token' \in Nat
        /\ s.token # 0 /\ s.token <= next_token
    BY <2>1 DEF HInv, TypeInv, LifeType, SlotType, Lasting, Discarded
  <2>3. token'[s.target] = s.token =>
            token[s.target] = s.token /\ handle'[s.target] = handle[s.target]
    BY <2>2 DEF Lasting
  <2> QED
    BY <2>1, <2>2, <2>3 DEF Discarded, Runs, Dispatching, Running
<1>3. pc[v] \in {"discard_pin", "discard_use"} => Discarded(v, s)
  BY <1>1 DEF HiddenInv, Aside
<1> QED
  BY <1>1, <1>2, <1>3 DEF Aside

\* The slot that a call sets aside.
LEMMA AsideTaken ==
    ASSUME HInv, SlotsInv, NEW w \in Workers, op'[w] # "quiesce", loc'[w].prev = slot[w],
           Lasting, current_handle'[w] = current_handle[w]
    PROVE  Aside(w)'
<1>1. PICK s \in SlotType : s = slot[w]
  BY DEF HInv, TypeInv, WorkerType
<1>2. Discarded(w, s)'
  <2>1. SUFFICES ASSUME s.target # NoTarget
                 PROVE  Discarded(w, s)'
    BY DEF Discarded
  <2>2. Sound(s) /\ Dispatching(w) /\ s.vm = Running(w)
    BY <1>1, <2>1 DEF SlotsInv, Publisher
  <2>3. /\ s.target \in Targets /\ s.token \in Nat
        /\ next_token \in Nat /\ next_token' >= next_token /\ next_token' \in Nat
        /\ s.token # 0 /\ s.token <= next_token
    BY <2>1, <2>2 DEF HInv, TypeInv, LifeType, SlotType, Lasting, Sound
  <2>4. token'[s.target] = s.token =>
            token[s.target] = s.token /\ handle'[s.target] = handle[s.target]
    BY <2>3 DEF Lasting
  <2> QED
    BY <2>1, <2>2, <2>3, <2>4 DEF Discarded, Runs, Dispatching, Running, Sound
<1> QED
  BY <1>1, <1>2 DEF Aside

LEMMA NextAside ==
    ASSUME HInv, SlotsInv, PlacesInv, OwnersInv, HiddenInv, [Next]_vars
    PROVE  \A v \in Workers : Aside(v)'
<1>0. Lasting
  BY NextLasts
<1>1. CASE vars' = vars
  BY <1>0, <1>1, AsideKept DEF vars, worker_vars, control_vars
<1>2. CASE vars' # vars
  <2>1. PICK w \in Workers :
              \/ Asking(w) \/ Going(w) \/ Holding(w) \/ Ending(w) \/ start_select(w)
              \/ start_publish(w) \/ Locking(w) \/ Erasing(w) \/ Handling(w)
    BY <1>2, NextKinds
  <2>2. Others(w) /\ \A v \in Workers \ {w} : current_handle'[v] = current_handle[v]
    <3>1. Others(w)
      BY <2>1, ThreadAlone, HandlingKeeps
    <3>2. CASE Going(w) \/ Holding(w) \/ Ending(w) \/ Handling(w)
      BY <3>1, <3>2, GoingKeeps, HoldingMoves, EndingKeeps, HandlingKeeps
    <3>3. CASE Locking(w) \/ Erasing(w)
      BY <3>1, <3>3, LockEnters, FreeErases DEF Locking, Erasing, Enters, Erases, worker_vars
    <3>4. CASE Asking(w) \/ start_select(w) \/ start_publish(w)
      BY <3>1, <3>4
         DEF Asking, Client, dispatch_enter, dispatch_leave, target_start, profiler_work,
             publish_state, stop_collector, leave_end, start_refused, start_select,
             start_publish, worker_vars, HInv, TypeInv, WorkerType
    <3> QED
      BY <2>1, <3>1, <3>2, <3>3, <3>4
  <2>3. \A v \in Workers \ {w} : Aside(v)'
    BY <1>0, <2>2, AsideKept DEF Others
  <2>4. CASE Handling(w)
    BY <1>0, <2>4, <2>3, HandlingKeeps, AsideKept
  <2>5. CASE Going(w)
    <3>1. /\ ~discard_pin(w) => pc'[w] \notin {"discard_pin", "discard_use"}
      <4>1. op[w] \in Ops
        BY DEF HInv, TypeInv, ControlType
      <4> QED
        BY <2>5, <4>1, DiscardGoes, SyncGoes, FailGoes, FindGoes, EndGoes
           DEF Going, GoesOn, GoesNext, GoesBack, AfterSync
    <3>2. ASSUME discard_pin(w) PROVE Aside(w)'
      <4>1. /\ pc[w] = "discard_pin" /\ loc'[w].prev = loc[w].prev /\ op'[w] = op[w]
            /\ loc'[w].arg = loc[w].arg /\ Calm
        BY <2>5, <3>2, DiscardGoes, GoingMoves DEF Moves, Same
      <4>2. Discarded(w, loc[w].prev)
        BY <4>1 DEF HiddenInv, Aside
      <4> QED
        BY <4>1, <4>2 DEF Aside, Discarded, Calm, Runs, Dispatching, Running
    <3> QED
      BY <2>3, <3>1, <3>2 DEF Aside
  <2>6. CASE Holding(w)
    <3>1. /\ op'[w] = op[w] /\ Same(loc'[w], loc[w]) /\ SessionsStill /\ UNCHANGED current_handle
          /\ pc[w] \notin {"start_count", "quiesce_hz"} =>
                pc'[w] \notin {"discard_pin", "discard_use"}
      BY <2>6, HoldingMoves
    <3>2. loc[w] \in LocType /\ slot[w] \in SlotType
      BY DEF HInv, TypeInv, WorkerType, ControlType
    <3>3. CASE pc[w] = "start_count"
      <4>1. start_count(w)
        BY <2>6, <3>3 DEF Holding, At, start_hz, rollback_hz, quiesce_hz, drop_count, publish_even
      <4>2. loc' = [loc EXCEPT ![w] = SetAside(loc[w], slot[w])]
        BY <4>1 DEF start_count, GotoWith, SetAside
      <4>3. loc'[w].prev = slot[w]
        BY <3>2, <4>2 DEF SetAside, LocType, HInv, TypeInv, ControlType
      <4>4. op'[w] = "start"
        BY <3>1, <3>3 DEF SlotsInv, Publisher, Matches
      <4>5. Aside(w)'
        BY <1>0, <3>1, <4>3, <4>4, AsideTaken
      <4> QED
        BY <2>3, <4>5
    <3>4. CASE pc[w] = "quiesce_hz"
      <4>1. quiesce_hz(w)
        BY <2>6, <3>4 DEF Holding, At, start_hz, start_count, rollback_hz, drop_count,
                          publish_even
      <4>2. PICK s \in SlotType : /\ s = [NoSlot EXCEPT !.target = loc[w].target,
                                                        !.token = loc[w].arg]
                                  /\ s.token = loc[w].arg
        <5>1. loc[w].target \in Targets \cup {NoTarget} /\ loc[w].arg \in Nat
          BY <3>2, LocFields
        <5> QED
          BY ZenonT(60), <5>1, SlotFacts DEF NoSlot, SlotType
      <4>3. loc' = [loc EXCEPT ![w] = SetAside(loc[w], s)]
        BY <4>1, <4>2 DEF quiesce_hz, GotoWith, SetAside
      <4>4. loc'[w].prev = s
        BY <3>2, <4>3 DEF SetAside, LocType, HInv, TypeInv, ControlType
      <4>5. /\ op[w] = "quiesce" /\ loc[w].stop /\ loc[w].arg # 0 /\ loc[w].arg <= next_token
            /\ loc'[w].arg = loc[w].arg
        <5>1. op[w] = "quiesce"
          BY <3>4 DEF PlacesInv, Places, Syncing, Failing, Finding, Rollback
        <5> QED
          BY <3>1, <5>1 DEF OwnersInv, Owner, Closing, Same
      <4>6. Aside(w)'
        BY <3>1, <4>2, <4>4, <4>5 DEF Aside, Discarded, SessionsStill
      <4> QED
        BY <2>3, <4>6
    <3> QED
      BY <2>3, <3>1, <3>3, <3>4 DEF Aside
  <2>7. CASE Ending(w) \/ start_select(w) \/ start_publish(w) \/ Locking(w) \/ Erasing(w)
    <3>1. Ending(w) => pc'[w] \in Entries \ {"discard_pin"}
      BY EndingReturns, ReturnCalls DEF Calls
    <3>2. start_select(w) => pc'[w] = "start_hz"
      BY SelectOpens DEF Opens
    <3>3. start_publish(w) => pc'[w] = "find"
      <4>1. start_publish(w) => ReturnTo(w, "end") /\ "end" \in Ops /\ Entry("end") = "find"
        BY DEF start_publish, Ops, Entry
      <4> QED
        BY <4>1, ReturnToFacts DEF HInv, TypeInv
    <3>4. Locking(w) => pc'[w] \in {"rollback_count", "quiesce_count", "release_wait"}
      BY LockEnters DEF Locking, Enters, Stages
    <3>5. Erasing(w) => pc'[w] = "idle"
      BY FreeErases DEF Erasing, Erases
    <3>6. pc'[w] \notin {"discard_pin", "discard_use"}
      BY <2>7, <3>1, <3>2, <3>3, <3>4, <3>5 DEF Entries
    <3> QED
      BY <2>3, <3>6 DEF Aside
  <2>8. CASE Asking(w)
    <3>1. CASE \E h \in Handles : dispatch_enter(w, h)
      <4>1. /\ slot[w].target = NoTarget
            /\ loc' = [loc EXCEPT ![w] = SetAside(NoLoc, slot[w])]
        BY <3>1 DEF dispatch_enter, Withdraw, Call, SetAside, SlotsInv, Publisher
      <4>2. loc'[w].prev = slot[w]
        BY <4>1, NoLocFacts DEF SetAside, LocType, HInv, TypeInv, ControlType
      <4>3. Aside(w)'
        BY <4>1, <4>2 DEF Aside, Discarded
      <4> QED
        BY <2>3, <4>3
    <3>2. CASE dispatch_leave(w)
      <4>1. /\ UNCHANGED current_handle /\ op' = [op EXCEPT ![w] = "leave"]
            /\ loc' = [loc EXCEPT ![w] = SetAside(NoLoc, slot[w])]
        BY <3>2 DEF dispatch_leave, Withdraw, Call, SetAside
      <4>2. loc'[w].prev = slot[w] /\ op'[w] = "leave"
        BY <4>1, NoLocFacts DEF SetAside, LocType, HInv, TypeInv, ControlType
      <4>3. Aside(w)'
        BY <1>0, <4>1, <4>2, AsideTaken
      <4> QED
        BY <2>3, <4>3
    <3>3. CASE ~dispatch_leave(w) /\ ~(\E h \in Handles : dispatch_enter(w, h))
      <4>1. pc'[w] \in Entries \ {"discard_pin"}
        <5>1. leave_end(w) => Return(w)
          BY DEF leave_end
        <5> QED
          BY <2>8, <3>3, <5>1, ReturnCalls, ClientCalls, QuietReturns DEF Asking, Client, Calls
      <4> QED
        BY <2>3, <4>1 DEF Aside, Entries
    <3> QED
      BY <3>1, <3>2, <3>3
  <2> QED
    BY <2>1, <2>4, <2>5, <2>6, <2>7, <2>8
<1> QED
  BY <1>1, <1>2

LEMMA HiddenInvariance == Spec => []HiddenInv
<1>1. Init => HiddenInv
  BY DEF Init, HiddenInv, Aside, Copied, NoIrq
<1>2. HInv /\ SlotsInv /\ PlacesInv /\ OwnersInv /\ HiddenInv /\ [Next]_vars => HiddenInv'
  BY NextAside, CopiedKept DEF HiddenInv
<1> QED
  BY <1>1, <1>2, Invariance, SlotsInvariance, PlacesInvariance, OwnersInvariance, PTL DEF Spec

-----------------------------------------------------------------------------
(* The thread that stops a session, step by step.                          *)

Stops(w, t) == loc[w].stop /\ token[t] = loc[w].arg

\* Either it has just begun, or it went on, or its next call began.
StopBegins(w) == \E h \in Handles :
    /\ stop_collector(w, h) /\ op'[w] = "begin" /\ loc'[w].arg = scheduler_token[h]
StopGoes(w) ==
    /\ loc[w].stop /\ loc'[w].arg = loc[w].arg
    /\ \/ op'[w] = op[w] /\ pc'[w] = pc[w] /\ loc'[w] = loc[w]
       \/ op'[w] = op[w] /\ (Going(w) \/ Holding(w) \/ Locking(w))
       \/ Ending(w) /\ op'[w] \in After(op[w], TRUE) /\ loc'[w].i = 1

LEMMA StopSteps ==
    ASSUME HInv, SlotsInv, OwnersInv, [Next]_vars, NEW w \in Workers, loc'[w].stop
    PROVE  StopBegins(w) \/ StopGoes(w)
<1>1. CASE pc'[w] = pc[w] /\ op'[w] = op[w] /\ loc'[w] = loc[w]
  BY <1>1 DEF StopGoes
<1>2. CASE ~(pc'[w] = pc[w] /\ op'[w] = op[w] /\ loc'[w] = loc[w])
  <2>1. vars' # vars
    BY <1>2 DEF vars, control_vars
  <2>2. PICK u \in Workers :
              \/ Asking(u) \/ Going(u) \/ Holding(u) \/ Ending(u) \/ start_select(u)
              \/ start_publish(u) \/ Locking(u) \/ Erasing(u) \/ Handling(u)
    BY <2>1, NextKinds
  <2>3. u = w /\ ~Handling(w)
    BY <1>2, <2>2, ThreadAlone, HandlingKeeps DEF Others
  <2>4. op[w] \in Ops /\ loc[w].stop \in BOOLEAN /\ NoLoc.stop = FALSE
    BY LocFields DEF HInv, TypeInv, ControlType, NoLoc
  <2>5. CASE Going(w) \/ Holding(w) \/ Locking(w)
    BY <2>5, GoingMoves, HoldingMoves, LockEnters
       DEF Moves, Same, Locking, Enters, StopGoes
  <2>6. CASE Ending(w)
    <3>1. PICK o \in After(op[w], loc[w].stop) \cap Ops : NextCall(w, o)
      BY <2>6, EndingReturns, Returns
    <3> QED
      BY <2>4, <2>6, <3>1 DEF NextCall, StopGoes
  <2>7. CASE start_select(w) \/ start_publish(w) \/ Erasing(w)
    <3>1. start_select(w) \/ start_publish(w) => ~loc[w].stop
      <4>1. start_select(w) \/ start_publish(w) => op[w] = "start"
        BY DEF start_select, start_publish, At, SlotsInv, Publisher, Matches
      <4> QED
        BY <4>1 DEF OwnersInv, Owner, Closing
    <3>2. start_select(w) => loc'[w].stop = loc[w].stop
      BY SelectOpens DEF Opens
    <3>3. start_publish(w) => loc'[w].stop = loc[w].stop
      <4>1. start_publish(w) => ReturnTo(w, "end") /\ "end" \in Ops /\ "end" # "none"
        BY DEF start_publish, Ops
      <4> QED
        BY <4>1, ReturnToLocals DEF HInv, TypeInv
    <3>4. Erasing(w) => loc'[w] = NoLoc
      BY FreeErases DEF Erasing, Erases
    <3> QED
      BY <2>4, <2>7, <3>1, <3>2, <3>3, <3>4
  <2>8. CASE Asking(w)
    <3>1. CASE dispatch_leave(w) \/ \E h \in Handles : dispatch_enter(w, h)
      <4>1. loc' = [loc EXCEPT ![w] = SetAside(NoLoc, slot[w])]
        BY <3>1 DEF dispatch_enter, dispatch_leave, Withdraw, Call, SetAside
      <4>2. ~loc'[w].stop
        BY <2>4, <4>1, NoLocFacts DEF SetAside, LocType, HInv, TypeInv, ControlType
      <4> QED
        BY <4>2
    <3>2. CASE leave_end(w) \/ start_refused(w)
      <4>1. leave_end(w) => op[w] = "leave" /\ Return(w) /\ loc[w].stop = FALSE
        BY <2>4 DEF leave_end, At, SlotsInv, Publisher, Matches, OwnersInv, Owner, Closing
      <4>2. leave_end(w) => After(op[w], loc[w].stop) = {"none"}
        BY <4>1 DEF After
      <4>3. leave_end(w) => loc'[w] = NoLoc
        BY <4>1, <4>2, Returns DEF NextCall
      <4>4. start_refused(w) => ReturnTo(w, "none") /\ "none" \in Ops
        BY DEF start_refused, Ops
      <4>5. start_refused(w) => loc'[w] = NoLoc
        BY <4>4, ReturnToLocals DEF HInv, TypeInv
      <4> QED
        BY <2>4, <3>2, <4>3, <4>5
    <3>3. CASE \E hz \in Hz : target_start(w, hz)
      <4>1. PICK hz \in Hz : loc' = [loc EXCEPT ![w] = [NoLoc EXCEPT !.hz = hz]]
        BY <3>3 DEF target_start, Call
      <4>2. ~loc'[w].stop
        BY <4>1 DEF NoLoc, HInv, TypeInv, ControlType
      <4> QED
        BY <4>2
    <3>4. CASE profiler_work(w) \/ publish_state(w)
      <4>1. loc' = [loc EXCEPT ![w] = [NoLoc EXCEPT !.arg = scheduler_token[Running(w)]]]
        BY <3>4 DEF profiler_work, publish_state, Call
      <4>2. ~loc'[w].stop
        BY <4>1 DEF NoLoc, HInv, TypeInv, ControlType
      <4> QED
        BY <4>2
    <3>5. CASE \E h \in Handles : stop_collector(w, h)
      <4>1. PICK h \in Handles : stop_collector(w, h)
        BY <3>5
      <4>2. /\ op' = [op EXCEPT ![w] = "begin"]
            /\ loc' = [loc EXCEPT ![w] = [NoLoc EXCEPT !.arg = scheduler_token[h], !.stop = TRUE]]
        BY <4>1 DEF stop_collector, Call
      <4>3. op'[w] = "begin" /\ loc'[w].arg = scheduler_token[h]
        BY <4>2 DEF NoLoc, HInv, TypeInv, ControlType
      <4> QED
        BY <4>1, <4>3 DEF StopBegins
    <3> QED
      BY <2>8, <3>1, <3>2, <3>3, <3>4, <3>5 DEF Asking, Client
  <2> QED
    BY <2>2, <2>3, <2>5, <2>6, <2>7, <2>8
<1> QED
  BY <1>1, <1>2

\* A thread that steps leaves the bridges alone, but to publish what it has started and
\* to close what it has stopped.
LEMMA BridgeSteps ==
    ASSUME HInv, [Next]_vars, NEW h \in Handles, scheduler_token'[h] # scheduler_token[h]
    PROVE  \E v \in Workers :
              \/ start_publish(v) /\ Running(v) = h
              \/ release_wait(v) /\ scheduler_token[h] = loc[v].arg
<1>1. vars' # vars
  BY DEF vars
<1>2. PICK u \in Workers :
            \/ Asking(u) \/ Going(u) \/ Holding(u) \/ Ending(u) \/ start_select(u)
            \/ start_publish(u) \/ Locking(u) \/ Erasing(u) \/ Handling(u)
  BY <1>1, NextKinds
<1>3. ~Going(u) /\ ~Holding(u) /\ ~Ending(u) /\ ~Handling(u)
  BY GoingMoves, HoldingMoves, EndingReturns, HandlingKeeps DEF SessionsStill
<1>4. ~Asking(u)
  BY DEF Asking, Client, dispatch_enter, dispatch_leave, target_start, profiler_work,
         publish_state, stop_collector, leave_end, start_refused, Return
<1>5. ~start_select(u) /\ ~Locking(u) /\ ~rollback_wait(u)
  BY LockEnters DEF start_select, GotoWith, Locking, Enters, rollback_wait
<1>6. CASE start_publish(u)
  BY <1>6 DEF start_publish, HInv, TypeInv, BridgeType
<1>7. CASE release_wait(u)
  BY <1>7 DEF release_wait, ClosedBy
<1> QED
  BY <1>2, <1>3, <1>4, <1>5, <1>6, <1>7 DEF Erasing

\* What a worker runs changes with a dispatch only.
LEMMA RunSteps ==
    ASSUME HInv, [Next]_vars, NEW v \in Workers, current_handle'[v] # current_handle[v]
    PROVE  Running(v)' = NoHandle \/ dispatch_enter(v, Running(v)')
<1>1. vars' # vars
  BY DEF vars, worker_vars
<1>2. PICK u \in Workers :
            \/ Asking(u) \/ Going(u) \/ Holding(u) \/ Ending(u) \/ start_select(u)
            \/ start_publish(u) \/ Locking(u) \/ Erasing(u) \/ Handling(u)
  BY <1>1, NextKinds
<1>3. ~Going(u) /\ ~Holding(u) /\ ~Ending(u) /\ ~Handling(u)
  BY GoingKeeps, HoldingMoves, EndingReturns, HandlingKeeps
<1>4. ~start_select(u) /\ ~start_publish(u) /\ ~Locking(u) /\ ~Erasing(u)
  BY LockEnters, FreeErases
     DEF start_select, start_publish, Locking, Enters, Erasing, Erases, worker_vars
<1>5. CASE \E h \in Handles : dispatch_enter(u, h)
  BY <1>5 DEF dispatch_enter, Running, HInv, TypeInv, WorkerType
<1>6. CASE leave_end(u)
  BY <1>6 DEF leave_end, Running, HInv, TypeInv, WorkerType
<1>7. CASE Asking(u) /\ ~leave_end(u) /\ ~\E h \in Handles : dispatch_enter(u, h)
  BY <1>7 DEF Asking, Client, dispatch_leave, target_start, profiler_work, publish_state,
              stop_collector, start_refused, worker_vars
<1> QED
  BY <1>2, <1>3, <1>4, <1>5, <1>6, <1>7

-----------------------------------------------------------------------------
(* The inductive invariant: who runs a service that is stopped.            *)

\* Skynet closes a VM outside of a dispatch: its bridge keeps its token until then, and
\* no other worker runs it.
Alone(w, t) ==
    /\ handle[t] \in Handles /\ scheduler_token[handle[t]] = loc[w].arg
    /\ \A v \in Workers \ {w} : Running(v) # handle[t]

AloneInv == ~ForeignStop => \A w \in Workers, t \in Targets : Stops(w, t) => Alone(w, t)

LEMMA NextAlone ==
    ASSUME HInv, SlotsInv, OwnersInv, AloneInv, [Next]_vars
    PROVE  AloneInv'
<1> SUFFICES ASSUME ~ForeignStop, NEW w \in Workers, NEW t \in Targets, Stops(w, t)'
             PROVE  Alone(w, t)'
  BY DEF AloneInv
<1>1. StopBegins(w) \/ StopGoes(w)
  BY StopSteps DEF Stops
<1>2. CASE StopBegins(w)
  <2>1. PICK h \in Handles : stop_collector(w, h) /\ loc'[w].arg = scheduler_token[h]
    BY <1>2 DEF StopBegins
  <2>2. /\ UNCHANGED token /\ UNCHANGED handle /\ UNCHANGED current_handle
        /\ UNCHANGED scheduler_token /\ scheduler_token[h] # 0
        /\ \A v \in Workers \ {w} : Running(v) # h
    BY <2>1 DEF stop_collector, life_vars, target_vars, worker_vars
  <2>3. token[t] = scheduler_token[h]
    BY <2>1, <2>2 DEF Stops
  <2>4. handle[t] = h
    BY <2>2, <2>3 DEF OwnersInv, Bridged
  <2> QED
    BY <2>1, <2>2, <2>4 DEF Alone, Running
<1>3. CASE StopGoes(w)
  <2>1. loc[w].stop /\ loc'[w].arg = loc[w].arg
    BY <1>3 DEF StopGoes
  <2>2. loc[w].arg # 0 /\ loc[w].arg <= next_token /\ loc[w].arg \in Nat /\ op[w] # "start"
    BY <2>1, LocFields DEF OwnersInv, Owner, Closing, HInv, TypeInv, ControlType
  <2>3. token[t] = loc[w].arg /\ handle'[t] = handle[t]
    BY <2>1, <2>2, NextLasts DEF Lasting, Stops
  <2>4. Alone(w, t)
    BY <2>1, <2>3 DEF Stops, AloneInv
  <2>5. scheduler_token'[handle[t]] = scheduler_token[handle[t]]
    <3> SUFFICES ASSUME scheduler_token'[handle[t]] # scheduler_token[handle[t]]
                 PROVE  FALSE
      OBVIOUS
    <3>1. PICK v \in Workers :
              \/ start_publish(v) /\ Running(v) = handle[t]
              \/ release_wait(v) /\ scheduler_token[handle[t]] = loc[v].arg
      BY <2>4, BridgeSteps DEF Alone
    <3>2. CASE start_publish(v) /\ Running(v) = handle[t]
      <4>1. op[v] = "start"
        BY <3>2 DEF start_publish, At, SlotsInv, Publisher, Matches
      <4> QED
        BY <2>2, <2>4, <3>2, <4>1 DEF Alone
    <3>3. CASE release_wait(v) /\ scheduler_token[handle[t]] = loc[v].arg
      <4>1. loc[v].arg = loc[w].arg /\ loc[v].stop /\ loc'[v] = NoLoc
        BY <2>4, <3>3, FreeErases DEF Alone, Erases, release_wait, At, OwnersInv, Owner, Closing
      <4>2. v = w
        BY <2>1, <4>1 DEF OwnersInv, Rivals
      <4> QED
        BY <4>1, <4>2 DEF Stops, NoLoc
    <3> QED
      BY <3>1, <3>2, <3>3
  <2>6. ASSUME NEW v \in Workers \ {w}, Running(v)' = handle[t]
        PROVE  FALSE
    <3>1. current_handle'[v] # current_handle[v] /\ handle[t] # NoHandle
      BY <2>4, <2>6, HandlesAssumption DEF Alone, Running
    <3>2. dispatch_enter(v, handle[t])
      BY <2>6, <3>1, RunSteps
    <3> QED
      BY <2>1, <2>4, <3>2 DEF dispatch_enter, Alone, BeingStopped
  <2> QED
    BY <2>1, <2>3, <2>4, <2>5, <2>6 DEF Alone
<1> QED
  BY <1>1, <1>2, <1>3

LEMMA AloneInvariance == Spec => []AloneInv
<1>1. Init => AloneInv
  BY DEF Init, AloneInv, Stops, NoLoc
<1> QED
  BY <1>1, NextAlone, Invariance, SlotsInvariance, OwnersInvariance, PTL DEF Spec

-----------------------------------------------------------------------------
(* The inductive invariant: the slot of a thread that stops a session.     *)

\* What stop_collector does once its quiesce has withdrawn the slot.
Past(w) == loc[w].stop /\ op[w] \in {"next", "take", "end", "release"}
Withheld(w) ==
    \/ Past(w)
    \/ op[w] = "quiesce" /\ pc[w] \notin {"quiesce_lock", "quiesce_count", "quiesce_hz"}

WithheldInv == \A w \in Workers, t \in Targets :
    Stops(w, t) /\ Withheld(w) => ~Publishes(w, t)

LEMMA WithheldSteps ==
    ASSUME HInv, OwnersInv, PlacesInv, NEW w \in Workers, StopGoes(w), Withheld(w)'
    PROVE  Withheld(w) \/ quiesce_hz(w)
<1>1. loc[w].stop /\ op[w] \in {"begin", "quiesce", "next", "take", "end", "release"}
  BY DEF StopGoes, OwnersInv, Owner, Closing
<1>2. CASE op'[w] = op[w] /\ op[w] # "quiesce"
  BY <1>1, <1>2 DEF Withheld, Past
<1>3. CASE op'[w] = op[w] /\ op[w] = "quiesce"
  <2>1. pc'[w] \notin {"quiesce_lock", "quiesce_count", "quiesce_hz"}
    BY <1>3 DEF Withheld, Past
  <2>2. ~Ending(w) \/ Withheld(w)
    BY <1>3, EndingReturns DEF Withheld
  <2>3. Going(w) => pc[w] \notin {"quiesce_lock", "quiesce_count", "quiesce_hz"}
    BY GoingMoves DEF Moves, Apart, Locked, Dropping, Dropped
  <2>4. Locking(w) => pc[w] \notin {"quiesce_lock", "quiesce_count", "quiesce_hz"}
    BY <2>1, LockEnters DEF Locking, Enters, Stages
  <2>5. Holding(w) => pc[w] \notin {"quiesce_lock", "quiesce_count"}
    BY <2>1, HoldingMoves
  <2>6. Holding(w) /\ pc[w] = "quiesce_hz" => quiesce_hz(w)
    BY DEF Holding, At, start_hz, start_count, rollback_hz, drop_count, publish_even
  <2> QED
    BY <1>3, <2>1, <2>2, <2>3, <2>4, <2>5, <2>6 DEF StopGoes, Withheld
<1>4. CASE op'[w] # op[w]
  <2>1. Ending(w) /\ op'[w] \in After(op[w], TRUE)
    BY <1>4 DEF StopGoes
  <2>2. CASE op[w] = "begin"
    <3>1. op'[w] = "quiesce"
      BY <2>1, <2>2 DEF After
    <3>2. PICK o \in After(op[w], loc[w].stop) \cap Ops : NextCall(w, o)
      BY <2>1, EndingReturns, Returns
    <3>3. pc'[w] = "quiesce_lock"
      BY <3>1, <3>2 DEF NextCall, Entry
    <3> QED
      BY <3>1, <3>3 DEF Withheld, Past
  <2>3. CASE op[w] = "quiesce"
    BY <2>1, <2>3, EndingReturns DEF Withheld
  <2>4. CASE op[w] \in {"next", "take", "end", "release"}
    BY <1>1, <2>4 DEF Withheld, Past
  <2> QED
    BY <1>1, <2>2, <2>3, <2>4
<1> QED
  BY <1>2, <1>3, <1>4

\* While a thread stops a session, only the quiesce changes its slot.
LEMMA StopperSlot ==
    ASSUME HInv, SlotsInv, PlacesInv, OwnersInv, [Next]_vars, NEW w \in Workers,
           loc[w].stop, slot'[w] # slot[w]
    PROVE  quiesce_hz(w)
<1>1. /\ op[w] \in {"begin", "quiesce", "next", "take", "end", "release"}
      /\ pc[w] \in Places(op[w])
  BY DEF OwnersInv, Owner, Closing, PlacesInv
<1>2. pc[w] \notin {"idle", "start_count", "publish_even", "start_publish"}
  BY <1>1 DEF Places, Syncing, Failing, Finding
<1>3. vars' # vars
  BY DEF vars, worker_vars
<1>4. PICK u \in Workers :
            \/ Asking(u) \/ Going(u) \/ Holding(u) \/ Ending(u) \/ start_select(u)
            \/ start_publish(u) \/ Locking(u) \/ Erasing(u) \/ Handling(u)
  BY <1>3, NextKinds
<1>5. slot' # slot
  OBVIOUS
<1>6. ~Going(u) /\ ~Handling(u) /\ ~start_select(u) /\ ~Locking(u) /\ ~Erasing(u)
  BY <1>5, GoingKeeps, HandlingKeeps, LockEnters, FreeErases
     DEF start_select, Locking, Enters, Erasing, Erases, worker_vars
<1>7. ~Ending(u)
  <2>1. Ending(u) => bind_dispatch(u) /\ u = w
    BY <1>5, EndingKeeps
  <2> QED
    BY <1>1, <2>1 DEF bind_dispatch, Use
<1>8. ~start_publish(u)
  <2>1. start_publish(u) => u = w /\ pc[u] = "start_publish"
    BY DEF start_publish, At, PublishMasked, HInv, TypeInv, WorkerType
  <2> QED
    BY <1>2, <2>1
<1>9. ~Asking(u)
  <2>1. Asking(u) => u = w /\ pc[u] = "idle"
    BY <1>5 DEF Asking, Client, dispatch_enter, dispatch_leave, Withdraw, PublishMasked,
                target_start, profiler_work, publish_state, stop_collector, leave_end,
                start_refused, worker_vars, Idle, At, HInv, TypeInv, WorkerType
  <2> QED
    BY <1>2, <2>1
<1>10. CASE Holding(u)
  <2>1. u = w
    BY <1>10, HoldingKeeps
  <2>2. Holding(u) => quiesce_hz(u) \/ start_count(u) \/ publish_even(u)
    BY <1>5 DEF Holding, start_hz, rollback_hz, drop_count, worker_vars
  <2> QED
    BY <1>2, <1>10, <2>1, <2>2 DEF start_count, publish_even, At
<1> QED
  BY <1>4, <1>6, <1>7, <1>8, <1>9, <1>10

\* A session that is being stopped is that of the step before.
LEMMA StillStops ==
    ASSUME HInv, SlotsInv, OwnersInv, [Next]_vars, NEW w \in Workers, NEW t \in Targets,
           StopGoes(w), Stops(w, t)'
    PROVE  Stops(w, t) /\ token'[t] = token[t] /\ loc[w].arg # 0
<1>1. loc[w].stop /\ loc'[w].arg = loc[w].arg
  BY DEF StopGoes
<1>2. loc[w].arg # 0 /\ loc[w].arg <= next_token /\ loc[w].arg \in Nat
  BY <1>1, LocFields DEF OwnersInv, Owner, Closing, HInv, TypeInv, ControlType
<1> QED
  BY <1>1, <1>2, NextLasts DEF Lasting, Stops

LEMMA NextWithheld ==
    ASSUME HInv, WordsInv, SlotsInv, PlacesInv, OwnersInv, WithheldInv, [Next]_vars
    PROVE  WithheldInv'
<1> SUFFICES ASSUME NEW w \in Workers, NEW t \in Targets, Stops(w, t)', Withheld(w)'
             PROVE  ~Publishes(w, t)'
  BY DEF WithheldInv
<1>1. StopGoes(w)
  <2>1. ~StopBegins(w)
    BY DEF StopBegins, Withheld, Past
  <2> QED
    BY <2>1, StopSteps DEF Stops
<1>2. Stops(w, t) /\ token'[t] = token[t] /\ loc[w].arg # 0
  BY <1>1, StillStops
<1>3. CASE quiesce_hz(w)
  <2>1. pc[w] = "quiesce_hz" /\ op[w] = "quiesce" /\ loc[w].target \in Targets
    BY <1>3 DEF quiesce_hz, At, PlacesInv, Places, Syncing, Failing, Finding, Rollback, HInv,
                Local, OwnsTarget
  <2>2. token[loc[w].target] = loc[w].arg
    BY <2>1 DEF OwnersInv, Owner, Closing
  <2>3. t = loc[w].target
    BY <1>2, <2>1, <2>2 DEF WordsInv, Stops
  <2>4. NoSlot.target # t
    BY TargetsAssumption DEF NoSlot
  <2> QED
    BY <1>3, <2>3, <2>4 DEF quiesce_hz, PublishMasked, Publishes, HInv, TypeInv, WorkerType
<1>4. CASE ~quiesce_hz(w)
  <2>1. Withheld(w) /\ slot'[w] = slot[w]
    BY <1>1, <1>2, <1>4, WithheldSteps, StopperSlot DEF Stops
  <2> QED
    BY <1>2, <2>1 DEF WithheldInv, Publishes
<1> QED
  BY <1>3, <1>4

LEMMA WithheldInvariance == Spec => []WithheldInv
<1>1. Init => WithheldInv
  BY DEF Init, WithheldInv, Stops, NoLoc
<1> QED
  BY <1>1, NextWithheld, Invariance, WordsInvariance, SlotsInvariance, PlacesInvariance,
     OwnersInvariance, PTL DEF Spec

-----------------------------------------------------------------------------
(* The inductive invariant: what is left of a session that is stopped.     *)

\* Nobody will add to it: no handler met it when it was ACTIVE, no scan tells it.
Quieted(t) == \A v \in Workers :
    /\ irq[v].pc = "use" /\ irq[v].slot.target = t => irq[v].state # "ACTIVE"
    /\ pc[v] = "fail_use" => loc[v].i # t

\* After the wait of the quiesce a call finds its target, and what it is to take.
Drains(w, t) ==
    Past(w) =>
        /\ Quieted(t)
        /\ op[w] \in {"next", "take"} => loc[w].i <= t
        /\ op[w] \in {"take", "end", "release"} => ring[t] = <<>>
        /\ ~ForeignStop /\ op[w] \in {"end", "release"} => quality[t] = {}

DrainInv == \A w \in Workers, t \in Targets : Stops(w, t) => Drains(w, t)

LEMMA QuietedKept ==
    ASSUME HInv, [Next]_vars, NEW t \in Targets, life[t].state # "ACTIVE", Quieted(t)
    PROVE  Quieted(t)'
<1> SUFFICES ASSUME NEW v \in Workers
             PROVE  /\ irq'[v].pc = "use" /\ irq'[v].slot.target = t => irq'[v].state # "ACTIVE"
                    /\ pc'[v] = "fail_use" => loc'[v].i # t
  BY DEF Quieted
<1>1. CASE pc'[v] = pc[v] /\ loc'[v] = loc[v] /\ irq'[v] = irq[v]
  BY <1>1 DEF Quieted
<1>2. CASE ~(pc'[v] = pc[v] /\ loc'[v] = loc[v] /\ irq'[v] = irq[v])
  <2>1. vars' # vars
    BY <1>2 DEF vars, control_vars
  <2>2. PICK u \in Workers :
              \/ Asking(u) \/ Going(u) \/ Holding(u) \/ Ending(u) \/ start_select(u)
              \/ start_publish(u) \/ Locking(u) \/ Erasing(u) \/ Handling(u)
    BY <2>1, NextKinds
  <2>3. u = v
    BY <1>2, <2>2, ThreadAlone, HandlingKeeps DEF Others
  <2>4. CASE Handling(v)
    <3>1. pc'[v] = pc[v] /\ loc'[v] = loc[v]
      BY <2>4, HandlingKeeps
    <3>2. tick(v) => UNCHANGED irq
      BY DEF tick
    <3>3. handler_enter(v) => irq'[v].pc # "use"
      BY DEF handler_enter, NoIrq, HInv, TypeInv, BridgeType
    <3>4. handler_pin(v) => /\ irq'[v].slot = irq[v].slot
                            /\ irq'[v].state = life[irq[v].slot.target].state
      BY DEF handler_pin, HInv, TypeInv, BridgeType, IrqType
    <3>5. Handler(v) /\ ~handler_pin(v) => irq'[v].pc = "none"
      <4>1. NoIrq.pc = "none"
        BY DEF NoIrq
      <4>2. Handler(v) /\ ~handler_pin(v) => irq' = [irq EXCEPT ![v] = NoIrq]
        BY DEF Handler, handler_unpinned, handler_push, handler_reject, handler_stale_token,
               HandlerReturn
      <4> QED
        BY <4>1, <4>2 DEF HInv, TypeInv, BridgeType
    <3> QED
      BY <2>4, <3>1, <3>2, <3>3, <3>4, <3>5 DEF Handling, Quieted
  <2>5. CASE ~Handling(v)
    <3>1. irq'[v] = irq[v]
      BY <2>2, <2>3, <2>5, ThreadAlone
    <3>2. ASSUME pc'[v] = "fail_use" PROVE fail_pin(v)
      <4>1. op[v] \in Ops
        BY DEF HInv, TypeInv, ControlType
      <4>2. ~Ending(v) /\ ~start_select(v) /\ ~start_publish(v) /\ ~Locking(v) /\ ~Erasing(v)
        <5>1. Ending(v) => pc'[v] \in Entries
          BY EndingReturns, ReturnCalls DEF Calls
        <5>2. start_publish(v) => ReturnTo(v, "end") /\ "end" \in Ops /\ Entry("end") = "find"
          BY DEF start_publish, Ops, Entry
        <5>3. start_publish(v) => pc'[v] = "find"
          BY <5>2, ReturnToFacts DEF HInv, TypeInv
        <5>4. start_select(v) => pc'[v] = "start_hz"
          BY <4>1 DEF start_select, GotoWith, HInv, TypeInv, ControlType
        <5>5. Locking(v) => pc'[v] \in {"rollback_count", "quiesce_count", "release_wait"}
          BY LockEnters DEF Locking, Enters, Stages
        <5>6. Erasing(v) => pc'[v] = "idle"
          BY FreeErases DEF Erasing, Erases
        <5> QED
          BY <3>2, <5>1, <5>3, <5>4, <5>5, <5>6 DEF Entries
      <4>3. ~Holding(v)
        BY <3>2, HoldingMoves
      <4>4. ~Asking(v)
        <5>1. Asking(v) => \E o \in Ops : pc' = [pc EXCEPT ![v] = Entry(o)]
          <6>1. {"enter", "leave", "start", "begin", "publish", "none"} \subseteq Ops
            BY DEF Ops
          <6>2. leave_end(v) => \E o \in After(op[v], loc[v].stop) \cap Ops : ReturnTo(v, o)
            <7>1. loc[v].stop \in BOOLEAN
              BY LocFields DEF HInv, TypeInv, ControlType
            <7> QED
              BY <4>1, <7>1, AfterIsNew DEF leave_end, Return
          <6> QED
            BY <6>1, <6>2 DEF Asking, Client, dispatch_enter, dispatch_leave, Withdraw,
               target_start, profiler_work, publish_state, stop_collector, start_refused,
               ReturnTo, Call
        <5> QED
          BY <3>2, <5>1, EntryFacts DEF Entries, HInv, TypeInv, ControlType
      <4>5. Going(v) => fail_pin(v)
        BY <3>2, <4>1, DiscardGoes, SyncGoes, FailGoes, FindGoes, EndGoes
           DEF Going, GoesOn, GoesNext, GoesBack, AfterSync
      <4> QED
        BY <2>2, <2>3, <2>5, <4>2, <4>3, <4>4, <4>5
    <3>3. fail_pin(v) => life[loc[v].i].state = "ACTIVE" /\ loc'[v].i = loc[v].i
      BY FailGoes DEF fail_pin, target_pin, GoesOn
    <3> QED
      BY <3>1, <3>2, <3>3 DEF Quieted
  <2> QED
    BY <2>4, <2>5
<1> QED
  BY <1>1, <1>2

\* Who changes a ring.
LEMMA RingActions ==
    ASSUME HInv, [Next]_vars, NEW t \in Targets, ring'[t] # ring[t]
    PROVE  \E v \in Workers :
              \/ handler_push(v) /\ irq[v].slot.target = t
              \/ next_event(v) /\ loc[v].i = t
              \/ start_select(v) \/ Erasing(v)
<1>1. vars' # vars /\ ring' # ring
  BY DEF vars, target_vars
<1>2. PICK u \in Workers :
            \/ Asking(u) \/ Going(u) \/ Holding(u) \/ Ending(u) \/ start_select(u)
            \/ start_publish(u) \/ Locking(u) \/ Erasing(u) \/ Handling(u)
  BY <1>1, NextKinds
<1>3. ring \in [Targets -> Seq(Handles \cup {NoHandle})]
  BY DEF HInv, TypeInv, TargetType
<1>4. Going(u) => next_event(u) /\ loc[u].i = t
  <2>1. Going(u) /\ ~next_event(u) => UNCHANGED ring
    BY DEF Going, discard_pin, fail_pin, find_pin, discard_use, fail_use, find_lost, find,
           find_missed, fail_skip, fail_end, sync_count, sync_hz, sync_fails, discard_unowned,
           quiesce_end, publish_odd, target_vars
  <2>2. next_event(u) => loc[u].i = t
    BY <1>3 DEF next_event
  <2> QED
    BY <1>1, <2>1, <2>2
<1>5. ~Holding(u) /\ ~Ending(u)
  BY <1>1 DEF Holding, start_hz, start_count, rollback_hz, quiesce_hz, drop_count, publish_even,
              Ending, find_none, publish_unpin, next_empty, take_quality, event_drain,
              quiesce_wait, bind_dispatch, target_vars
<1>6. ~Asking(u) /\ ~start_publish(u)
  BY <1>1 DEF Asking, Client, dispatch_enter, dispatch_leave, target_start, profiler_work,
              publish_state, stop_collector, leave_end, start_refused, start_publish, target_vars
<1>7. ~Locking(u)
  BY <1>1, LockEnters DEF Locking, Enters, target_vars
<1>8. Handling(u) => handler_push(u) /\ irq[u].slot.target = t
  <2>1. Handling(u) /\ ~handler_push(u) => UNCHANGED ring
    BY DEF Handling, tick, handler_enter, Handler, handler_pin, handler_unpinned,
           handler_reject, handler_stale_token, target_vars
  <2>2. handler_push(u) => irq[u].slot.target = t
    BY <1>3 DEF handler_push
  <2> QED
    BY <1>1, <2>1, <2>2
<1> QED
  BY <1>2, <1>4, <1>5, <1>6, <1>7, <1>8

\* ... other than to empty it.
LEMMA RingSteps ==
    ASSUME HInv, SlotsInv, [Next]_vars, NEW t \in Targets, ring'[t] # ring[t], ring'[t] # <<>>
    PROVE  \E v \in Workers :
              \/ handler_push(v) /\ irq[v].slot.target = t
              \/ next_event(v) /\ loc[v].i = t
<1>1. \A u \in Workers : ~start_select(u)
  BY SelectOpens DEF Opens
<1>2. \A u \in Workers : ~Erasing(u)
  BY FreeErases DEF Erasing, Erases
<1> QED
  BY <1>1, <1>2, RingActions

\* Who counts something for a session.
Counts(v, t) ==
    \/ discard_use(v) /\ loc[v].prev.target = t /\ token[t] = loc[v].prev.token
    \/ fail_use(v) /\ loc[v].i = t
    \/ quiesce_end(v) /\ loc[v].target = t
    \/ handler_reject(v) /\ irq[v].slot.target = t

LEMMA CountSteps ==
    ASSUME HInv, SlotsInv, [Next]_vars, NEW t \in Targets,
           quality'[t] # quality[t], quality'[t] # {}
    PROVE  \E v \in Workers : Counts(v, t)
<1>1. vars' # vars /\ quality' # quality
  BY DEF vars, target_vars
<1>2. PICK u \in Workers :
            \/ Asking(u) \/ Going(u) \/ Holding(u) \/ Ending(u) \/ start_select(u)
            \/ start_publish(u) \/ Locking(u) \/ Erasing(u) \/ Handling(u)
  BY <1>1, NextKinds
<1>3. quality \in [Targets -> SUBSET Kinds]
  BY DEF HInv, TypeInv, TargetType
<1>4. Going(u) => Counts(u, t)
  <2>1. Going(u) => discard_use(u) \/ fail_use(u) \/ quiesce_end(u)
    BY <1>1
       DEF Going, discard_pin, fail_pin, find_pin, find_lost, next_event, find, find_missed,
           fail_skip, fail_end, sync_count, sync_hz, sync_fails, discard_unowned, publish_odd,
           target_vars
  <2>2. discard_use(u) => loc[u].prev.target = t /\ token[t] = loc[u].prev.token
    BY <1>1, <1>3 DEF discard_use, Count
  <2>3. fail_use(u) => loc[u].i = t
    BY <1>3 DEF fail_use, Count
  <2>4. quiesce_end(u) => loc[u].target = t
    BY <1>1, <1>3 DEF quiesce_end, Count
  <2> QED
    BY <2>1, <2>2, <2>3, <2>4 DEF Counts
<1>5. ~Holding(u)
  BY <1>1 DEF Holding, start_hz, start_count, rollback_hz, quiesce_hz, drop_count, publish_even,
              target_vars
<1>6. ~Ending(u)
  <2>1. ~take_quality(u)
    BY <1>3 DEF take_quality
  <2> QED
    BY <1>1, <2>1, EndingKeeps
<1>7. ~Asking(u) /\ ~start_publish(u)
  BY <1>1 DEF Asking, Client, dispatch_enter, dispatch_leave, target_start, profiler_work,
              publish_state, stop_collector, leave_end, start_refused, start_publish, target_vars
<1>8. ~Locking(u) /\ ~Erasing(u) /\ ~start_select(u)
  <2>1. ~Locking(u) /\ ~Erasing(u)
    BY <1>1, LockEnters, FreeErases DEF Locking, Enters, target_vars, Erasing, Erases
  <2>2. ~start_select(u)
    BY <1>3 DEF start_select
  <2> QED
    BY <2>1, <2>2
<1>9. Handling(u) => Counts(u, t)
  <2>1. Handling(u) => handler_reject(u)
    BY <1>1 DEF Handling, tick, handler_enter, Handler, handler_pin, handler_unpinned,
                handler_push, handler_stale_token, target_vars
  <2>2. handler_reject(u) => irq[u].slot.target = t
    BY <1>3 DEF handler_reject, Count
  <2> QED
    BY <2>1, <2>2 DEF Counts
<1> QED
  BY <1>2, <1>4, <1>5, <1>6, <1>7, <1>8, <1>9

LEMMA RingKept ==
    ASSUME HInv, SlotsInv, [Next]_vars, NEW t \in Targets, Quieted(t), ring[t] = <<>>
    PROVE  ring'[t] = <<>>
<1> SUFFICES ASSUME ring'[t] # <<>> PROVE FALSE
  OBVIOUS
<1>1. PICK v \in Workers :
          \/ handler_push(v) /\ irq[v].slot.target = t
          \/ next_event(v) /\ loc[v].i = t
  BY RingSteps
<1>2. ~(next_event(v) /\ loc[v].i = t)
  BY DEF next_event
<1>3. handler_push(v) => irq[v].pc = "use" /\ irq[v].state = "ACTIVE"
  BY DEF handler_push, InHandler, Rejection
<1> QED
  BY <1>1, <1>2, <1>3 DEF Quieted

\* The counters of a session that was drained stay as they were taken.
LEMMA QualityKept ==
    ASSUME HInv, SlotsInv, PlacesInv, OwnersInv, HiddenInv, AloneInv, WithheldInv, [Next]_vars,
           NEW w \in Workers, NEW t \in Targets, Stops(w, t), Past(w), ~ForeignStop, Quieted(t),
           quality[t] = {}
    PROVE  quality'[t] = {}
<1> SUFFICES ASSUME quality'[t] # {} PROVE FALSE
  OBVIOUS
<1>1. PICK v \in Workers : Counts(v, t)
  BY CountSteps
<1>2. /\ Alone(w, t) /\ loc[w].stop /\ loc[w].arg = token[t] /\ t # NoTarget
      /\ op[w] \in {"next", "take", "end", "release"}
  BY TargetsAssumption DEF AloneInv, Stops, Past
<1>3. loc[v].stop /\ loc[v].arg = token[t] => v = w
  BY <1>2 DEF OwnersInv, Rivals
<1>4. CASE discard_use(v) /\ loc[v].prev.target = t /\ token[t] = loc[v].prev.token
  <2>1. pc[v] = "discard_use" /\ v # w
    <3>1. pc[v] = "discard_use"
      BY <1>4 DEF discard_use, At
    <3> QED
      BY <1>2, <3>1 DEF PlacesInv, Places, Finding
  <2>2. IF op[v] = "quiesce" THEN token[t] = loc[v].arg ELSE Runs(v, t)
    BY <1>2, <1>4, <2>1 DEF HiddenInv, Aside, Discarded
  <2>3. op[v] = "quiesce" => loc[v].stop
    BY DEF OwnersInv, Owner, Closing
  <2> QED
    BY <1>2, <1>3, <2>1, <2>2, <2>3 DEF Alone, Runs
<1>5. CASE fail_use(v) /\ loc[v].i = t
  BY <1>5 DEF fail_use, At, Quieted
<1>6. CASE quiesce_end(v) /\ loc[v].target = t
  <2>1. pc[v] = "quiesce_end" /\ op[v] = "quiesce"
    BY <1>6 DEF quiesce_end, At, PlacesInv, Places, Syncing, Failing, Finding, Rollback
  <2>2. loc[v].stop /\ loc[v].arg = token[t]
    BY <1>6, <2>1 DEF OwnersInv, Owner, Closing
  <2> QED
    BY <1>2, <1>3, <2>1, <2>2
<1>7. CASE handler_reject(v) /\ irq[v].slot.target = t
  <2>1. irq[v].pc = "use" /\ token[t] = irq[v].slot.token
    BY <1>7 DEF handler_reject, InHandler, SameSession
  <2>2. irq[v].slot = slot[v]
    BY <2>1 DEF HiddenInv, Copied
  <2>3. Publishes(v, t)
    BY <1>7, <2>1, <2>2 DEF Publishes
  <2>4. v # w
    BY <2>3 DEF WithheldInv, Withheld
  <2>5. Running(v) = handle[t]
    BY <1>2, <2>3 DEF Publishes, SlotsInv, Publisher, Sound
  <2> QED
    BY <1>2, <2>4, <2>5 DEF Alone
<1> QED
  BY <1>1, <1>4, <1>5, <1>6, <1>7 DEF Counts

\* The scan of a call that has its session: it does not go past it.
LEMMA ScanStays ==
    ASSUME HInv, PlacesInv, NEW w \in Workers, NEW t \in Targets, Stops(w, t),
           op[w] \in {"next", "take"}, loc[w].i <= t, life[t].state = "STOPPING",
           Going(w) \/ Holding(w) \/ Locking(w)
    PROVE  loc'[w].i <= t
<1>1. /\ t \in Nat /\ 1 <= t /\ loc[w].i \in Nat /\ pc[w] \in Finding
      /\ t <= NumTargets /\ NumTargets \in Nat
  BY TargetsAssumption, LocFields DEF Targets, HInv, TypeInv, ControlType, PlacesInv, Places
<1>2. Going(w)
  <2>1. ~Holding(w)
    BY <1>1, HoldingMoves DEF Finding
  <2>2. ~Locking(w)
    BY <1>1, LockEnters DEF Locking, Enters, Stages, Finding
  <2> QED
    BY <2>1, <2>2
<1>3. find(w) \/ find_pin(w) \/ find_missed(w) \/ find_lost(w) \/ next_event(w)
  <2>1. ~publish_odd(w)
    BY DEF publish_odd, Use
  <2> QED
    BY <1>1, <1>2, <2>1
       DEF Going, Finding, At, discard_pin, fail_pin, discard_use, fail_use, fail_skip, fail_end,
           sync_count, sync_hz, sync_fails, discard_unowned, quiesce_end
<1>4. Found(w, t)
  BY DEF Found, Allowed, ActiveOrStopping, Wanted, Stops
<1>5. find(w) \/ find_missed(w) \/ find_lost(w) => loc'[w].i = loc[w].i \/ loc[w].i # t
  BY <1>4, FindGoes DEF GoesOn, Found, find_missed, find_lost
<1>6. loc'[w].i \in {loc[w].i, loc[w].i + 1, 1} /\ (find_pin(w) => loc'[w].i = loc[w].i)
      /\ (next_event(w) => loc'[w].i = 1)
  BY <1>3, FindGoes DEF GoesOn, GoesNext, GoesBack
<1> QED
  BY <1>1, <1>3, <1>5, <1>6

\* How the calls of stop_collector follow each other once its quiesce is over.
LEMMA PastSteps ==
    ASSUME HInv, WordsInv, PlacesInv, OwnersInv, DrainInv,
           NEW w \in Workers, NEW t \in Targets, Stops(w, t), StopGoes(w), Past(w)'
    PROVE  \/ Past(w) /\ op'[w] = op[w]
           \/ quiesce_wait(w) /\ life[t].readers = 0 /\ op'[w] = "next"
           \/ Past(w) /\ next_empty(w) /\ loc[w].i = t /\ op'[w] = "take"
           \/ Past(w) /\ take_quality(w) /\ loc[w].i = t /\ op'[w] \in {"end", "release"}
           \/ Past(w) /\ op[w] = "end" /\ op'[w] = "release"
<1>1. /\ loc[w].stop /\ op[w] \in {"begin", "quiesce", "next", "take", "end", "release"}
      /\ loc[w].arg # 0 /\ pc[w] \in Places(op[w])
  BY DEF StopGoes, OwnersInv, Owner, Closing, PlacesInv
<1>2. CASE op'[w] = op[w]
  BY <1>1, <1>2 DEF Past
<1>3. CASE op'[w] # op[w]
  <2>1. /\ Ending(w) /\ op'[w] \in After(op[w], TRUE)
        /\ op'[w] \in {"next", "take", "end", "release"}
    BY <1>3 DEF StopGoes, Past
  <2>2. CASE op[w] = "begin" \/ op[w] = "release"
    BY <2>1, <2>2 DEF After
  <2>3. CASE op[w] = "quiesce"
    <3>1. quiesce_wait(w)
      <4>1. pc[w] \notin {"find", "find_use", "publish_unpin"}
        BY <1>1, <2>3 DEF Places, Syncing, Failing
      <4> QED
        BY <2>1, <4>1 DEF Ending, find_none, publish_unpin, next_empty, take_quality,
                          event_drain, bind_dispatch, Use, At
    <3>2. /\ loc[w].target \in Targets /\ token[loc[w].target] = loc[w].arg
      <4>1. pc[w] = "quiesce_wait"
        BY <3>1 DEF quiesce_wait, At
      <4> QED
        BY <2>3, <4>1 DEF OwnersInv, Owner, Closing, HInv, Local, OwnsTarget
    <3>3. t = loc[w].target
      BY <1>1, <3>2 DEF WordsInv, Stops
    <3> QED
      BY <2>1, <2>3, <3>1, <3>3 DEF quiesce_wait, Unpinned, After
  <2>4. CASE op[w] = "end"
    BY <1>1, <2>1, <2>4 DEF After, Past
  <2>5. CASE op[w] \in {"next", "take"}
    <3>1. loc[w].i <= t /\ Past(w)
      BY <1>1, <2>5 DEF DrainInv, Drains, Past
    <3>2. ~find_none(w)
      <4>1. t <= NumTargets /\ t \in Nat /\ NumTargets \in Nat /\ loc[w].i \in Nat
        BY TargetsAssumption, LocFields DEF Targets, HInv, TypeInv, ControlType
      <4> QED
        BY <3>1, <4>1 DEF find_none
    <3>3. (op[w] = "next" /\ next_empty(w)) \/ (op[w] = "take" /\ take_quality(w))
      <4>1. pc[w] \in Finding
        BY <1>1, <2>5 DEF Places
      <4> QED
        BY <2>1, <2>5, <3>2, <4>1 DEF Ending, publish_unpin, next_empty, take_quality,
           event_drain, quiesce_wait, bind_dispatch, Use, At, Finding
    <3>4. loc[w].i = t
      <4>1. /\ pc[w] = "find_use" /\ token[loc[w].i] = loc[w].arg
        BY <3>3 DEF next_empty, take_quality, Use, At, Wanted
      <4>2. loc[w].i \in Targets
        BY <4>1 DEF HInv, Local, ScanPcs
      <4> QED
        BY <1>1, <4>1, <4>2 DEF WordsInv, Stops
    <3> QED
      BY <2>1, <3>1, <3>3, <3>4 DEF After, Drain
  <2> QED
    BY <1>1, <2>2, <2>3, <2>4, <2>5
<1> QED
  BY <1>2, <1>3

LEMMA NextDrains ==
    ASSUME HInv, WordsInv, SlotsInv, PlacesInv, OwnersInv, HiddenInv, AloneInv, WithheldInv,
           DrainInv, [Next]_vars
    PROVE  DrainInv'
<1> SUFFICES ASSUME NEW w \in Workers, NEW t \in Targets, Stops(w, t)', Past(w)'
             PROVE  /\ Quieted(t)'
                    /\ op'[w] \in {"next", "take"} => loc'[w].i <= t
                    /\ op'[w] \in {"take", "end", "release"} => ring'[t] = <<>>
                    /\ ~ForeignStop /\ op'[w] \in {"end", "release"} => quality'[t] = {}
  BY DEF DrainInv, Drains
<1>1. StopGoes(w)
  <2>1. ~StopBegins(w)
    BY DEF StopBegins, Past
  <2> QED
    BY <2>1, StopSteps DEF Past
<1>2. Stops(w, t)
  BY <1>1, StillStops
<1>3. t \in Nat /\ 1 <= t
  BY TargetsAssumption DEF Targets
<1>4. /\ loc[w].stop
      /\ Past(w) => /\ life[t].state # "ACTIVE"
                    /\ op[w] \in {"next", "take"} => life[t].state = "STOPPING"
  <2>1. loc[w].stop
    BY <1>1 DEF StopGoes
  <2>2. Past(w) => Late(w)
    <3>1. Past(w) => pc[w] # "quiesce_lock"
      BY DEF Past, PlacesInv, Places, Finding
    <3> QED
      BY <3>1 DEF Past, Late
  <2>3. op[w] \in {"next", "take"} => pc[w] # "release_wait"
    BY DEF PlacesInv, Places, Finding
  <2> QED
    BY <1>2, <2>1, <2>2, <2>3 DEF OwnersInv, Owner, Closing, Stops
<1>5. CASE quiesce_wait(w) /\ life[t].readers = 0 /\ op'[w] = "next"
  <2>1. /\ UNCHANGED irq /\ Others(w) /\ pc'[w] # "fail_use" /\ loc'[w].i = 1
    <3>1. Return(w) /\ Ending(w)
      BY <1>5 DEF quiesce_wait, Ending
    <3>2. op[w] \in Ops /\ loc[w].stop \in BOOLEAN
      BY LocFields DEF HInv, TypeInv, ControlType
    <3>3. PICK o \in After(op[w], loc[w].stop) \cap Ops : NextCall(w, o)
      BY <3>1, Returns
    <3> QED
      BY <1>5, <3>3, EntryFacts DEF NextCall, Entries
  <2>2. \A x \in Holders : pin[x] # t
    BY <1>5, TargetsAssumption DEF WordsInv
  <2>3. \A v \in Workers : /\ irq[v].pc = "use" => irq[v].slot.target # t
                           /\ pc[v] = "fail_use" => loc[v].i # t
    BY <2>2 DEF HInv, PinsMatch, OpPinned, IrqPinned, ScanPcs, Holders, Levels
  <2>4. Quieted(t)'
    BY <2>1, <2>3 DEF Quieted, Others
  <2> QED
    BY <1>3, <1>5, <2>1, <2>4
<1>6. ASSUME Past(w)
      PROVE  /\ Quieted(t) /\ Quieted(t)'
             /\ ring[t] = <<>> => ring'[t] = <<>>
             /\ ~ForeignStop /\ quality[t] = {} => quality'[t] = {}
             /\ op[w] \in {"next", "take"} => loc[w].i <= t
             /\ op[w] \in {"take", "end", "release"} => ring[t] = <<>>
             /\ ~ForeignStop /\ op[w] \in {"end", "release"} => quality[t] = {}
  <2>1. Drains(w, t)
    BY <1>2 DEF DrainInv
  <2> QED
    BY <1>2, <1>4, <1>6, <2>1, QuietedKept, RingKept, QualityKept DEF Drains
<1>7. CASE Past(w) /\ op'[w] = op[w]
  <2>1. op[w] \in {"next", "take"} => loc'[w].i <= t
    <3> SUFFICES ASSUME op[w] \in {"next", "take"} PROVE loc'[w].i <= t
      OBVIOUS
    <3>1. CASE Going(w) \/ Holding(w) \/ Locking(w)
      BY <1>2, <1>4, <1>6, <1>7, <3>1, ScanStays
    <3>2. CASE Ending(w) /\ loc'[w].i = 1
      BY <1>3, <3>2
    <3>3. CASE loc'[w] = loc[w]
      BY <1>6, <1>7, <3>3
    <3> QED
      BY <1>1, <3>1, <3>2, <3>3 DEF StopGoes
  <2> QED
    BY <1>6, <1>7, <2>1
<1>8. CASE Past(w) /\ next_empty(w) /\ loc[w].i = t /\ op'[w] = "take"
  <2>1. ring[t] = <<>>
    BY <1>8 DEF next_empty
  <2>2. loc'[w].i = 1
    <3>1. op[w] = "next"
      BY <1>8 DEF next_empty, Use
    <3>2. ~Going(w) /\ ~Holding(w) /\ ~Locking(w)
      BY <1>1, <1>8, <3>1, GoingMoves, HoldingMoves, LockEnters DEF Moves, Locking, Enters
    <3> QED
      BY <1>1, <1>8, <3>1, <3>2 DEF StopGoes
  <2> QED
    BY <1>3, <1>6, <1>8, <2>1, <2>2
<1>9. CASE Past(w) /\ take_quality(w) /\ loc[w].i = t /\ op'[w] \in {"end", "release"}
  <2>1. quality'[t] = {} /\ op[w] = "take"
    BY <1>9 DEF take_quality, Use, HInv, TypeInv, TargetType
  <2> QED
    BY <1>6, <1>9, <2>1
<1>10. CASE Past(w) /\ op[w] = "end" /\ op'[w] = "release"
  BY <1>6, <1>10
<1> QED
  BY <1>1, <1>2, <1>5, <1>7, <1>8, <1>9, <1>10, PastSteps

LEMMA DrainInvariance == Spec => []DrainInv
<1>1. Init => DrainInv
  BY DEF Init, DrainInv, Stops, NoLoc
<1> QED
  BY <1>1, NextDrains, Invariance, WordsInvariance, SlotsInvariance, PlacesInvariance,
     OwnersInvariance, HiddenInvariance, AloneInvariance, WithheldInvariance, PTL DEF Spec

-----------------------------------------------------------------------------
(* What a stopped session recorded has been taken when its slot is freed.  *)

\* Who changes a session.
LEMMA SessionSteps ==
    ASSUME HInv, SlotsInv, [Next]_vars, NEW t \in Targets,
           ~(life'[t].state = life[t].state /\ token'[t] = token[t] /\ handle'[t] = handle[t])
    PROVE  \E w \in Workers :
              \/ start_select(w) /\ Opens(w, t)
              \/ Locking(w) /\ \E q \in Stages : Enters(w, t, q)
              \/ Erasing(w) /\ Erases(w, t)
<1>1. vars' # vars
  BY DEF vars, life_vars, target_vars
<1>2. PICK w \in Workers :
              \/ Asking(w) \/ Going(w) \/ Holding(w) \/ Ending(w) \/ start_select(w)
              \/ start_publish(w) \/ Locking(w) \/ Erasing(w) \/ Handling(w)
  BY <1>1, NextKinds
<1>3. ~(StatesKept /\ UNCHANGED token /\ UNCHANGED handle)
  BY DEF StatesKept
<1>4. ~Asking(w) /\ ~start_publish(w)
  BY <1>3, LifeKept
     DEF Asking, Client, dispatch_enter, dispatch_leave, target_start, profiler_work,
         publish_state, stop_collector, leave_end, start_refused, start_publish, life_vars,
         target_vars
<1>5. ~Going(w) /\ ~Holding(w) /\ ~Ending(w) /\ ~Handling(w)
  BY <1>3, GoingMoves, HoldingMoves, EndingReturns, HandlingKeeps DEF SessionsStill
<1>6. start_select(w) => Opens(w, t)
  <2>1. \A s \in Targets : Opens(w, s) => s = t
    BY DEF Opens
  <2> QED
    BY <2>1, SelectOpens
<1>7. Locking(w) => \E q \in Stages : Enters(w, t, q)
  <2>1. \A s \in Targets, q \in Stages : Enters(w, s, q) => s = t
    BY DEF Enters, target_vars
  <2> QED
    BY <2>1, LockEnters DEF Locking
<1>8. Erasing(w) => Erases(w, t)
  <2>1. \A s \in Targets : Erases(w, s) => s = t
    BY DEF Erases
  <2> QED
    BY <2>1, FreeErases DEF Erasing
<1> QED
  BY <1>2, <1>4, <1>5, <1>6, <1>7, <1>8

LEMMA FreedWhenDrained ==
    ASSUME HInv, SlotsInv, OwnersInv, DrainInv, [Next]_vars, NEW t \in Targets,
           life[t].state = "RECLAIMING", life'[t].state = "FREE", Stopper(t) # {}
    PROVE  ring[t] = <<>> /\ (~ForeignStop => quality[t] = {})
<1>1. PICK w \in Workers : Erases(w, t)
  <2>1. \A w \in Workers : ~Opens(w, t) /\ \A q \in Stages : ~Enters(w, t, q)
    BY DEF Opens, Enters, Stages
  <2> QED
    BY <2>1, SessionSteps
<1>2. PICK u \in Workers : Stops(u, t)
  BY DEF Stopper, Stops
<1>3. pc[w] # "rollback_wait"
  <2> SUFFICES ASSUME pc[w] = "rollback_wait" PROVE FALSE
    OBVIOUS
  <2>1. Started(w)
    BY DEF HInv, Local, Started, Rollback
  <2>2. loc[u].arg = loc[w].arg
    BY <1>1, <1>2, <2>1 DEF Erases, Stops, OwnersInv, Owner, Opening
  <2>3. u # w
    BY <1>2, <2>1 DEF Stops, OwnersInv, Owner, Closing, Started
  <2> QED
    BY <2>1, <2>2, <2>3 DEF OwnersInv, Rivals
<1>4. pc[w] = "release_wait" /\ op[w] = "release" /\ Stops(w, t)
  BY <1>1, <1>3 DEF Erases, Stops, OwnersInv, Owner, Closing
<1>5. Drains(w, t)
  BY <1>4 DEF DrainInv
<1> QED
  BY <1>4, <1>5 DEF Drains, Past, Stops

\* When stop_collector releases its session, the drain has taken every event of its ring
\* and, unless a message of the host stopped it, every quality counter: target_quiesce
\* waits for the signal handlers that have the target pinned, and no later scan of a
\* dispatch adds a failure to a session that is STOPPING.
THEOREM DrainedWhenFreed == Spec => NothingLost
<1>1. ASSUME HInv, SlotsInv, OwnersInv, DrainInv, [Next]_vars
      PROVE  [\A t \in Targets :
                life[t].state = "RECLAIMING" /\ life'[t].state = "FREE" /\ Stopper(t) # {}
                   => /\ ring[t] = <<>>
                      /\ ~ForeignStop => quality[t] = {}]_vars
  BY <1>1, FreedWhenDrained
<1> QED
  BY <1>1, Invariance, SlotsInvariance, OwnersInvariance, DrainInvariance, PTL
     DEF Spec, NothingLost

-----------------------------------------------------------------------------
(* The inductive invariant: the rings nobody has written to.               *)

\* The calls that have a session reclaimed.
Reclaims(w, t) == pc[w] \in Reclaiming \cup {"release_wait"} /\ loc[w].target = t

\* A free target has an empty ring, and so has a session that is not published yet;
\* somebody is at work on a session that is reclaimed.
EmptyInv ==
    /\ \A t \in Targets : life[t].state = "FREE" => ring[t] = <<>>
    /\ \A w \in Workers : Started(w) => ring[loc[w].target] = <<>>
    /\ \A t \in Targets : life[t].state = "RECLAIMING" => \E w \in Workers : Reclaims(w, t)

\* A tick is pushed for the service its worker runs, into a published session of it
\* that the drain has not come to.
LEMMA PushFinds ==
    ASSUME HInv, SlotsInv, CountsInv, OwnersInv, HiddenInv, DrainInv, EmptyInv,
           NEW w \in Workers, NEW t \in Targets, handler_push(w), irq[w].slot.target = t
    PROVE  /\ Dispatching(w) /\ handle[t] = Running(w) /\ irq[w].slot.vm = handle[t]
           /\ life[t].state \in {"ACTIVE", "STOPPING"} /\ ~Drained(t)
           /\ \A u \in Workers : ~(Started(u) /\ loc[u].target = t)
<1>1. irq[w].pc = "use" /\ token[t] = irq[w].slot.token /\ irq[w].state = "ACTIVE"
  BY DEF handler_push, InHandler, SameSession, Rejection
<1>2. slot[w] = irq[w].slot
  BY <1>1 DEF HiddenInv, Copied
<1>3. Dispatching(w) /\ handle[t] = Running(w) /\ irq[w].slot.vm = handle[t]
  BY <1>1, <1>2, TargetsAssumption DEF SlotsInv, Publisher, Sound
<1>4. ASSUME NEW u \in Workers, Started(u), loc[u].target = t PROVE FALSE
  <2>1. handle[t] = Running(u) /\ token[t] = loc[u].arg /\ op[u] = "start"
    BY <1>4 DEF OwnersInv, Owner, Opening, Started
  <2>2. u = w
    BY <1>3, <2>1 DEF SlotsInv, Publisher, RunsOnce
  <2>3. pc[w] \in {"start_hz", "start_count"}
    BY <1>2, <1>4, <2>1, <2>2, TargetsAssumption
       DEF SlotsInv, Publisher, Withdrawn, Started
  <2>4. slot[w].target = t => slot[w].token # loc[w].arg
    BY <1>4, <2>2, <2>3 DEF CountsInv, Counted, Adding, AddingSession
  <2> QED
    BY <1>1, <1>2, <2>1, <2>2, <2>4
<1>5. ASSUME NEW u \in Workers, Stops(u, t), Past(u) PROVE FALSE
  BY <1>1, <1>5 DEF DrainInv, Drains, Quieted
<1>6. ~Drained(t)
  BY <1>5 DEF Drained, Stopper, Stops, Past
<1>7. life[t].state \in States /\ life[t].state # "FREE"
  BY <1>3 DEF HInv, TypeInv, LifeType, OwnersInv, HandlesApart, Dispatching
<1>8. life[t].state # "RECLAIMING"
  <2> SUFFICES ASSUME NEW u \in Workers, Reclaims(u, t) PROVE FALSE
    BY DEF EmptyInv
  <2>1. pc[u] # "release_wait"
    BY <1>5 DEF Reclaims, OwnersInv, Owner, Closing, Stops, Past
  <2>2. Started(u) /\ loc[u].target = t
    BY <2>1 DEF Reclaims, Reclaiming, Rollback, HInv, Local, Started
  <2> QED
    BY <1>4, <2>2
<1> QED
  BY <1>3, <1>4, <1>6, <1>7, <1>8 DEF States

LEMMA EmptyStays ==
    ASSUME HInv, SlotsInv, CountsInv, OwnersInv, HiddenInv, DrainInv, EmptyInv, [Next]_vars,
           NEW t \in Targets, ring[t] = <<>>,
           \/ life[t].state \notin {"ACTIVE", "STOPPING"}
           \/ \E u \in Workers : Started(u) /\ loc[u].target = t
    PROVE  ring'[t] = <<>>
<1> SUFFICES ASSUME ring'[t] # <<>> PROVE FALSE
  OBVIOUS
<1>1. PICK v \in Workers :
          \/ handler_push(v) /\ irq[v].slot.target = t
          \/ next_event(v) /\ loc[v].i = t
  BY RingSteps
<1>2. ~(next_event(v) /\ loc[v].i = t)
  BY DEF next_event
<1> QED
  BY <1>1, <1>2, PushFinds

\* A start goes on with the session it has opened.
LEMMA StartedSteps ==
    ASSUME HInv, SlotsInv, [Next]_vars, NEW w \in Workers, Started(w)'
    PROVE  \/ Started(w) /\ loc'[w].target = loc[w].target
           \/ \E t \in Targets : Opens(w, t)
<1>1. CASE pc'[w] = pc[w] /\ op'[w] = op[w] /\ loc'[w] = loc[w]
  BY <1>1 DEF Started
<1>2. CASE ~(pc'[w] = pc[w] /\ op'[w] = op[w] /\ loc'[w] = loc[w])
  <2>1. vars' # vars
    BY <1>2 DEF vars, control_vars
  <2>2. PICK u \in Workers :
              \/ Asking(u) \/ Going(u) \/ Holding(u) \/ Ending(u) \/ start_select(u)
              \/ start_publish(u) \/ Locking(u) \/ Erasing(u) \/ Handling(u)
    BY <2>1, NextKinds
  <2>3. u = w /\ ~Handling(w)
    BY <1>2, <2>2, ThreadAlone, HandlingKeeps DEF Others
  <2>4. CASE Going(w) \/ Holding(w)
    BY <2>4, GoingMoves, HoldingMoves DEF Moves, Same, Apart, Started
  <2>5. ~Ending(w)
    <3> SUFFICES ASSUME Ending(w) PROVE FALSE
      OBVIOUS
    <3>1. PICK o \in After(op[w], loc[w].stop) \cap Ops : NextCall(w, o)
      BY EndingReturns, Returns
    <3>2. "start" \notin After(op[w], loc[w].stop)
      BY DEF After, Drain
    <3> QED
      BY <3>1, <3>2 DEF NextCall, Started
  <2>6. ~Asking(w)
    BY DEF Asking, Client, dispatch_enter, dispatch_leave, Withdraw, target_start, profiler_work,
           publish_state, stop_collector, leave_end, start_refused, Return, ReturnTo, Call,
           Entry, After, Drain, Started, HInv, TypeInv, ControlType
  <2>7. CASE Locking(w)
    <3>1. PICK t \in Targets, q \in Stages : Enters(w, t, q)
      BY <2>7, LockEnters DEF Locking
    <3>2. op[w] = "start" => q[1] = "rollback_lock"
      BY <3>1 DEF Enters, Stages, SlotsInv, Publisher, Matches
    <3> QED
      BY <3>1, <3>2 DEF Enters, Started
  <2>8. ~start_publish(w) /\ ~Erasing(w)
    <3>1. ~start_publish(w)
      BY DEF start_publish, ReturnTo, Call, Started, HInv, TypeInv, ControlType
    <3> QED
      BY <3>1, FreeErases DEF Erasing, Erases, Started
  <2> QED
    BY <2>2, <2>3, <2>4, <2>5, <2>6, <2>7, <2>8, SelectOpens
<1> QED
  BY <1>1, <1>2

\* A call that has a session reclaimed goes on until the target is free.
LEMMA ReclaimsKept ==
    ASSUME HInv, [Next]_vars, NEW w \in Workers, NEW t \in Targets, Reclaims(w, t),
           life'[t].state # "FREE"
    PROVE  Reclaims(w, t)'
<1>1. CASE pc'[w] = pc[w] /\ op'[w] = op[w] /\ loc'[w] = loc[w]
  BY <1>1 DEF Reclaims
<1>2. CASE ~(pc'[w] = pc[w] /\ op'[w] = op[w] /\ loc'[w] = loc[w])
  <2>1. vars' # vars
    BY <1>2 DEF vars, control_vars
  <2>2. PICK u \in Workers :
              \/ Asking(u) \/ Going(u) \/ Holding(u) \/ Ending(u) \/ start_select(u)
              \/ start_publish(u) \/ Locking(u) \/ Erasing(u) \/ Handling(u)
    BY <2>1, NextKinds
  <2>3. u = w /\ ~Handling(w)
    BY <1>2, <2>2, ThreadAlone, HandlingKeeps DEF Others
  <2>4. pc[w] \in {"rollback_count", "rollback_hz", "rollback_wait", "release_wait"}
    BY DEF Reclaims, Reclaiming, Rollback
  <2>5. CASE Holding(w)
    BY <2>4, <2>5, HoldingMoves DEF Same, Reclaims, Reclaiming, Rollback
  <2>6. ~Going(w) /\ ~Ending(w)
    BY <2>4, GoingMoves, EndingReturns DEF Moves, Apart, Locked, Adding, Dropping, Dropped, Freeing
  <2>7. ~Asking(w) /\ ~start_select(w) /\ ~start_publish(w) /\ ~Locking(w)
    BY <2>4 DEF Asking, Client, dispatch_enter, dispatch_leave, target_start, profiler_work,
                publish_state, stop_collector, leave_end, start_refused, start_select,
                start_publish, Locking, rollback_lock, quiesce_lock, release_lock, Idle, At
  <2>8. ~Erasing(w)
    BY FreeErases DEF Erasing, Erases, Reclaims
  <2> QED
    BY <2>2, <2>3, <2>5, <2>6, <2>7, <2>8
<1> QED
  BY <1>1, <1>2

LEMMA NextEmpty ==
    ASSUME HInv, SlotsInv, CountsInv, OwnersInv, HiddenInv, DrainInv, EmptyInv, [Next]_vars
    PROVE  EmptyInv'
<1>1. ASSUME NEW t \in Targets, life'[t].state = "FREE" PROVE ring'[t] = <<>>
  <2>1. CASE life[t].state = "FREE"
    BY <2>1, EmptyStays DEF EmptyInv
  <2>2. CASE life[t].state # "FREE"
    <3>1. PICK w \in Workers :
              Opens(w, t) \/ (\E q \in Stages : Enters(w, t, q)) \/ Erases(w, t)
      BY <1>1, <2>2, SessionSteps
    <3>2. ~Opens(w, t) /\ \A q \in Stages : ~Enters(w, t, q)
      BY <1>1 DEF Opens, Enters, Stages
    <3> QED
      BY <3>1, <3>2 DEF Erases
  <2> QED
    BY <2>1, <2>2
<1>2. ASSUME NEW w \in Workers, Started(w)' PROVE ring'[loc'[w].target] = <<>>
  <2>1. CASE Started(w) /\ loc'[w].target = loc[w].target
    <3>1. PICK t \in Targets : t = loc[w].target
      BY <2>1 DEF Started, HInv, Local, OwnsTarget, SlotsInv, Publisher, Matches
    <3>2. ring[t] = <<>>
      BY <2>1, <3>1 DEF EmptyInv
    <3>3. ring'[t] = <<>>
      BY <2>1, <3>1, <3>2, EmptyStays
    <3> QED
      BY <2>1, <3>1, <3>3
  <2>2. CASE \E t \in Targets : Opens(w, t)
    BY <2>2 DEF Opens
  <2> QED
    BY <1>2, <2>1, <2>2, StartedSteps
<1>3. ASSUME NEW t \in Targets, life'[t].state = "RECLAIMING"
      PROVE  \E w \in Workers : Reclaims(w, t)'
  <2>1. CASE life[t].state = "RECLAIMING"
    <3>1. PICK w \in Workers : Reclaims(w, t)
      BY <2>1 DEF EmptyInv
    <3> QED
      BY <1>3, <3>1, ReclaimsKept
  <2>2. CASE life[t].state # "RECLAIMING"
    <3>1. PICK w \in Workers :
              Opens(w, t) \/ (\E q \in Stages : Enters(w, t, q)) \/ Erases(w, t)
      BY <1>3, <2>2, SessionSteps
    <3>2. PICK q \in Stages : Enters(w, t, q)
      BY <1>3, <3>1 DEF Opens, Erases
    <3>3. pc'[w] \in {"rollback_count", "release_wait"} /\ loc'[w].target = t
      BY <1>3, <3>2 DEF Enters, Stages
    <3> QED
      BY <3>3 DEF Reclaims, Reclaiming, Rollback
  <2> QED
    BY <2>1, <2>2
<1> QED
  BY <1>1, <1>2, <1>3 DEF EmptyInv

LEMMA EmptyInvariance == Spec => []EmptyInv
<1>1. Init => EmptyInv
  BY DEF Init, EmptyInv, Started
<1> QED
  BY <1>1, NextEmpty, Invariance, SlotsInvariance, CountsInvariance, OwnersInvariance,
     HiddenInvariance, DrainInvariance, PTL DEF Spec

-----------------------------------------------------------------------------
(* The sessions, as the recorder of a service sees them.                   *)

\* A thread that drains a session goes on until it has the target freed.
LEMMA PastStays ==
    ASSUME HInv, SlotsInv, PlacesInv, [Next]_vars, NEW w \in Workers, Past(w), ~Erasing(w)
    PROVE  loc'[w].stop /\ loc'[w].arg = loc[w].arg /\ Past(w)'
<1>1. CASE pc'[w] = pc[w] /\ op'[w] = op[w] /\ loc'[w] = loc[w]
  BY <1>1 DEF Past
<1>2. CASE ~(pc'[w] = pc[w] /\ op'[w] = op[w] /\ loc'[w] = loc[w])
  <2>1. vars' # vars
    BY <1>2 DEF vars, control_vars
  <2>2. PICK u \in Workers :
              \/ Asking(u) \/ Going(u) \/ Holding(u) \/ Ending(u) \/ start_select(u)
              \/ start_publish(u) \/ Locking(u) \/ Erasing(u) \/ Handling(u)
    BY <2>1, NextKinds
  <2>3. u = w /\ ~Handling(w)
    BY <1>2, <2>2, ThreadAlone, HandlingKeeps DEF Others
  <2>4. CASE Going(w) \/ Holding(w)
    BY <2>4, GoingMoves, HoldingMoves DEF Moves, Same, Past
  <2>5. CASE Locking(w)
    BY <2>5, LockEnters DEF Locking, Enters, Past
  <2>6. pc[w] \in Finding \cup {"release_lock", "release_wait"}
        /\ (op[w] = "release" => pc[w] \notin Finding)
    BY DEF PlacesInv, Places, Past, Finding
  <2>7. CASE Ending(w)
    <3>1. PICK o \in After(op[w], loc[w].stop) \cap Ops : NextCall(w, o)
      BY <2>7, EndingReturns, Returns
    <3>2. op[w] # "release"
      BY <2>6, <2>7, EndingReturns DEF Finding
    <3>3. o \in {"take", "end", "release"}
      BY <3>1, <3>2 DEF After, Drain, Past
    <3> QED
      BY <3>1, <3>3 DEF NextCall, Past
  <2>8. ~Asking(w) /\ ~start_select(w) /\ ~start_publish(w)
    BY <2>6 DEF Finding, Asking, Client, dispatch_enter, dispatch_leave, target_start,
                profiler_work, publish_state, stop_collector, leave_end, start_refused,
                start_select, start_publish, Idle, At
  <2> QED
    BY <2>2, <2>3, <2>4, <2>5, <2>7, <2>8
<1> QED
  BY <1>1, <1>2

\* While a session's state and token stay, so does its phase, but for the step in which
\* the wait of its quiesce is over.
LEMMA PhaseKept ==
    ASSUME HInv, WordsInv, SlotsInv, PlacesInv, OwnersInv, DrainInv, [Next]_vars,
           NEW t \in Targets, life'[t].state = life[t].state, token'[t] = token[t]
    PROVE  \/ Phase(t)' = Phase(t)
           \/ /\ Phase(t) = "closing" /\ Phase(t)' = "closed"
              /\ \E w \in Workers : quiesce_wait(w) /\ loc[w].target = t
<1>1. CASE life[t].state # "STOPPING"
  BY <1>1 DEF Phase
<1>2. CASE life[t].state = "STOPPING"
  <2>1. ASSUME Drained(t) PROVE Drained(t)'
    <3>1. PICK w \in Workers : Stops(w, t) /\ Past(w)
      BY <2>1 DEF Drained, Stopper, Stops, Past
    <3>2. ~Erasing(w)
      <4> SUFFICES ASSUME NEW s \in Targets, Erases(w, s) PROVE FALSE
        BY FreeErases DEF Erasing
      <4>1. pc[w] = "release_wait" /\ token[s] = loc[w].arg /\ loc[w].arg # 0
        BY <3>1 DEF Erases, OwnersInv, Owner, Closing, HInv, Local, Rollback, Past
      <4>2. s = t
        BY <3>1, <4>1 DEF WordsInv, Stops
      <4> QED
        BY <1>2, <4>2 DEF Erases
    <3>3. Stops(w, t)' /\ Past(w)'
      BY <3>1, <3>2, PastStays DEF Stops
    <3> QED
      BY <3>3 DEF Drained, Stopper, Stops, Past
  <2>2. ASSUME Drained(t)', ~Drained(t) 
        PROVE  \E w \in Workers : quiesce_wait(w) /\ loc[w].target = t
    <3>1. PICK w \in Workers : Stops(w, t)' /\ Past(w)'
      BY <2>2 DEF Drained, Stopper, Stops, Past
    <3>2. StopGoes(w)
      BY <3>1, StopSteps DEF StopBegins, Stops, Past
    <3>3. Stops(w, t)
      BY <3>1, <3>2, StillStops
    <3>4. ~Past(w)
      BY <2>2, <3>3 DEF Drained, Stopper, Stops, Past
    <3>5. quiesce_wait(w) /\ op'[w] = "next"
      BY <3>1, <3>2, <3>3, <3>4, PastSteps
    <3>6. op[w] = "quiesce"
      <4>1. pc[w] = "quiesce_wait"
        BY <3>5 DEF quiesce_wait, At
      <4> QED
        BY <4>1 DEF PlacesInv, Places, Syncing, Failing, Finding, Rollback
    <3>7. loc[w].target \in Targets /\ token[loc[w].target] = loc[w].arg /\ loc[w].arg # 0
      BY <3>3, <3>5, <3>6
         DEF quiesce_wait, At, OwnersInv, Owner, Closing, HInv, Local, OwnsTarget, Stops
    <3> QED
      BY <3>3, <3>5, <3>7 DEF WordsInv, Stops
  <2> QED
    BY <1>2, <2>1, <2>2 DEF Phase
<1> QED
  BY <1>1, <1>2

\* The variables of ProfileSession.
PhaseMap == [t \in Targets |-> Phase(t)]
Served == {current_handle[w] : w \in Workers} \ {NoHandle}

\* What the invariants say of a step of the host.
HostInv == /\ HInv /\ WordsInv /\ SlotsInv /\ CountsInv /\ PlacesInv /\ OwnersInv
           /\ HiddenInv /\ DrainInv /\ EmptyInv

LEMMA RecorderInit == Init => Sessions!Init
<1> SUFFICES ASSUME Init PROVE Sessions!Init
  OBVIOUS
<1>1. \A t \in Targets : Phase(t) = "none"
  BY DEF Init, Phase
<1>2. {current_handle[w] : w \in Workers} \ {NoHandle} = {}
  BY DEF Init
<1> QED
  BY <1>1, <1>2 DEF Init, Sessions!Init

\* One session goes to another phase.
LEMMA PhaseMoves ==
    ASSUME NEW t \in Targets, NEW p, Phase(t)' = p,
           \A s \in Targets \ {t} : Phase(s)' = Phase(s)
    PROVE  PhaseMap' = [PhaseMap EXCEPT ![t] = p]
  BY DEF PhaseMap

LEMMA PhasesStay ==
    ASSUME HostInv, [Next]_vars, NEW t \in Targets, life'[t].state # life[t].state,
           \A s \in Targets \ {t} : life'[s].state = life[s].state /\ token'[s] = token[s]
    PROVE  \A s \in Targets \ {t} : Phase(s)' = Phase(s)
<1>1. \A w \in Workers : ~quiesce_wait(w)
  BY DEF quiesce_wait, life_vars
<1> QED
  BY <1>1, PhaseKept DEF HostInv

LEMMA RecorderOpens ==
    ASSUME HostInv, HInv', [Next]_vars, NEW w \in Workers, start_select(w)
    PROVE  \E t \in Targets : Sessions!Open(t, Running(w))
<1>1. PICK t \in Targets : Opens(w, t)
  BY SelectOpens DEF HostInv
<1>2. ring[t] = <<>> /\ Phase(t) = "none" /\ Phase(t)' = "open"
  BY <1>1 DEF Opens, Phase, HostInv, EmptyInv
<1>3. PhaseMap' = [PhaseMap EXCEPT ![t] = "open"]
  <2>1. \A s \in Targets \ {t} : Phase(s)' = Phase(s)
    BY <1>1, PhasesStay DEF Opens
  <2> QED
    BY <1>2, <2>1, PhaseMoves
<1>4. /\ handle' = [handle EXCEPT ![t] = Running(w)] /\ ring' = ring
  <2>1. /\ handle \in [Targets -> Handles \cup {NoHandle}]
        /\ handle' \in [Targets -> Handles \cup {NoHandle}]
        /\ ring \in [Targets -> Seq(Handles \cup {NoHandle})]
        /\ ring' \in [Targets -> Seq(Handles \cup {NoHandle})]
    BY DEF HostInv, HInv, TypeInv, TargetType
  <2>2. /\ handle'[t] = Running(w) /\ ring'[t] = ring[t]
        /\ \A s \in Targets \ {t} : handle'[s] = handle[s] /\ ring'[s] = ring[s]
    BY <1>1, <1>2 DEF Opens
  <2>3. handle' = [handle EXCEPT ![t] = Running(w)]
    BY <2>1, <2>2
  <2>4. ring' = ring
    BY <2>1, <2>2
  <2> QED
    BY <2>3, <2>4
<1>5. current_handle' = current_handle /\ Running(w) \in Served
  BY <1>1 DEF Opens, worker_vars, Dispatching, Running, Served
<1>6. \A r \in Targets : handle[r] # Running(w)
  BY <1>1 DEF Opens, HandleTaken, HostInv, OwnersInv, HandlesApart, Dispatching
<1> QED
  BY <1>2, <1>3, <1>4, <1>5, <1>6 DEF Sessions!Open, PhaseMap, Served

LEMMA RecorderCloses ==
    ASSUME HostInv, HInv', [Next]_vars, NEW w \in Workers, Locking(w)
    PROVE  (\E t \in Targets : Sessions!Close(t)) \/ UNCHANGED Sessions!vars
<1>1. PICK t \in Targets, q \in Stages : Enters(w, t, q)
  BY LockEnters DEF HostInv, Locking
<1>2. UNCHANGED <<handle, ring>> /\ UNCHANGED current_handle
  BY <1>1 DEF Enters, target_vars, worker_vars
<1>3. \A s \in Targets \ {t} : Phase(s)' = Phase(s)
  <2>1. life'[t].state # life[t].state
    BY <1>1 DEF Enters, Stages
  <2> QED
    BY <1>1, <2>1, PhasesStay DEF Enters
<1>4. \/ Phase(t) = "open" /\ Phase(t)' = "closing"
      \/ Phase(t) = "open" /\ ring[t] = <<>> /\ Phase(t)' = "closed"
      \/ Phase(t)' = Phase(t)
  <2>1. CASE q[1] = "rollback_lock"
    <3>1. q[3] = "ACTIVE" /\ q[4] = "RECLAIMING"
      BY <2>1 DEF Stages
    <3>2. Started(w) /\ loc[w].target = t
      BY <1>1, <2>1 DEF Enters, HostInv, HInv, Local, Rollback, Started
    <3> QED
      BY <1>1, <3>1, <3>2 DEF Enters, Phase, HostInv, EmptyInv
  <2>2. CASE q[1] = "quiesce_lock"
    <3>1. q[3] = "ACTIVE" /\ q[4] = "STOPPING"
      BY <2>2 DEF Stages
    <3>2. ~Drained(t)'
      <4> SUFFICES ASSUME NEW v \in Workers, Stops(v, t)', Past(v)' PROVE FALSE
        BY DEF Drained, Stopper, Stops, Past
      <4>1. op[w] = "quiesce" /\ loc[w].stop /\ token'[t] = loc[w].arg
        BY <1>1, <2>2
           DEF Enters, HostInv, SlotsInv, Publisher, Matches, OwnersInv, Owner, Closing
      <4>2. v # w
        BY <1>1, <4>1 DEF Enters, Past
      <4>3. loc[v].stop /\ loc[v].arg = loc[w].arg
        BY <1>1, <4>1, <4>2 DEF Enters, Others, Stops
      <4> QED
        BY <4>1, <4>2, <4>3 DEF HostInv, OwnersInv, Rivals
    <3> QED
      BY <1>1, <3>1, <3>2 DEF Enters, Phase
  <2>3. CASE q[1] = "release_lock"
    <3>1. q[3] = "STOPPING" /\ q[4] = "RECLAIMING"
      BY <2>3 DEF Stages
    <3>2. op[w] = "release" /\ loc[w].stop /\ token[t] = loc[w].arg
      BY <1>1, <2>3
         DEF Enters, HostInv, SlotsInv, Publisher, Matches, OwnersInv, Owner, Closing
    <3>3. Drained(t)
      BY <3>2 DEF Drained, Stopper
    <3> QED
      BY <1>1, <3>1, <3>3 DEF Enters, Phase
  <2> QED
    BY <2>1, <2>2, <2>3 DEF Stages
<1>5. PhaseMap' = [PhaseMap EXCEPT ![t] = Phase(t)']
  BY <1>3, PhaseMoves
<1>6. CASE Phase(t)' = Phase(t)
  <2>1. PhaseMap' = PhaseMap
    BY <1>3, <1>6 DEF PhaseMap
  <2>2. Served' = Served
    BY <1>2 DEF Served
  <2> QED
    BY <1>2, <2>1, <2>2 DEF Sessions!vars, PhaseMap, Served
<1>7. CASE Phase(t)' # Phase(t)
  <2>1. Served' = Served
    BY <1>2 DEF Served
  <2>2. PhaseMap[t] = Phase(t)
    BY DEF PhaseMap
  <2>3. /\ \/ PhaseMap[t] = "open" /\ PhaseMap' = [PhaseMap EXCEPT ![t] = "closing"]
           \/ /\ PhaseMap[t] = "open" /\ ring[t] = <<>>
              /\ PhaseMap' = [PhaseMap EXCEPT ![t] = "closed"]
        /\ handle' = handle /\ ring' = ring
    BY <1>2, <1>4, <1>5, <1>7, <2>2
  <2> QED
    BY <2>1, <2>3 DEF Sessions!Close, PhaseMap, Served
<1> QED
  BY <1>6, <1>7

LEMMA RecorderGivesBack ==
    ASSUME HostInv, HInv', [Next]_vars, NEW w \in Workers, Erasing(w)
    PROVE  \E t \in Targets : Sessions!GiveBack(t)
<1>1. PICK t \in Targets : Erases(w, t)
  BY FreeErases DEF HostInv, Erasing
<1>2. Phase(t) = "closed" /\ Phase(t)' = "none"
  BY <1>1 DEF Erases, Phase
<1>3. ring[t] = <<>>
  <2>1. CASE pc[w] = "rollback_wait"
    <3>1. Started(w)
      BY <2>1 DEF HostInv, HInv, Local, Rollback, Started
    <3> QED
      BY <1>1, <3>1 DEF Erases, HostInv, EmptyInv
  <2>2. CASE pc[w] = "release_wait"
    <3>1. Stops(w, t) /\ op[w] = "release"
      BY <1>1, <2>2 DEF Erases, HostInv, OwnersInv, Owner, Closing, Stops
    <3>2. Drains(w, t)
      BY <3>1 DEF HostInv, DrainInv
    <3> QED
      BY <3>1, <3>2 DEF Drains, Past, Stops
  <2> QED
    BY <1>1, <2>1, <2>2 DEF Erases
<1>4. PhaseMap' = [PhaseMap EXCEPT ![t] = "none"]
  <2>1. \A s \in Targets \ {t} : Phase(s)' = Phase(s)
    BY <1>1, PhasesStay DEF Erases
  <2> QED
    BY <1>2, <2>1, PhaseMoves
<1>5. /\ handle' = [handle EXCEPT ![t] = NoHandle] /\ ring' = ring
  <2>1. /\ handle \in [Targets -> Handles \cup {NoHandle}]
        /\ handle' \in [Targets -> Handles \cup {NoHandle}]
        /\ ring \in [Targets -> Seq(Handles \cup {NoHandle})]
        /\ ring' \in [Targets -> Seq(Handles \cup {NoHandle})]
    BY DEF HostInv, HInv, TypeInv, TargetType
  <2>2. /\ handle'[t] = NoHandle /\ ring'[t] = ring[t]
        /\ \A s \in Targets \ {t} : handle'[s] = handle[s] /\ ring'[s] = ring[s]
    BY <1>1, <1>3 DEF Erases
  <2>3. handle' = [handle EXCEPT ![t] = NoHandle]
    BY <2>1, <2>2
  <2>4. ring' = ring
    BY <2>1, <2>2
  <2> QED
    BY <2>3, <2>4
<1>6. Served' = Served
  BY <1>1 DEF Erases, Served
<1>7. PhaseMap[t] = "closed"
  BY <1>2 DEF PhaseMap
<1> QED
  BY <1>3, <1>4, <1>5, <1>6, <1>7 DEF Sessions!GiveBack, PhaseMap, Served

\* The wait of a quiesce is over: its session, which was closing, is closed.
LEMMA RecorderWaits ==
    ASSUME HostInv, [Next]_vars, NEW w \in Workers, quiesce_wait(w)
    PROVE  (\E t \in Targets : Sessions!Close(t)) \/ UNCHANGED Sessions!vars
<1>1. UNCHANGED <<life, token, handle, ring>> /\ UNCHANGED current_handle
  BY DEF quiesce_wait, life_vars, target_vars, worker_vars
<1>2. Served' = Served
  BY <1>1 DEF Served
<1>3. \A v \in Workers : quiesce_wait(v) => v = w
  <2> SUFFICES ASSUME NEW v \in Workers, quiesce_wait(v), v # w PROVE FALSE
    OBVIOUS
  <2>1. op[v] = "quiesce" /\ Ending(w) /\ Ending(v)
    <3>1. pc[v] = "quiesce_wait"
      BY DEF quiesce_wait, At
    <3> QED
      BY <3>1 DEF HostInv, PlacesInv, Places, Syncing, Failing, Finding, Rollback, Ending
  <2>2. op'[v] = op[v]
    BY <2>1, ThreadAlone DEF Others, HostInv
  <2>3. op'[v] \in After(op[v], loc[v].stop)
    BY <2>1, EndingReturns, Returns DEF NextCall, HostInv
  <2> QED
    BY <2>1, <2>2, <2>3 DEF After
<1>4. \A t \in Targets \ {loc[w].target} : Phase(t)' = Phase(t)
  BY <1>1, <1>3, PhaseKept DEF HostInv
<1>5. CASE PhaseMap' = PhaseMap
  BY <1>1, <1>2, <1>5 DEF Sessions!vars, PhaseMap, Served
<1>6. CASE PhaseMap' # PhaseMap
  <2>1. PICK t \in Targets : Phase(t)' # Phase(t)
    BY <1>6 DEF PhaseMap
  <2>2. Phase(t) = "closing" /\ Phase(t)' = "closed"
    BY <1>1, <2>1, PhaseKept DEF HostInv
  <2>3. PhaseMap' = [PhaseMap EXCEPT ![t] = "closed"]
    BY <1>4, <2>1, <2>2, PhaseMoves
  <2>4. PhaseMap[t] = "closing"
    BY <2>2 DEF PhaseMap
  <2> QED
    BY <1>1, <1>2, <2>3, <2>4 DEF Sessions!Close, PhaseMap, Served
<1> QED
  BY <1>5, <1>6

\* Every other step schedules, records or consumes, or the recorder does not see it.
LEMMA RecorderGoesOn ==
    ASSUME HostInv, HInv', [Next]_vars,
           \A w \in Workers : ~(start_select(w) \/ Locking(w) \/ Erasing(w) \/ quiesce_wait(w))
    PROVE  Sessions!Next
<1>1. \A t \in Targets : life'[t].state = life[t].state /\ token'[t] = token[t]
                         /\ handle'[t] = handle[t]
  BY SessionSteps DEF HostInv
<1>2. PhaseMap' = PhaseMap
  BY <1>1, PhaseKept DEF PhaseMap, HostInv
<1>3. /\ ring \in [Targets -> Seq(Handles \cup {NoHandle})]
      /\ ring' \in [Targets -> Seq(Handles \cup {NoHandle})]
      /\ handle' = handle
  <2>1. /\ handle \in [Targets -> Handles \cup {NoHandle}]
        /\ handle' \in [Targets -> Handles \cup {NoHandle}]
    BY DEF HostInv, HInv, TypeInv, TargetType
  <2>2. handle' = handle
    BY <1>1, <2>1
  <2> QED
    BY <2>2 DEF HostInv, HInv, TypeInv, TargetType
<1>4. CASE ring' = ring
  <2>1. Served' \in SUBSET Handles
    BY DEF Served, HInv, TypeInv, WorkerType
  <2>2. Sessions!Schedule
    BY <1>2, <1>3, <1>4, <2>1 DEF Sessions!Schedule, PhaseMap, Served
  <2> QED
    BY <2>2 DEF Sessions!Next
<1>5. CASE ring' # ring
  <2>1. PICK t \in Targets : ring'[t] # ring[t]
    BY <1>3, <1>5
  <2>2. PICK v \in Workers : \/ handler_push(v) /\ irq[v].slot.target = t
                             \/ next_event(v) /\ loc[v].i = t
    BY <2>1, RingActions DEF HostInv
  <2>3. Served' = Served
    BY ZenonT(60), <2>2 DEF handler_push, HandlerReturn, next_event, worker_vars, Served
  <2>4. CASE handler_push(v) /\ irq[v].slot.target = t
    <3>1. /\ Dispatching(v) /\ handle[t] = Running(v) /\ irq[v].slot.vm = handle[t]
          /\ life[t].state \in {"ACTIVE", "STOPPING"} /\ ~Drained(t)
      BY <2>4, PushFinds DEF HostInv
    <3>2. handle[t] \in Served
      BY <3>1 DEF Served, Running, Dispatching
    <3>3. PhaseMap[t] \in {"open", "closing"}
      BY <3>1 DEF PhaseMap, Phase
    <3>4. Len(ring[t]) < RingCapacity
      <4>1. Len(ring[t]) \in Nat /\ RingCapacity \in Nat
        BY <1>3, RingAssumption
      <4>2. ~(Len(ring[t]) >= RingCapacity)
        BY <2>4 DEF handler_push, Rejection
      <4> QED
        BY <4>1, <4>2
    <3>5. ring' = [ring EXCEPT ![t] = Append(@, handle[t])]
      BY <2>4, <3>1 DEF handler_push
    <3>6. Sessions!Record(t)
      BY <1>2, <1>3, <2>3, <3>2, <3>3, <3>4, <3>5 DEF Sessions!Record, PhaseMap, Served
    <3> QED
      BY <3>6 DEF Sessions!Next
  <2>5. CASE next_event(v) /\ loc[v].i = t
    <3>1. ring[t] # <<>> /\ ring' = [ring EXCEPT ![t] = Tail(@)]
      BY <2>5 DEF next_event
    <3>2. Sessions!Consume(t)
      BY <1>2, <1>3, <2>3, <3>1 DEF Sessions!Consume, PhaseMap, Served
    <3> QED
      BY <3>2 DEF Sessions!Next
  <2> QED
    BY <2>2, <2>4, <2>5
<1> QED
  BY <1>4, <1>5

LEMMA RecorderStep ==
    ASSUME HostInv, HInv', [Next]_vars
    PROVE  [Sessions!Next]_(Sessions!vars)
<1>1. CASE \E w \in Workers : start_select(w)
  <2>1. PICK w \in Workers : start_select(w)
    BY <1>1
  <2>2. Running(w) \in Handles
    BY <2>1, SelectOpens DEF Opens, Dispatching, Running, HostInv, HInv, TypeInv, WorkerType
  <2> QED
    BY <2>1, <2>2, RecorderOpens DEF Sessions!Next
<1>2. CASE \E w \in Workers : Locking(w) \/ quiesce_wait(w)
  BY <1>2, RecorderCloses, RecorderWaits DEF Sessions!Next
<1>3. CASE \E w \in Workers : Erasing(w)
  BY <1>3, RecorderGivesBack DEF Sessions!Next
<1>4. CASE \A w \in Workers : ~(start_select(w) \/ Locking(w) \/ Erasing(w) \/ quiesce_wait(w))
  BY <1>4, RecorderGoesOn
<1> QED
  BY <1>1, <1>2, <1>3, <1>4

\* What the recorder of a service is promised: a slot of the target table serves one
\* session at a time, ticks enter it only while its service runs and until the drain of
\* target_quiesce has come to it, and target_release gives the slot back empty.
THEOREM RecorderPromise == Spec => SessionsSpec
<1>1. HostInv /\ HInv' /\ [Next]_vars => [Sessions!Next]_(Sessions!vars)
  BY RecorderStep
<1>2. Init => Sessions!Init
  BY RecorderInit
<1>3. Spec => []HostInv
  BY Invariance, WordsInvariance, SlotsInvariance, CountsInvariance, PlacesInvariance,
     OwnersInvariance, HiddenInvariance, DrainInvariance, EmptyInvariance, PTL DEF HostInv
<1>4. Spec => Sessions!Spec
  BY <1>1, <1>2, <1>3, Invariance, PTL DEF Spec, Sessions!Spec
<1> QED
  BY <1>4 DEF SessionsSpec
=============================================================================
