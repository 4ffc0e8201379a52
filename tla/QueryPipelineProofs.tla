------------------------- MODULE QueryPipelineProofs -------------------------
(***************************************************************************)
(* What a request is promised by QueryPipeline as a whole: proved for      *)
(* every query, from the planner's templates and from what                 *)
(* ServiceOrchestratorProofs shows of a run over any plan.                 *)
(***************************************************************************)
EXTENDS QueryPipeline, FiniteSetTheorems, TLAPS

O == INSTANCE ServiceOrchestratorProofs

-----------------------------------------------------------------------------
(* What the pipeline relies on in the plans: a builder reads what its node *)
(* depends on; the plan that resolves a reference writes nothing; of two   *)
(* nodes of a service one waits for the other, and fails with it.          *)
Needs(t, n, m) == m \in t[n].dependsOn /\ ~t[n].optional

WellBuilt(t) ==
    /\ \A n \in DOMAIN t : t[n].reads \subseteq t[n].dependsOn
    /\ "resolve_reference" \in DOMAIN t => \A n \in DOMAIN t : ~t[n].isWrite
    /\ \A n, m \in DOMAIN t : n # m /\ t[n].agent = t[m].agent /\ t[n].agent \in Services
           => Needs(t, n, m) \/ Needs(t, m, n)

LEMMA FanOutWellBuilt == \A services : WellBuilt(FanOut(services))
<1> SUFFICES ASSUME NEW services PROVE WellBuilt(FanOut(services))
  OBVIOUS
<1> DEFINE named == IF services = {} THEN Services ELSE services
           t == FanOut(services)
<1>1. /\ DOMAIN t = {SearchOf[s] : s \in named}
      /\ \A n \in DOMAIN t : t[n] = SearchNode(CHOOSE s \in named : SearchOf[s] = n)
  BY DEF FanOut
<1>2. \A n \in DOMAIN t : SearchOf[CHOOSE s \in named : SearchOf[s] = n] = n
  BY <1>1
<1>3. \A a : /\ SearchNode(a).agent = a /\ SearchNode(a).isWrite = FALSE
             /\ SearchNode(a).reads = {}
  BY DEF SearchNode, PlanNode
<1>4. \A n \in DOMAIN t : /\ SearchOf[t[n].agent] = n
                          /\ ~t[n].isWrite /\ t[n].reads = {}
  BY <1>1, <1>2, <1>3
<1> HIDE DEF t
<1>5. WellBuilt(t)
  BY <1>4 DEF WellBuilt
<1> QED
  BY <1>5 DEF t

LEMMA TemplatesWellBuilt == \A name \in DOMAIN Templates : WellBuilt(Templates[name])
<1> USE DEF WellBuilt, Needs, Services, SearchNode, WriteNode, PlanNode
<1>1. WellBuilt(CancelFlight)
  BY DEF CancelFlight
<1>2. WellBuilt(PrepareForMeeting)
  BY DEF PrepareForMeeting
<1>3. WellBuilt(RescheduleEvent)
  BY DEF RescheduleEvent
<1>4. WellBuilt(FindConflicts)
  BY DEF FindConflicts
<1>5. WellBuilt(ReferenceLookup)
  BY DEF ReferenceLookup
<1> HIDE DEF WellBuilt
<1> QED
  BY <1>1, <1>2, <1>3, <1>4, <1>5 DEF Templates

LEMMA PlansWellBuilt == \A name, services : WellBuilt(BuildPlan(name, services))
  BY FanOutWellBuilt, TemplatesWellBuilt DEF BuildPlan

-----------------------------------------------------------------------------
(* The planner's plans satisfy what a run assumes of a plan. None has more *)
(* than two layers: the nodes that depend on none, and those that depend   *)
(* on them only; and who writes is alone in the second.                    *)
Roots(t) == {n \in DOMAIN t : t[n].dependsOn = {}}
Rest(t)  == DOMAIN t \ Roots(t)

Planable(t) ==
    /\ IsFiniteSet(DOMAIN t) /\ Roots(t) # {}
    /\ \A n \in DOMAIN t :
           /\ t[n].dependsOn \subseteq Roots(t)
           /\ t[n].operation \in {"compute", "search", "get_context", "execute"}
           /\ t[n].isWrite <=> t[n].operation = "execute"
           /\ t[n].isWrite => t[n].agent \in Services /\ Rest(t) = {n}

LEMMA Layering ==
  ASSUME NEW t, Planable(t)
  PROVE  /\ Cardinality(DOMAIN t) \in Nat /\ Cardinality(DOMAIN t) >= 1
         /\ Rest(t) # {} => Cardinality(DOMAIN t) >= 2
<1>1. IsFiniteSet(DOMAIN t) /\ Roots(t) \subseteq DOMAIN t /\ Roots(t) # {}
  BY DEF Planable, Roots
<1>2. /\ Cardinality(DOMAIN t) \in Nat /\ Cardinality(Roots(t)) \in Nat
      /\ Cardinality(Roots(t)) # 0 /\ Cardinality(Roots(t)) <= Cardinality(DOMAIN t)
      /\ Cardinality(DOMAIN t) = Cardinality(Roots(t)) => DOMAIN t = Roots(t)
  BY <1>1, FS_Subset, FS_CardinalityType, FS_EmptySet
<1>3. Rest(t) # {} => DOMAIN t # Roots(t)
  BY DEF Rest
<1> QED
  BY <1>2, <1>3

LEMMA EmittedLayers ==
  ASSUME NEW t, Planable(t)
  PROVE  \A k \in 0..Cardinality(DOMAIN t) :
             Emitted(t)[k] = IF k = 0 THEN {} ELSE IF k = 1 THEN Roots(t) ELSE DOMAIN t
<1> DEFINE N == Cardinality(DOMAIN t)
           Grown(f) == [k \in 0..N |-> IF k = 0 THEN {}
                            ELSE {n \in DOMAIN t : t[n].dependsOn \subseteq f[k - 1]}]
           g == [k \in 0..N |-> IF k = 0 THEN {} ELSE IF k = 1 THEN Roots(t) ELSE DOMAIN t]
<1>1. N \in Nat
  BY Layering
<1>2. ASSUME NEW k \in 0..N
      PROVE  g[k] = IF k = 0 THEN {} ELSE {n \in DOMAIN t : t[n].dependsOn \subseteq g[k - 1]}
  <2>1. CASE k = 0
    BY <2>1
  <2>2. CASE k = 1
    BY <1>1, <2>2 DEF Roots
  <2>3. CASE k > 1
    <3>1. k - 1 \in 0..N /\ k - 1 # 0 /\ k # 0 /\ k # 1
      BY <1>1, <2>3
    <3>2. Roots(t) \subseteq g[k - 1]
      BY <3>1 DEF Roots
    <3> QED
      BY <3>1, <3>2 DEF Planable
  <2> QED
    BY <2>1, <2>2, <2>3
<1>3. g = Grown(g)
  <2>1. g = [k \in 0..N |-> g[k]]
    OBVIOUS
  <2> HIDE DEF g, N
  <2> QED
    BY <1>2, <2>1
<1>4. Emitted(t) = CHOOSE f : f = Grown(f)
  BY DEF Emitted
<1> DEFINE e == Emitted(t)
<1>5. e = Grown(e)
  <2> HIDE DEF g, Grown
  <2> QED
    BY <1>3, <1>4
<1>6. ASSUME NEW k \in 0..N
      PROVE  e[k] = IF k = 0 THEN {} ELSE {n \in DOMAIN t : t[n].dependsOn \subseteq e[k - 1]}
  <2> HIDE DEF e
  <2> QED
    BY <1>5
<1> HIDE DEF e
<1>7. ASSUME NEW k \in 0..N, k # 0 PROVE Roots(t) \subseteq e[k]
  BY <1>6, <1>7 DEF Roots
<1>8. ASSUME NEW k \in 0..N
      PROVE  e[k] = IF k = 0 THEN {} ELSE IF k = 1 THEN Roots(t) ELSE DOMAIN t
  <2>1. CASE k = 0
    BY <1>6, <2>1
  <2>2. CASE k = 1
    <3>1. k - 1 \in 0..N /\ k - 1 = 0 /\ k # 0
      BY <1>1, <2>2
    <3>2. e[k - 1] = {}
      BY <1>6, <3>1
    <3>3. e[k] = {n \in DOMAIN t : t[n].dependsOn \subseteq e[k - 1]}
      BY <1>6, <3>1
    <3> QED
      BY <2>2, <3>1, <3>2, <3>3 DEF Roots
  <2>3. CASE k > 1
    <3>1. k - 1 \in 0..N /\ k - 1 # 0 /\ k # 0 /\ k # 1
      BY <1>1, <2>3
    <3>2. Roots(t) \subseteq e[k - 1]
      BY <1>7, <3>1
    <3> QED
      BY <1>6, <3>1, <3>2 DEF Planable
  <2> QED
    BY <2>1, <2>2, <2>3
<1> QED
  BY <1>8 DEF e

LEMMA LayersAre ==
  ASSUME NEW t, Planable(t)
  PROVE  LayersOf(t) = IF Rest(t) = {} THEN <<SetToSeq(Roots(t))>>
                       ELSE <<SetToSeq(Roots(t)), SetToSeq(Rest(t))>>
<1> DEFINE N == Cardinality(DOMAIN t)
           e == Emitted(t)
           Growing == {k \in 1..N : e[k] # e[k - 1]}
<1>1. N \in Nat /\ N >= 1 /\ (Rest(t) # {} => N >= 2)
  BY Layering
<1>2. \A k \in 0..N : e[k] = IF k = 0 THEN {} ELSE IF k = 1 THEN Roots(t) ELSE DOMAIN t
  BY EmittedLayers
<1>3. Roots(t) # {} /\ (Rest(t) = {} <=> Roots(t) = DOMAIN t)
  BY DEF Planable, Rest, Roots
<1>4. LayersOf(t) = [k \in 1..Cardinality(Growing) |-> SetToSeq(e[k] \ e[k - 1])]
  BY DEF LayersOf
<1> HIDE DEF e, N
<1>5. CASE Rest(t) = {}
  <2>1. Growing = {1}
    BY <1>1, <1>2, <1>3, <1>5
  <2>2. Cardinality(Growing) = 1
    BY <2>1, FS_Singleton
  <2>3. e[1] = Roots(t) /\ e[0] = {} /\ e[1] \ e[0] = Roots(t)
    BY <1>1, <1>2
  <2>4. \A k \in 1..1 : SetToSeq(e[k] \ e[k - 1]) = SetToSeq(Roots(t))
    BY <2>3
  <2>5. LayersOf(t) = [k \in 1..1 |-> SetToSeq(Roots(t))]
    BY <1>4, <2>2, <2>4
  <2> QED
    BY <1>5, <2>5
<1>6. CASE Rest(t) # {}
  <2>1. Growing = {1, 2}
    BY <1>1, <1>2, <1>3, <1>6
  <2>2. Cardinality(Growing) = 2
    <3>1. {1, 2} = {1} \cup {2}
      OBVIOUS
    <3>2. IsFiniteSet({1}) /\ Cardinality({1}) = 1
      BY FS_Singleton
    <3>3. 2 \notin {1}
      OBVIOUS
    <3>4. Cardinality({1} \cup {2}) = Cardinality({1}) + 1
      BY <3>2, <3>3, FS_AddElement
    <3> QED
      BY <2>1, <3>1, <3>2, <3>4
  <2>3. e[0] = {} /\ e[1] = Roots(t) /\ e[2] = DOMAIN t
    BY <1>1, <1>2, <1>6
  <2>4. e[1] \ e[1 - 1] = Roots(t) /\ e[2] \ e[2 - 1] = Rest(t)
    BY <2>3 DEF Rest
  <2>5. LayersOf(t) = [k \in 1..2 |-> SetToSeq(e[k] \ e[k - 1])]
    BY <1>4, <2>2
  <2> HIDE DEF Growing
  <2>6. \A k \in 1..2 : SetToSeq(e[k] \ e[k - 1]) =
                        IF k = 1 THEN SetToSeq(Roots(t)) ELSE SetToSeq(Rest(t))
    BY <2>4
  <2>7. LayersOf(t) = [k \in 1..2 |-> IF k = 1 THEN SetToSeq(Roots(t)) ELSE SetToSeq(Rest(t))]
    BY <2>5, <2>6
  <2> QED
    BY <1>6, <2>7
<1> QED
  BY <1>5, <1>6

LEMMA Listed ==
  ASSUME NEW S, IsFiniteSet(S)
  PROVE  /\ SetToSeq(S) \in Seq(S)
         /\ Run!NodesIn(SetToSeq(S)) = S
         /\ \A i, j \in 1..Len(SetToSeq(S)) : SetToSeq(S)[i] = SetToSeq(S)[j] => i = j
         /\ S # {} => SetToSeq(S) # <<>>
         /\ Len(SetToSeq(S)) = Cardinality(S)
<1> DEFINE N == Cardinality(S)
           q == SetToSeq(S)
<1>1. N \in Nat /\ Bijection(1..N, S) # {}
  BY FS_CardinalityType DEF ExistsBijection
<1>2. \E f \in [1..N -> S] : IsInjective(f)
  BY <1>1 DEF Bijection, Injection
<1>3. q \in [1..N -> S] /\ IsInjective(q)
  BY <1>2 DEF SetToSeq
<1> HIDE DEF q
<1>4. q \in Surjection(1..N, S)
  <2>1. IsFiniteSet(1..N) /\ Cardinality(1..N) = N
    BY <1>1, FS_Interval
  <2>2. q \in Injection(1..N, S)
    BY <1>3 DEF Injection
  <2> QED
    BY <2>1, <2>2, FS_Injection
<1>5. q \in Seq(S) /\ Len(q) = N
  BY <1>1, <1>3
<1>6. {q[j] : j \in 1..N} = S
  BY <1>3, <1>4 DEF Surjection
<1>7. \A i, j \in 1..N : q[i] = q[j] => i = j
  BY <1>3 DEF IsInjective
<1>8. S # {} => q # <<>>
  <2>1. Len(<<>>) = 0
    OBVIOUS
  <2>2. S # {} => N # 0
    BY FS_EmptySet
  <2> QED
    BY <1>5, <2>1, <2>2
<1> QED
  BY <1>5, <1>6, <1>7, <1>8 DEF q, Run!NodesIn

LEMMA WiderSeq == \A S, T : S \subseteq T => Seq(S) \subseteq Seq(T)
  OBVIOUS

LEMMA PlanableIsPlan ==
  ASSUME NEW t, Planable(t), DOMAIN t \subseteq Node
  PROVE  Run!IsPlan(Runnable(t))
<1> DEFINE p == Runnable(t)
           L == LayersOf(t)
<1>1. /\ p.nodes = DOMAIN t /\ p.layers = L
      /\ p.optional = {n \in DOMAIN t : t[n].optional}
      /\ p.isWrite = {n \in DOMAIN t : t[n].isWrite}
      /\ p.dependsOn = [n \in DOMAIN t |-> t[n].dependsOn]
      /\ p.operation = [n \in DOMAIN t |-> IF t[n].agent \in Services \cup {"compute"}
                                           THEN t[n].operation ELSE "invalid"]
  BY DEF Runnable
<1> HIDE DEF p
<1>2. p.dependsOn \in [p.nodes -> SUBSET p.nodes]
  BY <1>1 DEF Planable, Roots
<1>3. p.operation \in [p.nodes -> Run!Operations]
  BY <1>1 DEF Planable, Run!Operations
<1>4. p.isWrite = {n \in p.nodes : p.operation[n] = "execute"}
  BY <1>1 DEF Planable
<1>5. /\ IsFiniteSet(Roots(t)) /\ IsFiniteSet(Rest(t)) /\ Roots(t) # {}
      /\ Roots(t) \cup Rest(t) = DOMAIN t /\ Roots(t) \cap Rest(t) = {}
  BY FS_Subset DEF Planable, Roots, Rest
<1> DEFINE first == SetToSeq(Roots(t))
           second == SetToSeq(Rest(t))
<1>6. /\ first \in Seq(Roots(t)) /\ first # <<>> /\ Run!NodesIn(first) = Roots(t)
      /\ \A i, j \in 1..Len(first) : first[i] = first[j] => i = j
      /\ second \in Seq(Rest(t)) /\ (Rest(t) # {} => second # <<>>)
      /\ Run!NodesIn(second) = Rest(t)
      /\ \A i, j \in 1..Len(second) : second[i] = second[j] => i = j
      /\ Len(second) = Cardinality(Rest(t))
  BY <1>5, Listed
<1>7. L = IF Rest(t) = {} THEN <<first>> ELSE <<first, second>>
  BY LayersAre
<1> HIDE DEF first, second, L
<1>8. /\ Len(L) \in {1, 2} /\ L[1] = first
      /\ Len(L) = 2 => L[2] = second /\ Rest(t) # {}
      /\ Rest(t) # {} => Len(L) = 2
  BY <1>7
<1>9. L \in Seq(Seq(DOMAIN t))
  <2>1. first \in Seq(DOMAIN t) /\ second \in Seq(DOMAIN t)
    BY <1>5, <1>6, WiderSeq
  <2>2. <<first>> \in Seq(Seq(DOMAIN t)) /\ <<first, second>> \in Seq(Seq(DOMAIN t))
    BY ONLY <2>1
  <2> QED
    BY <1>7, <2>2
<1>10. \A n \in DOMAIN t : \E i \in 1..Len(L) : n \in Run!NodesIn(L[i])
  <2>1. \A n \in Roots(t) : 1 \in 1..Len(L) /\ n \in Run!NodesIn(L[1])
    BY <1>6, <1>8
  <2>2. \A n \in Rest(t) : 2 \in 1..Len(L) /\ n \in Run!NodesIn(L[2])
    BY <1>6, <1>8
  <2> QED
    BY <1>5, <2>1, <2>2
<1>11. Run!Before(p, 1) = {}
  BY DEF Run!Before
<1>12. Len(L) = 2 => Run!Before(p, 2) = Roots(t)
  <2>1. \A h : h \in 1 .. 2 - 1 <=> h = 1
    OBVIOUS
  <2> QED
    BY <1>1, <1>6, <1>8, <2>1 DEF Run!Before
<1>13. ASSUME NEW i \in 1..Len(L)
       PROVE  /\ L[i] # <<>>
              /\ \A j \in 1..Len(L[i]) :
                     /\ p.dependsOn[L[i][j]] \subseteq Run!Before(p, i)
                     /\ L[i][j] \notin Run!Before(p, i)
                     /\ \A k \in 1..Len(L[i]) : L[i][k] = L[i][j] => k = j
              /\ Run!NodesIn(L[i]) \cap p.isWrite # {} => Len(L[i]) = 1
  <2>1. CASE i = 1
    <3>1. L[i] = first
      BY <1>8, <2>1
    <3>2. ASSUME NEW j \in 1..Len(first)
          PROVE  first[j] \in Roots(t) /\ p.dependsOn[first[j]] = {}
      <4>1. first[j] \in Roots(t)
        BY <1>6
      <4> QED
        BY <1>1, <4>1 DEF Roots
    <3>3. Roots(t) \cap p.isWrite = {}
      BY <1>1 DEF Planable, Rest, Roots
    <3> QED
      BY <1>6, <1>11, <2>1, <3>1, <3>2, <3>3
  <2>2. CASE i = 2
    <3>1. L[i] = second /\ Rest(t) # {} /\ Run!Before(p, i) = Roots(t)
      BY <1>8, <1>12, <2>2
    <3>2. ASSUME NEW j \in 1..Len(second)
          PROVE  second[j] \notin Roots(t) /\ p.dependsOn[second[j]] \subseteq Roots(t)
      <4>1. second[j] \in Rest(t)
        BY <1>6
      <4> QED
        BY <1>1, <1>5, <4>1 DEF Planable
    <3>3. ASSUME Rest(t) \cap p.isWrite # {} PROVE Len(second) = 1
      <4>1. PICK n \in DOMAIN t : Rest(t) = {n}
        BY <1>1, <3>3 DEF Planable
      <4> QED
        BY <1>6, <4>1, FS_Singleton
    <3> QED
      BY <1>6, <3>1, <3>2, <3>3
  <2> QED
    BY <1>8, <2>1, <2>2
<1>14. Run!IsLayering(p)
  BY <1>1, <1>9, <1>10, <1>13 DEF Run!IsLayering
<1> QED
  BY <1>1, <1>2, <1>3, <1>4, <1>13, <1>14 DEF Run!IsPlan, p

LEMMA UpToThree ==
  ASSUME NEW a, NEW b, NEW c
  PROVE  IsFiniteSet({a, b, c})
<1>1. IsFiniteSet({a})
  BY FS_Singleton
<1>2. IsFiniteSet({a} \cup {b}) /\ {a} \cup {b} = {a, b}
  BY <1>1, FS_AddElement
<1>3. IsFiniteSet({a, b} \cup {c}) /\ {a, b} \cup {c} = {a, b, c}
  BY <1>2, FS_AddElement
<1> QED
  BY <1>3

LEMMA UpToTwo == \A a, b : IsFiniteSet({a, b})
<1> TAKE a, b
<1>1. {a, b} = {a, b, b}
  OBVIOUS
<1> QED
  BY <1>1, UpToThree

LEMMA TemplatesPlanable == \A name \in DOMAIN Templates : Planable(Templates[name])
<1>1. Planable(CancelFlight)
  <2>1. DOMAIN CancelFlight = {"find_booking_email", "find_calendar_event", "draft_cancellation_email"}
    BY DEF CancelFlight
  <2>2. /\ \A n \in {"find_booking_email", "find_calendar_event"} : CancelFlight[n].dependsOn = {}
        /\ CancelFlight["draft_cancellation_email"].dependsOn # {}
    BY DEF CancelFlight, SearchNode, WriteNode, PlanNode
  <2>3. Roots(CancelFlight) = {"find_booking_email", "find_calendar_event"}
    BY <2>1, <2>2 DEF Roots
  <2>4. Rest(CancelFlight) = {"draft_cancellation_email"}
    BY <2>1, <2>3 DEF Rest
  <2>5. IsFiniteSet(DOMAIN CancelFlight)
    <3>1. IsFiniteSet({"find_booking_email", "find_calendar_event", "draft_cancellation_email"})
      BY UpToThree
    <3> QED
      BY <2>1, <3>1
  <2> QED
    BY <2>1, <2>3, <2>4, <2>5
    DEF Planable, CancelFlight, Services, SearchNode, WriteNode, PlanNode
<1>2. Planable(PrepareForMeeting)
  <2>1. DOMAIN PrepareForMeeting = {"find_meeting_event", "find_drive_docs", "find_participant_emails"}
    BY DEF PrepareForMeeting
  <2>2. /\ \A n \in {"find_meeting_event", "find_drive_docs"} : PrepareForMeeting[n].dependsOn = {}
        /\ PrepareForMeeting["find_participant_emails"].dependsOn # {}
    BY DEF PrepareForMeeting, SearchNode, WriteNode, PlanNode
  <2>3. Roots(PrepareForMeeting) = {"find_meeting_event", "find_drive_docs"}
    BY <2>1, <2>2 DEF Roots
  <2>4. Rest(PrepareForMeeting) = {"find_participant_emails"}
    BY <2>1, <2>3 DEF Rest
  <2>5. IsFiniteSet(DOMAIN PrepareForMeeting)
    <3>1. IsFiniteSet({"find_meeting_event", "find_drive_docs", "find_participant_emails"})
      BY UpToThree
    <3> QED
      BY <2>1, <3>1
  <2> QED
    BY <2>1, <2>3, <2>4, <2>5
    DEF Planable, PrepareForMeeting, Services, SearchNode, WriteNode, PlanNode
<1>3. Planable(RescheduleEvent)
  <2>1. DOMAIN RescheduleEvent = {"find_candidate_events", "update_event"}
    BY DEF RescheduleEvent
  <2>2. /\ \A n \in {"find_candidate_events"} : RescheduleEvent[n].dependsOn = {}
        /\ RescheduleEvent["update_event"].dependsOn # {}
    BY DEF RescheduleEvent, SearchNode, WriteNode, PlanNode
  <2>3. Roots(RescheduleEvent) = {"find_candidate_events"}
    BY <2>1, <2>2 DEF Roots
  <2>4. Rest(RescheduleEvent) = {"update_event"}
    BY <2>1, <2>3 DEF Rest
  <2>5. IsFiniteSet(DOMAIN RescheduleEvent)
    BY <2>1, UpToTwo, Zenon
  <2> QED
    BY <2>1, <2>3, <2>4, <2>5
    DEF Planable, RescheduleEvent, Services, SearchNode, WriteNode, PlanNode
<1>4. Planable(FindConflicts)
  <2>1. DOMAIN FindConflicts = {"search_events", "search_oof_doc", "detect_conflicts"}
    BY DEF FindConflicts
  <2>2. /\ \A n \in {"search_events", "search_oof_doc"} : FindConflicts[n].dependsOn = {}
        /\ FindConflicts["detect_conflicts"].dependsOn # {}
    BY DEF FindConflicts, SearchNode, WriteNode, PlanNode
  <2>3. Roots(FindConflicts) = {"search_events", "search_oof_doc"}
    BY <2>1, <2>2 DEF Roots
  <2>4. Rest(FindConflicts) = {"detect_conflicts"}
    BY <2>1, <2>3 DEF Rest
  <2>5. IsFiniteSet(DOMAIN FindConflicts)
    <3>1. IsFiniteSet({"search_events", "search_oof_doc", "detect_conflicts"})
      BY UpToThree
    <3> QED
      BY <2>1, <3>1
  <2> QED
    BY <2>1, <2>3, <2>4, <2>5
    DEF Planable, FindConflicts, Services, SearchNode, WriteNode, PlanNode
<1>5. Planable(ReferenceLookup)
  <2>1. DOMAIN ReferenceLookup = {"resolve_reference", "get_referenced_context"}
    BY DEF ReferenceLookup
  <2>2. /\ \A n \in {"resolve_reference"} : ReferenceLookup[n].dependsOn = {}
        /\ ReferenceLookup["get_referenced_context"].dependsOn # {}
    BY DEF ReferenceLookup, SearchNode, WriteNode, PlanNode
  <2>3. Roots(ReferenceLookup) = {"resolve_reference"}
    BY <2>1, <2>2 DEF Roots
  <2>4. Rest(ReferenceLookup) = {"get_referenced_context"}
    BY <2>1, <2>3 DEF Rest
  <2>5. IsFiniteSet(DOMAIN ReferenceLookup)
    BY <2>1, UpToTwo, Zenon
  <2> QED
    BY <2>1, <2>3, <2>4, <2>5
    DEF Planable, ReferenceLookup, Services, SearchNode, WriteNode, PlanNode
<1> QED
  BY <1>1, <1>2, <1>3, <1>4, <1>5 DEF Templates

LEMMA FanOutPlanable ==
  ASSUME NEW services \in SUBSET DOMAIN SearchOf
  PROVE  Planable(FanOut(services))
<1> DEFINE named == IF services = {} THEN Services ELSE services
           t == FanOut(services)
<1>1. DOMAIN SearchOf = {"gmail", "gcal", "gdrive", "unknown"}
  BY DEF SearchOf
<1>2. named \subseteq {"gmail", "gcal", "gdrive", "unknown"} /\ named # {}
  BY <1>1 DEF Services
<1>3. DOMAIN t = {SearchOf[s] : s \in named}
  BY DEF FanOut
<1>4. \A n \in DOMAIN t : t[n] = SearchNode(CHOOSE s \in named : SearchOf[s] = n)
  BY DEF FanOut
<1>5. \A n \in DOMAIN t : /\ t[n].dependsOn = {} /\ t[n].operation = "search"
                          /\ t[n].isWrite = FALSE
  BY <1>4 DEF SearchNode, PlanNode
<1>6. IsFiniteSet(DOMAIN t)
  <2>1. DOMAIN t \subseteq {"search_gmail", "search_gcal", "search_gdrive", "search_unknown"}
    BY <1>2, <1>3 DEF SearchOf
  <2> HIDE DEF t
  <2>2. IsFiniteSet({"search_gmail", "search_gcal", "search_gdrive"} \cup {"search_unknown"})
    BY UpToThree, FS_AddElement
  <2> QED
    BY <2>1, <2>2, FS_Subset
<1>7. DOMAIN t # {}
  BY <1>2, <1>3
<1> HIDE DEF t, named
<1> QED
  BY <1>5, <1>6, <1>7 DEF Planable, Roots, Rest, t

LEMMA NoPlanIsPlan == Run!IsPlan(NoPlan)
<1>1. \A S : <<>> \in [{} -> S]
  OBVIOUS
<1>2. <<>> \in Seq(Seq({})) /\ Len(<<>>) = 0
  OBVIOUS
<1>3. Run!IsLayering(NoPlan)
  BY <1>2 DEF Run!IsLayering, NoPlan
<1> QED
  BY <1>1, <1>2, <1>3 DEF Run!IsPlan, NoPlan

(* Every plan the planner can build is one a run can be given: the layers  *)
(* hold each node once, after what it depends on, and a node that writes   *)
(* is alone in its layer (query_planner.py:31-172, dag.py:44-72).          *)
THEOREM PlansAreRunnable == \A p \in Plans : Run!IsPlan(p)
<1>1. ASSUME NEW t \in AllTemplates
      PROVE  Planable(t) /\ DOMAIN t \subseteq Node
  <2>1. PICK name \in Intents, services \in ServiceLists : t = BuildPlan(name, services)
    BY DEF AllTemplates
  <2>2. DOMAIN t \subseteq Node
    BY DEF Node
  <2>3. ToSet(services) \in SUBSET DOMAIN SearchOf
    <3>1. services \in Seq(DOMAIN SearchOf)
      BY PipelineAssumption
    <3> QED
      BY <3>1 DEF ToSet
  <2>4. CASE name \in DOMAIN Templates
    <3>1. name \notin DOMAIN SingleSearches
      BY <2>4 DEF Templates, SingleSearches
    <3> QED
      BY <2>1, <2>2, <2>4, <3>1, TemplatesPlanable DEF BuildPlan
  <2>5. CASE name \notin DOMAIN Templates /\ name \in DOMAIN SingleSearches
    <3>1. {SingleSearches[name]} \in SUBSET DOMAIN SearchOf
      BY <2>5 DEF SingleSearches, SearchOf
    <3> QED
      BY <2>1, <2>2, <2>5, <3>1, FanOutPlanable DEF BuildPlan
  <2>6. CASE name \notin DOMAIN Templates /\ name \notin DOMAIN SingleSearches
    BY <2>1, <2>2, <2>3, <2>6, FanOutPlanable DEF BuildPlan
  <2> QED
    BY <2>4, <2>5, <2>6
<1> QED
  BY <1>1, PlanableIsPlan, NoPlanIsPlan DEF Plans

-----------------------------------------------------------------------------
(* A run over a plan, as its own modules prove it about, is the run of the *)
(* pipeline.                                                               *)
LEMMA SameInit == O!Init <=> Run!Init
  BY DEF O!Init, Run!Init

LEMMA SameTypeOK == O!TypeOK <=> Run!TypeOK
  BY DEF O!TypeOK, Run!TypeOK, O!Layer, Run!Layer, O!Awaiting, Run!Awaiting,
         O!Auditing, Run!Auditing, O!Statuses, Run!Statuses

LEMMA SameBegun == \A n : O!Begun(n) <=> Run!Begun(n)
  BY DEF O!Begun, Run!Begun

LEMMA SameNext == O!Next <=> Run!Next
<1> USE DEF O!flow, Run!flow, O!runVars, Run!runVars, O!taskVars, Run!taskVars,
            O!remote, Run!remote, O!Layer, Run!Layer, O!NodesIn, Run!NodesIn, O!Op, Run!Op,
            O!IsWrite, Run!IsWrite, O!Return, Run!Return, O!GoTo, Run!GoTo,
            O!Caught, Run!Caught, O!Auditing, Run!Auditing, O!Awaiting, Run!Awaiting
<1>1. O!RunStep <=> Run!RunStep
  BY DEF O!RunStep, Run!RunStep, O!StartLayer, Run!StartLayer, O!FinishRun, Run!FinishRun,
         O!GatherReturns, Run!GatherReturns, O!GatherRaises, Run!GatherRaises,
         O!RecordResult, Run!RecordResult
<1>2. \A n : O!RunNode(n) <=> Run!RunNode(n)
  BY DEF O!RunNode, Run!RunNode, O!SkipBlocked, Run!SkipBlocked,
         O!SkipUnclearWrite, Run!SkipUnclearWrite, O!DispatchRaises, Run!DispatchRaises,
         O!DispatchReturnsAtOnce, Run!DispatchReturnsAtOnce,
         O!DispatchSearch, Run!DispatchSearch, O!DispatchRemote, Run!DispatchRemote,
         O!BlockedByDependency, Run!BlockedByDependency, O!MayDispatch, Run!MayDispatch
<1>3. \A n : O!Search(n) <=> Run!Search(n)
  BY DEF O!Search, Run!Search, O!QueryEmbedded, Run!QueryEmbedded,
         O!EmbeddingFails, Run!EmbeddingFails, O!SessionConnects, Run!SessionConnects,
         O!StatementEnds, Run!StatementEnds
<1>4. \A n : O!CallGoogle(n) <=> Run!CallGoogle(n)
  BY DEF O!CallGoogle, Run!CallGoogle, O!QuotaGranted, Run!QuotaGranted,
         O!QuotaFails, Run!QuotaFails, O!AttemptSucceeds, Run!AttemptSucceeds,
         O!AttemptFails, Run!AttemptFails, O!ThreadReturns, Run!ThreadReturns,
         O!TakesEffect, Run!TakesEffect
<1>5. \A n : O!NodeTimesOut(n) <=> Run!NodeTimesOut(n)
  BY DEF O!NodeTimesOut, Run!NodeTimesOut
<1>6. \A n : O!Audit(n) <=> Run!Audit(n)
  BY DEF O!Audit, Run!Audit, O!AuditCommits, Run!AuditCommits, O!AuditFails, Run!AuditFails,
         O!Logged, Run!Logged, O!AuditResult, Run!AuditResult
<1> QED
  BY <1>1, <1>2, <1>3, <1>4, <1>5, <1>6 DEF O!Next, Run!Next

LEMMA SameAssumption == MaxAttempts \in Nat \ {0} /\ \A p \in Plans : O!IsPlan(p)
<1>1. \A p : O!IsPlan(p) <=> Run!IsPlan(p)
  BY DEF O!IsPlan, Run!IsPlan, O!IsLayering, Run!IsLayering, O!NodesIn, Run!NodesIn,
         O!Before, Run!Before, O!Operations, Run!Operations
<1> QED
  BY <1>1, PipelineAssumption, PlansAreRunnable

(* What is known of the run before it starts and while it goes on.         *)
RunInv == O!AInv /\ O!ConnectInv /\ O!DoneInv

LEMMA InitRun == Run!Init => RunInv
  BY O!InitAInv, SameAssumption, SameInit DEF RunInv, O!ConnectInv, O!DoneInv, O!Init

LEMMA InitRunPrimed == Run!Init' => RunInv'
  BY InitRun, PTL

LEMMA StepRun == RunInv /\ [Run!Next]_(Run!vars) => RunInv'
<1> SUFFICES ASSUME RunInv, [Run!Next]_(Run!vars) PROVE RunInv'
  OBVIOUS
<1>1. [O!Next]_(O!vars)
  BY SameNext DEF O!vars, Run!vars, O!flow, Run!flow, O!runVars, Run!runVars,
                  O!taskVars, Run!taskVars, O!remote, Run!remote
<1>2. O!IInv
  BY DEF RunInv, O!AInv
<1>3. O!AInv'
  BY <1>1, O!StepAInv, SameAssumption DEF RunInv
<1>4. O!ConnectInv'
  BY <1>1, O!StepConnectInv, SameAssumption DEF RunInv
<1>5. O!DoneInv'
  BY <1>1, <1>2, O!StepDoneInv, SameAssumption DEF RunInv
<1> QED
  BY <1>3, <1>4, <1>5 DEF RunInv

(* With no task at work, the request may use the session as it likes.      *)
LEMMA SessionUsed ==
  ASSUME RunInv, run \in {"launch", "done"}, UNCHANGED <<plan, intent, running>>,
         session' \in {"idle", "open", "broken"}
  PROVE  RunInv'
<1>1. \A n \in Node : task[n] \in {"idle", "returned"}
  BY DEF RunInv, O!AInv, O!ActiveInv
<1>2. UNCHANGED <<O!flow, O!runVars, O!taskVars, O!remote, auditLog>>
  BY DEF running, O!flow, O!runVars, O!taskVars, O!remote
<1>3. O!AInv'
  BY <1>1, <1>2, O!SessionFree, SameAssumption DEF RunInv
<1> QED
  BY <1>3 DEF RunInv, O!ConnectInv, O!DoneInv, running

(* A run never changes what it was given, and once done it only has        *)
(* threads left behind, which leave the report alone.                      *)
LEMMA RunFlow ==
  ASSUME RunInv, Run!Next
  PROVE  /\ UNCHANGED <<plan, intent>>
         /\ run = "done" => UNCHANGED <<run, results, actions>>
<1>1. CASE O!RunStep
  BY <1>1 DEF O!RunStep, O!StartLayer, O!FinishRun, O!GatherReturns, O!GatherRaises,
              O!RecordResult, O!flow
<1>2. ASSUME NEW n \in Node, O!NodeStep(n) PROVE O!Frame(n)
  BY <1>2, O!NodeMoves, SameAssumption DEF RunInv, O!AInv, O!IInv
<1>3. O!Next
  BY SameNext
<1> QED
  BY <1>1, <1>2, <1>3 DEF O!Next, O!NodeStep, O!Frame

-----------------------------------------------------------------------------
(* The request: its types, the plan it has, and how far it and its run     *)
(* have come.                                                              *)
Early == {"user", "rate", "history", "classify", "plan", "agents"}
Ending == {"synthesize", "save", "refresh", "answered"}

RequestTypes ==
    /\ stage \in Stages
    /\ failedAt \in Stages \cup {"none", "session", "socket"}
    /\ failedAt # "none" <=> stage = "failed"
    /\ query \in Queries \cup {NoQuery}
    /\ history \in {"none", "match"}
    /\ row \in [actions : Seq(Node \cup {"none"}), asked : BOOLEAN]
    /\ answer \in [asks : BOOLEAN, actions : Seq(Node \cup {"none"}), errors : SUBSET Services]

Planned == Runnable(BuildPlan(query.name, query.services))
PlanInv == plan = NoPlan \/ plan = Planned

StageInv ==
    /\ stage \in Early => Run!Init
    /\ stage \in Early \ {"agents"} => plan = NoPlan
    /\ stage = "plan" => query \in Queries
    /\ stage \in Ending => run = "done"
    /\ stage \in {"refresh", "answered"} => row = NewRow
    /\ stage = "answered" => answer.asks = Asks /\ answer.actions = actions

PInv == RunInv /\ RequestTypes /\ PlanInv /\ StageInv

LEMMA RunTypes ==
  ASSUME RunInv
  PROVE  /\ plan \in Plans /\ actions \in Seq(Node)
         /\ intent \in [needsClarification : BOOLEAN, streaming : BOOLEAN]
         /\ intent.needsClarification \in BOOLEAN
<1>1. O!TypeOK
  BY DEF RunInv, O!AInv, O!IInv
<1>2. /\ plan \in Plans /\ actions \in Seq(Node)
      /\ intent \in [needsClarification : BOOLEAN, streaming : BOOLEAN]
  BY <1>1 DEF O!TypeOK
<1> QED
  BY <1>2

LEMMA NoPlanIsOne == NoPlan \in Plans
  BY DEF Plans

LEMMA InitPInv == Init => PInv
<1> SUFFICES ASSUME Init PROVE PInv
  OBVIOUS
<1>1. RunInv
  BY InitRun DEF Init
<1>2. <<"none">> \in Seq(Node \cup {"none"})
  OBVIOUS
<1>3. RequestTypes
  BY <1>2 DEF Init, RequestTypes, Stages, NoRow, NoAnswer
<1>4. PlanInv /\ StageInv
  BY DEF Init, PlanInv, StageInv, Early, Ending
<1> QED
  BY <1>1, <1>3, <1>4 DEF PInv

(* A request that has not run yet may change its plan, its intent and its  *)
(* session, and the run still starts as it should.                         *)
LEMMA StillEarly ==
  ASSUME Run!Init, plan' \in Plans, UNCHANGED running, session' \in {"idle", "open"},
         intent' \in [needsClarification : BOOLEAN, streaming : BOOLEAN]
  PROVE  Run!Init' /\ RunInv'
<1>1. Run!Init'
  BY DEF Run!Init, running
<1> QED
  BY <1>1, InitRunPrimed

(* Before the run.                                                         *)
LEMMA EarlyRun == StageInv /\ stage \in Early => Run!Init /\ run = "launch" /\ session \in {"idle", "open"}
  BY DEF StageInv, Run!Init

LEMMA GetUserInv == PInv /\ GetUser => PInv'
<1> SUFFICES ASSUME PInv, GetUser PROVE PInv'
  OBVIOUS
<1>1. /\ stage = "user" /\ session' \in {"open", "broken"}
      /\ UNCHANGED <<query, history, row, answer, plan, intent, running>>
      /\ \/ session' = "open" /\ stage' = "rate" /\ failedAt' = failedAt
         \/ stage' = "failed" /\ failedAt' = "user"
  BY DEF GetUser, Advance, Fail
<1>2. Run!Init /\ run = "launch" /\ plan = NoPlan
  BY <1>1, EarlyRun DEF PInv, StageInv, Early
<1>3. RunInv'
  BY <1>1, <1>2, SessionUsed DEF PInv
<1>4. session' = "open" => Run!Init'
  BY <1>1, <1>2, StillEarly, RunTypes DEF PInv
<1>5. RequestTypes'
  BY <1>1 DEF PInv, RequestTypes, Stages
<1>6. PlanInv' /\ StageInv'
  BY <1>1, <1>2, <1>4 DEF PlanInv, StageInv, Early, Ending
<1> QED
  BY <1>3, <1>5, <1>6 DEF PInv

LEMMA CheckRateInv == PInv /\ CheckRate => PInv'
<1> SUFFICES ASSUME PInv, CheckRate PROVE PInv'
  OBVIOUS
<1>1. /\ stage = "rate"
      /\ UNCHANGED <<query, history, row, answer, plan, intent, running, session>>
      /\ \/ stage' \in {"history", "refused"} /\ failedAt' = failedAt
         \/ stage' = "failed" /\ failedAt' = "rate"
  BY DEF CheckRate, Advance, Fail
<1>2. Run!Init /\ run = "launch" /\ plan = NoPlan /\ session \in {"idle", "open"}
  BY <1>1, EarlyRun DEF PInv, StageInv, Early
<1>3. RunInv' /\ Run!Init'
  BY <1>1, <1>2, StillEarly, RunTypes DEF PInv
<1>4. RequestTypes'
  BY <1>1 DEF PInv, RequestTypes, Stages
<1>5. PlanInv' /\ StageInv'
  BY <1>1, <1>2, <1>3 DEF PlanInv, StageInv, Early, Ending
<1> QED
  BY <1>3, <1>4, <1>5 DEF PInv

LEMMA GetHistoryInv == PInv /\ GetHistory => PInv'
<1> SUFFICES ASSUME PInv, GetHistory PROVE PInv'
  OBVIOUS
<1>1. /\ stage = "history"
      /\ UNCHANGED <<query, row, answer, plan, intent, running>>
      /\ \/ /\ history' \in {"none", "match"} /\ session' = session
            /\ stage' = "classify" /\ failedAt' = failedAt
         \/ /\ session' = "broken" /\ history' = history
            /\ stage' = "failed" /\ failedAt' = "history"
  BY DEF GetHistory, Advance, Fail
<1>2. Run!Init /\ run = "launch" /\ plan = NoPlan /\ session \in {"idle", "open"}
  BY <1>1, EarlyRun DEF PInv, StageInv, Early
<1>3. RunInv'
  BY <1>1, <1>2, SessionUsed DEF PInv
<1>4. stage' # "failed" => Run!Init'
  BY <1>1, <1>2, StillEarly, RunTypes DEF PInv
<1>5. RequestTypes'
  BY <1>1 DEF PInv, RequestTypes, Stages
<1>6. PlanInv' /\ StageInv'
  BY <1>1, <1>2, <1>4 DEF PlanInv, StageInv, Early, Ending
<1> QED
  BY <1>3, <1>5, <1>6 DEF PInv

LEMMA ClassifyInv == PInv /\ Classify => PInv'
<1> SUFFICES ASSUME PInv, Classify PROVE PInv'
  OBVIOUS
<1>1. /\ stage = "classify"
      /\ UNCHANGED <<history, row, answer, plan, running, session>>
      /\ \/ /\ query' \in Queries /\ stage' = "plan" /\ failedAt' = failedAt
            /\ \E unclear \in BOOLEAN :
                   intent' = [intent EXCEPT !.needsClarification = unclear]
         \/ /\ stage' = "failed" /\ failedAt' = "classify"
            /\ UNCHANGED <<query, intent>>
  BY DEF Classify, Advance, Fail
<1>2. Run!Init /\ run = "launch" /\ plan = NoPlan /\ session \in {"idle", "open"}
  BY <1>1, EarlyRun DEF PInv, StageInv, Early
<1>3. intent' \in [needsClarification : BOOLEAN, streaming : BOOLEAN]
  BY <1>1, RunTypes DEF PInv
<1>4. RunInv' /\ Run!Init'
  BY <1>1, <1>2, <1>3, StillEarly, RunTypes DEF PInv
<1>5. RequestTypes'
  BY <1>1 DEF PInv, RequestTypes, Stages
<1>6. PlanInv' /\ StageInv'
  BY <1>1, <1>2, <1>4 DEF PlanInv, StageInv, Early, Ending
<1> QED
  BY <1>4, <1>5, <1>6 DEF PInv

LEMMA MakePlanInv == PInv /\ MakePlan => PInv'
<1> SUFFICES ASSUME PInv, MakePlan PROVE PInv'
  OBVIOUS
<1>1. /\ stage = "plan"
      /\ UNCHANGED <<query, history, row, answer, intent, running, session>>
      /\ \/ plan' = Planned /\ stage' = "agents" /\ failedAt' = failedAt
         \/ plan' = plan /\ stage' = "failed" /\ failedAt' = "plan"
  BY DEF MakePlan, Advance, Fail, Planned
<1>2. Run!Init /\ run = "launch" /\ plan = NoPlan /\ session \in {"idle", "open"}
  BY <1>1, EarlyRun DEF PInv, StageInv, Early
<1>3. Planned \in Plans
  BY <1>1 DEF PInv, StageInv, Planned, Plans, AllTemplates, Queries
<1>4. RunInv' /\ Run!Init'
  BY <1>1, <1>2, <1>3, StillEarly, RunTypes, NoPlanIsOne DEF PInv
<1>5. RequestTypes'
  BY <1>1 DEF PInv, RequestTypes, Stages
<1>6. PlanInv' /\ StageInv'
  BY <1>1, <1>2, <1>4 DEF PlanInv, Planned, StageInv, Early, Ending
<1> QED
  BY <1>4, <1>5, <1>6 DEF PInv

LEMMA BuildAgentsInv == PInv /\ BuildAgents => PInv'
<1> SUFFICES ASSUME PInv, BuildAgents PROVE PInv'
  OBVIOUS
<1>1. /\ stage = "agents" /\ session' \in {"open", "idle", "broken"}
      /\ UNCHANGED <<query, history, row, answer, plan, intent, running>>
      /\ \/ stage' = "run" /\ failedAt' = failedAt
         \/ stage' = "failed" /\ failedAt' = "agents"
  BY DEF BuildAgents, Advance, Fail
<1>2. run = "launch"
  BY <1>1, EarlyRun DEF PInv, Early
<1>3. RunInv'
  BY <1>1, <1>2, SessionUsed DEF PInv
<1>4. RequestTypes'
  BY <1>1 DEF PInv, RequestTypes, Stages
<1>5. PlanInv' /\ StageInv'
  BY <1>1 DEF PInv, PlanInv, Planned, StageInv, Early, Ending
<1> QED
  BY <1>3, <1>4, <1>5 DEF PInv

-----------------------------------------------------------------------------
(* During the run and after it.                                            *)
LEMMA RunPlanInv == PInv /\ RunPlan => PInv'
<1> SUFFICES ASSUME PInv, RunPlan PROVE PInv'
  OBVIOUS
<1>1. /\ Run!Next /\ UNCHANGED <<stage, failedAt, query, history, row, answer>>
      /\ stage = "run" \/ run # "launch"
  BY DEF RunPlan, request
<1>2. RunInv'
  BY <1>1, StepRun DEF PInv
<1>3. /\ UNCHANGED <<plan, intent>>
      /\ run = "done" => UNCHANGED <<run, results, actions>>
  BY <1>1, RunFlow DEF PInv
<1>4. stage \notin Early
  BY <1>1, EarlyRun DEF PInv, Early
<1>5. RequestTypes'
  BY <1>1 DEF PInv, RequestTypes
<1>6. PlanInv'
  BY <1>1, <1>3 DEF PInv, PlanInv, Planned
<1>7. StageInv'
  BY <1>1, <1>3, <1>4 DEF PInv, StageInv, Early, Ending, NewRow, Asks, Resolves
<1> QED
  BY <1>2, <1>5, <1>6, <1>7 DEF PInv

LEMMA RunOverInv == PInv /\ (RunOver \/ Synthesize) => PInv'
<1> SUFFICES ASSUME PInv, RunOver \/ Synthesize PROVE PInv'
  OBVIOUS
<1>1. /\ UNCHANGED <<query, history, row, answer, plan, intent, running, session>>
      /\ stage \in {"run", "synthesize"}
      /\ \/ stage' \in {"synthesize", "save"} /\ failedAt' = failedAt /\ run = "done"
         \/ stage' = "failed" /\ failedAt' \in {"run", "synthesize"}
  BY DEF RunOver, Synthesize, Advance, Fail, PInv, StageInv, Ending
<1>2. RunInv'
  BY <1>1, StepRun DEF PInv, Run!vars, running
<1>3. RequestTypes'
  BY <1>1 DEF PInv, RequestTypes, Stages
<1>4. PlanInv' /\ StageInv'
  BY <1>1 DEF PInv, PlanInv, Planned, StageInv, Early, Ending, running
<1> QED
  BY <1>2, <1>3, <1>4 DEF PInv

LEMMA NewRowType == RunInv => NewRow \in [actions : Seq(Node \cup {"none"}), asked : BOOLEAN]
<1> SUFFICES ASSUME RunInv PROVE NewRow \in [actions : Seq(Node \cup {"none"}), asked : BOOLEAN]
  OBVIOUS
<1>1. actions \in Seq(Node \cup {"none"}) /\ intent.needsClarification \in BOOLEAN
  BY RunTypes
<1> QED
  BY <1>1 DEF NewRow

LEMMA SaveInv == PInv /\ Save => PInv'
<1> SUFFICES ASSUME PInv, Save PROVE PInv'
  OBVIOUS
<1>1. /\ stage = "save" /\ run = "done" /\ row' \in {row, NewRow}
      /\ UNCHANGED <<query, history, answer, plan, intent, running>>
      /\ \/ session' = "idle" /\ stage' = "refresh" /\ failedAt' = failedAt /\ row' = NewRow
         \/ session' = "broken" /\ stage' = "failed" /\ failedAt' \in {"save", "session"}
  BY DEF Save, Advance, Fail, PInv, StageInv, Ending
<1>2. RunInv'
  BY <1>1, SessionUsed DEF PInv
<1>3. row' \in [actions : Seq(Node \cup {"none"}), asked : BOOLEAN]
  BY <1>1, NewRowType DEF PInv, RequestTypes
<1>4. RequestTypes'
  BY <1>1, <1>3 DEF PInv, RequestTypes, Stages
<1>5. PlanInv' /\ StageInv'
  BY <1>1 DEF PInv, PlanInv, Planned, StageInv, Early, Ending, NewRow, running
<1> QED
  BY <1>2, <1>4, <1>5 DEF PInv

LEMMA AnswerInv == PInv /\ Answer => PInv'
<1> SUFFICES ASSUME PInv, Answer PROVE PInv'
  OBVIOUS
<1>1. /\ stage = "refresh" /\ run = "done" /\ row = NewRow
      /\ session' \in {"open", "broken"}
      /\ UNCHANGED <<query, history, row, plan, intent, running>>
      /\ \/ /\ stage' = "answered" /\ failedAt' = failedAt
            /\ answer' = [asks |-> Asks, actions |-> actions, errors |-> Errors]
         \/ stage' = "failed" /\ failedAt' \in {"refresh", "socket"} /\ answer' = answer
  BY DEF Answer, Advance, Fail, PInv, StageInv, Ending
<1>2. RunInv'
  BY <1>1, SessionUsed DEF PInv
<1>3. answer' \in [asks : BOOLEAN, actions : Seq(Node \cup {"none"}), errors : SUBSET Services]
  <2>1. Asks \in BOOLEAN /\ actions \in Seq(Node \cup {"none"})
    <3>1. intent.needsClarification \in BOOLEAN /\ actions \in Seq(Node)
      BY RunTypes DEF PInv
    <3>2. actions \in Seq(Node \cup {"none"})
      BY <3>1
    <3> QED
      BY ONLY <3>1, <3>2 DEF Asks
  <2>2. Errors \in SUBSET Services
    BY DEF Errors
  <2>3. answer \in [asks : BOOLEAN, actions : Seq(Node \cup {"none"}), errors : SUBSET Services]
    BY DEF PInv, RequestTypes
  <2> QED
    BY <1>1, <2>1, <2>2, <2>3
<1>4. RequestTypes'
  BY <1>1, <1>3 DEF PInv, RequestTypes, Stages
<1>5. PlanInv'
  BY <1>1 DEF PInv, PlanInv, Planned
<1>6. Asks' = Asks /\ NewRow' = NewRow
  BY <1>1 DEF Asks, Resolves, NewRow, running
<1>7. StageInv'
  BY <1>1, <1>6 DEF PInv, StageInv, Early, Ending, running
<1> QED
  BY <1>2, <1>4, <1>5, <1>7 DEF PInv

LEMMA StepPInv == PInv /\ [Next]_vars => PInv'
<1> SUFFICES ASSUME PInv, [Next]_vars PROVE PInv'
  OBVIOUS
<1>1. CASE UNCHANGED vars
  <2>1. RunInv'
    BY <1>1, StepRun DEF vars, running, Run!vars, PInv
  <2> QED
    BY <1>1, <2>1 DEF vars, request, running, PInv, RequestTypes, PlanInv, Planned, StageInv,
                      Run!Init, NewRow, Asks, Resolves
<1> QED
  BY <1>1, GetUserInv, CheckRateInv, GetHistoryInv, ClassifyInv, MakePlanInv, BuildAgentsInv,
     RunPlanInv, RunOverInv, SaveInv, AnswerInv DEF Next

(* A request has the plan that its query asks for, starts its run once and *)
(* afresh, and gets past it only when it is done; what it saves and        *)
(* answers is what the run reported.                                       *)
THEOREM Invariance == Spec => []PInv
  BY InitPInv, StepPInv, PTL DEF Spec

-----------------------------------------------------------------------------
(* The theorems.                                                           *)

(* The plans that are run are those the planner builds.                    *)
LEMMA PlanOf ==
  ASSUME PInv, NEW n \in plan.nodes
  PROVE  LET t == BuildPlan(query.name, query.services)
         IN  /\ plan = Planned /\ n \in DOMAIN t /\ plan.nodes = DOMAIN t
             /\ plan.dependsOn[n] = t[n].dependsOn
             /\ n \in plan.optional <=> t[n].optional
             /\ n \in plan.isWrite <=> t[n].isWrite
<1>1. plan = Planned
  BY DEF PInv, PlanInv, NoPlan
<1> QED
  BY <1>1 DEF Planned, Runnable

(* The state of a request and of its run stay well formed.                 *)
THEOREM TypeCorrect == Spec => []TypeOK
<1>1. PInv => TypeOK
  <2> SUFFICES ASSUME PInv PROVE TypeOK
    OBVIOUS
  <2>1. Run!TypeOK
    BY SameTypeOK DEF PInv, RunInv, O!AInv, O!IInv
  <2>2. stage \in Ending => session # "connecting"
    BY DEF PInv, StageInv, RunInv, O!ConnectInv, O!AInv, O!ActiveInv
  <2> QED
    BY <2>1, <2>2 DEF PInv, RequestTypes, StageInv, Ending, TypeOK
<1> QED
  BY <1>1, Invariance, PTL

(* A builder finds every id it looks up in the report, and no failure      *)
(* unless its node is optional.                                            *)
THEOREM BuilderSafety == Spec => []BuildersFindTheirInputs
<1>1. PInv => BuildersFindTheirInputs
  <2> SUFFICES ASSUME PInv, NEW n \in plan.nodes, Run!Begun(n),
                      NEW d \in BuildPlan(query.name, query.services)[n].reads
               PROVE  results[d] = "ok" \/ (n \in plan.optional /\ results[d] # "none")
    BY DEF BuildersFindTheirInputs
  <2>1. d \in plan.dependsOn[n]
    BY PlanOf, PlansWellBuilt DEF WellBuilt
  <2>2. n \in Node
    BY RunTypes, O!PlanFacts, SameAssumption DEF PInv
  <2>3. O!Begun(n)
    BY DEF Run!Begun, O!Begun
  <2>4. results[d] # "none"
    BY <2>1, <2>2, <2>3 DEF PInv, RunInv, O!AInv, O!IInv, O!SettledInv, O!Begun
  <2>5. n \in plan.optional \/ results[d] = "ok"
    BY <2>1, <2>3 DEF PInv, RunInv, O!AInv, O!IInv, O!SkipInv, O!Promise!Runs
  <2> QED
    BY <2>4, <2>5
<1> QED
  BY <1>1, Invariance, PTL

(* A node that has failed had all its dependencies, unless it is optional. *)
LEMMA FailedHadAll ==
  ASSUME PInv, NEW n \in plan.nodes, results[n] = "error", n \notin plan.optional,
         NEW d \in plan.dependsOn[n]
  PROVE  results[d] = "ok"
<1>1. n \in Node
  BY RunTypes, O!PlanFacts, SameAssumption DEF PInv
<1>2. outcome[n] = "error" /\ task[n] = "returned"
  BY <1>1 DEF PInv, RunInv, O!AInv, O!IInv, O!OutcomeInv
<1>3. O!Begun(n)
  BY <1>2 DEF O!Begun
<1> QED
  BY <1>3 DEF PInv, RunInv, O!AInv, O!IInv, O!SkipInv, O!Promise!Runs

(* No two nodes of a service fail in one run.                              *)
THEOREM FailureSafety == Spec => []NoFailureHidesAnother
<1>1. PInv => NoFailureHidesAnother
  <2> SUFFICES ASSUME PInv, NEW n \in plan.nodes, NEW m \in plan.nodes,
                      results[n] = "error", results[m] = "error",
                      n # m, Agent(n) = Agent(m), Agent(n) \in Services
               PROVE  FALSE
    BY DEF NoFailureHidesAnother
  <2> DEFINE t == BuildPlan(query.name, query.services)
  <2>1. Needs(t, n, m) \/ Needs(t, m, n)
    BY PlanOf, PlansWellBuilt DEF WellBuilt, Agent
  <2> QED
    BY <2>1, PlanOf, FailedHadAll DEF Needs
<1> QED
  BY <1>1, Invariance, PTL

(* A plan with a write resolves no reference, so that its request asks the *)
(* user what the classifier would ask.                                     *)
LEMMA ResolveIsNode ==
  ASSUME NEW n \in Node
  PROVE  "resolve_reference" \in Node
<1>1. PICK name \in Intents, services \in ServiceLists : n \in DOMAIN BuildPlan(name, services)
  BY DEF Node, AllTemplates
<1>2. DOMAIN Templates = {"cancel_flight", "prepare_for_meeting", "reschedule_event",
                          "find_conflicts", "reference_lookup"}
  BY DEF Templates
<1>3. BuildPlan("reference_lookup", services) = ReferenceLookup
  <2>1. "reference_lookup" \in DOMAIN Templates
    BY <1>2
  <2>2. "reference_lookup" \notin DOMAIN SingleSearches
    BY DEF SingleSearches
  <2>3. Templates["reference_lookup"] = ReferenceLookup
    BY DEF Templates
  <2>4. BuildPlan("reference_lookup", services) = Templates["reference_lookup"]
    BY <2>1, <2>2 DEF BuildPlan
  <2> QED
    BY <2>3, <2>4
<1>4. "resolve_reference" \in DOMAIN ReferenceLookup
  BY DEF ReferenceLookup
<1>5. "reference_lookup" \in Intents
  BY <1>2 DEF Intents
<1> QED
  BY <1>1, <1>3, <1>4, <1>5 DEF Node, AllTemplates

LEMMA WritesAskAsClassified ==
  ASSUME PInv, NEW n \in plan.isWrite
  PROVE  /\ n \in Node /\ n \in plan.nodes
         /\ Asks = intent.needsClarification
<1>1. n \in Node /\ n \in plan.nodes
  BY RunTypes, O!WriteOps, SameAssumption DEF PInv, RunInv, O!AInv, O!IInv
<1>2. "resolve_reference" \in Node
  BY <1>1, ResolveIsNode
<1>3. ASSUME Resolves PROVE FALSE
  <2>1. results["resolve_reference"] = "ok"
    BY <1>3 DEF Resolves
  <2>2. outcome["resolve_reference"] = "ok" /\ task["resolve_reference"] = "returned"
    BY <1>2, <2>1 DEF PInv, RunInv, O!AInv, O!IInv, O!OutcomeInv
  <2>3. "resolve_reference" \in plan.nodes
    BY <1>2, <2>2 DEF PInv, RunInv, O!AInv, O!IInv, O!SettledInv
  <2> QED
    BY <1>1, <2>3, PlanOf, PlansWellBuilt DEF WellBuilt
<1> QED
  BY <1>1, <1>3 DEF Asks

(* A question means that nothing was written, nor will be; a write held    *)
(* back for no other reason comes with a question.                         *)
THEOREM QuestionSafety == Spec => []QuestionOrAction
<1>1. PInv => QuestionOrAction
  <2> SUFFICES ASSUME PInv, stage = "answered", NEW n \in plan.isWrite
               PROVE  /\ answer.asks => effects[n] = 0 /\ thread[n] = "idle"
                      /\ results[n] = "skipped" /\ (\A d \in plan.dependsOn[n] : results[d] = "ok")
                             => answer.asks
    BY DEF QuestionOrAction
  <2>1. n \in Node /\ n \in plan.nodes /\ answer.asks = intent.needsClarification
    BY WritesAskAsClassified DEF PInv, StageInv
  <2>2. O!IInv
    BY DEF PInv, RunInv, O!AInv
  <2>3. ASSUME intent.needsClarification PROVE effects[n] = 0 /\ thread[n] = "idle"
    <3>1. thread[n] = "idle" /\ effects[n] <= attempts[n] /\ attempts[n] = 0
      BY <2>1, <2>2, <2>3 DEF O!IInv, O!UnclearInv, O!ThreadInv
    <3>2. effects[n] \in 0..MaxAttempts
      BY <2>1, <2>2 DEF O!IInv, O!TypeOK
    <3> QED
      BY <3>1, <3>2, PipelineAssumption
  <2>4. ASSUME results[n] = "skipped", \A d \in plan.dependsOn[n] : results[d] = "ok"
        PROVE  intent.needsClarification
    <3>1. outcome[n] = "skipped"
      BY <2>1, <2>2, <2>4 DEF O!IInv, O!OutcomeInv
    <3> QED
      BY <2>1, <2>2, <2>4, <3>1 DEF O!IInv, O!SkipInv, O!Promise!Runs
  <2> QED
    BY <2>1, <2>3, <2>4
<1> QED
  BY <1>1, Invariance, PTL

(* Every node of a run that is done has a status in the report.            *)
LEMMA DoneIsReported ==
  ASSUME PInv, run = "done", NEW n \in plan.nodes
  PROVE  results[n] \in {"ok", "error", "skipped"}
<1>1. n \in Node /\ results[n] # "none"
  BY RunTypes, O!PlanFacts, SameAssumption DEF PInv, RunInv, O!DoneInv
<1>2. results \in [Node -> O!Statuses]
  BY DEF PInv, RunInv, O!AInv, O!IInv, O!TypeOK
<1> QED
  BY <1>1, <1>2 DEF O!Statuses

(* What the client, the conversation and the audit log say was done is the *)
(* same.                                                                   *)
THEOREM RecordSafety == Spec => []AnswerIsOnRecord
<1>1. PInv => AnswerIsOnRecord
  <2> SUFFICES ASSUME PInv, stage = "answered"
               PROVE  /\ answer.actions = row.actions
                      /\ \A n \in plan.isWrite :
                             auditLog[n] = {"success"} <=>
                                 \E k \in DOMAIN row.actions : row.actions[k] = n
    BY DEF AnswerIsOnRecord
  <2>1. /\ run = "done" /\ row.actions = actions /\ answer.actions = actions
        /\ DOMAIN actions = 1..Len(actions)
    BY RunTypes DEF PInv, StageInv, Ending, NewRow
  <2>2. ASSUME NEW n \in plan.isWrite
        PROVE  auditLog[n] = {"success"} <=> \E k \in 1..Len(actions) : actions[k] = n
    <3>1. n \in Node /\ n \in plan.nodes
      BY WritesAskAsClassified
    <3>2. results[n] \in {"ok", "error", "skipped"}
      BY <2>1, <3>1, DoneIsReported
    <3>3. outcome[n] = results[n] /\ task[n] = "returned"
      BY <3>1, <3>2 DEF PInv, RunInv, O!AInv, O!IInv, O!OutcomeInv
    <3>4. /\ results[n] = "ok" => auditLog[n] = {"success"}
          /\ results[n] = "error" => auditLog[n] = {"error"}
          /\ results[n] = "skipped" => auditLog[n] = {}
      BY <3>1, <3>3 DEF PInv, RunInv, O!AInv, O!AuditInv, O!Audited, O!ReturnedWrite
    <3>5. results[n] = "ok" <=> \E k \in 1..Len(actions) : actions[k] = n
      BY DEF PInv, RunInv, O!AInv, O!ActionsInv
    <3>6. auditLog[n] = {"success"} <=> results[n] = "ok"
      BY <3>2, <3>4
    <3> QED
      BY <3>5, <3>6
  <2> QED
    BY <2>1, <2>2
<1> QED
  BY <1>1, Invariance, PTL
=============================================================================
