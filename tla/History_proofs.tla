--------------------------- MODULE History_proofs ---------------------------
(***************************************************************************)
(* The lifecycle of an organization, its disaster and its restore          *)
(* implement LifecycleHistory, for any number of commands, handlers,       *)
(* requests and batches, wherever processes die and whatever the backup.   *)
(*                                                                         *)
(* The argument is told in worlds: what each number of accepted decisions  *)
(* has made of the organization.  While the system lives the database      *)
(* shows the world of the decisions it has projected, and what is pending  *)
(* fits it; so does a backup; and the restore leads the rebuilt database   *)
(* through the same worlds again.                                          *)
(***************************************************************************)
EXTENDS Restore_proofs, WellFoundedInduction

-----------------------------------------------------------------------------
(* The refinement of the history.  A world is what a number of accepted     *)
(* decisions have made of an organization: the service the history speaks   *)
(* of, the term in force and its end.                                       *)

Shown(o, h) == [status |-> o.status, episode |-> o.episode, ends |-> o.ends,
                eligible |-> o.eligible, held |-> {r \in DOMAIN h : h[r] = "active"}]

Outset == [service |-> History!Unstarted, term |-> None, ends |-> 0]

Onward(w, i, d) ==
    [service |-> History!Effect(w.service, d),
     term    |-> IF d.action \in TermActions THEN i ELSE w.term,
     ends    |-> IF d.action \in TermActions THEN d.ends ELSE w.ends]

ServiceFields == {"status", "episode", "ends", "eligible", "held"}
Statuses == {"active", "offboarding", "purging", "gone"}

\* What is so of every world: service that goes on ends with its term.
Sound(w) ==
    /\ w.service = [f \in ServiceFields |-> w.service[f]]
    /\ w.service.status \in Statuses
    /\ w.service.status # "active" => w.term # None
    /\ w.service.status = "active" /\ w.term # None => w.service.ends = w.ends

\* Decision i, with data d, is one the history admits there, and is of the term in force.
Fitting(w, i, d) ==
    /\ History!Admissible(w.service, d)
    /\ d.action \in Service => w.term # None
    /\ d.action \in {"cancel", "expire_term"} => d.ends = w.ends
    /\ d.action = "create_restriction" => d.held = i

\* The database - its rows of org, holds and operations - shows a world; what is
\* pending fits it.
Reads(w, o, h, P) ==
    /\ Shown(o, h) = w.service /\ o.term = w.term
    /\ o.term # None => /\ o.term \in DOMAIN P /\ P[o.term].status = "applied"
                        /\ P[o.term].data.ends = w.ends
    /\ \A i \in DOMAIN P : P[i].status = "pending" => Fitting(w, i, P[i].data)

\* The first k decisions are applied, and no others.
Settled(k, P) ==
    /\ \A n \in 1..k : log[n] \in DOMAIN P /\ P[log[n]].status = "applied"
    /\ \A i \in DOMAIN P : P[i].status = "applied" => InLog(i)

\* What the history has of a decision.
Deed(i) == IF i \in DOMAIN restore.events THEN restore.events[i] ELSE ops[i].data

\* The worlds the accepted decisions lead through.
Tale(g) ==
    /\ g[0] = Outset
    /\ \A n \in 1..Len(log) : /\ g[n] = Onward(g[n - 1], log[n], Deed(log[n]))
                              /\ Fitting(g[n - 1], log[n], Deed(log[n]))
    /\ \A n \in 0..Len(log) : Sound(g[n])

-----------------------------------------------------------------------------
(* Worlds. *)

LEMMA SoundOutset == Sound(Outset)
BY DEF Sound, Outset, ServiceFields, Statuses, History!Unstarted

\* What each decision makes of the service.
LEMMA OnTerm ==
    ASSUME NEW s, s = [f \in ServiceFields |-> s[f]], NEW d, NEW t, t = History!Effect(s, d),
           d.action \in TermActions
    PROVE  /\ t = [f \in ServiceFields |-> t[f]]
           /\ t.status = "active" /\ t.episode = None /\ t.ends = d.ends /\ t.eligible = 0
           /\ t.held = s.held
BY DEF History!Effect, ServiceFields, TermActions, Service

LEMMA OnEnd ==
    ASSUME NEW s, s = [f \in ServiceFields |-> s[f]], NEW d, NEW t, t = History!Effect(s, d),
           d.action \in Service
    PROVE  /\ t = [f \in ServiceFields |-> t[f]]
           /\ t.status = "offboarding" /\ t.episode = d.episode /\ t.ends = d.ends
           /\ t.eligible = d.eligible /\ t.held = s.held
BY DEF History!Effect, ServiceFields, TermActions, Service

LEMMA OnCancel ==
    ASSUME NEW s, s = [f \in ServiceFields |-> s[f]], NEW d, NEW t, t = History!Effect(s, d),
           d.action = "cancel"
    PROVE  /\ t = [f \in ServiceFields |-> t[f]]
           /\ t.status = "active" /\ t.episode = None /\ t.ends = d.ends /\ t.eligible = 0
           /\ t.held = s.held
BY DEF History!Effect, ServiceFields, TermActions, Service

LEMMA OnExtend ==
    ASSUME NEW s, s = [f \in ServiceFields |-> s[f]], NEW d, NEW t, t = History!Effect(s, d),
           d.action = "extend"
    PROVE  /\ t = [f \in ServiceFields |-> t[f]]
           /\ t.status = s.status /\ t.episode = s.episode /\ t.ends = s.ends
           /\ t.eligible = d.eligible /\ t.held = s.held
BY DEF History!Effect, ServiceFields, TermActions, Service

LEMMA OnCreate ==
    ASSUME NEW s, s = [f \in ServiceFields |-> s[f]], NEW d, NEW t, t = History!Effect(s, d),
           d.action = "create_restriction"
    PROVE  /\ t = [f \in ServiceFields |-> t[f]]
           /\ t.status = s.status /\ t.episode = s.episode /\ t.ends = s.ends
           /\ t.eligible = s.eligible /\ t.held = s.held \cup {d.held}
BY DEF History!Effect, ServiceFields, TermActions, Service

LEMMA OnRelease ==
    ASSUME NEW s, s = [f \in ServiceFields |-> s[f]], NEW d, NEW t, t = History!Effect(s, d),
           d.action = "release_restriction"
    PROVE  /\ t = [f \in ServiceFields |-> t[f]]
           /\ t.status = s.status /\ t.episode = s.episode /\ t.ends = s.ends
           /\ t.eligible = s.eligible /\ t.held = s.held \ {d.held}
BY DEF History!Effect, ServiceFields, TermActions, Service

LEMMA OnClaim ==
    ASSUME NEW s, s = [f \in ServiceFields |-> s[f]], NEW d, NEW t, t = History!Effect(s, d),
           d.action = "claim"
    PROVE  /\ t = [f \in ServiceFields |-> t[f]]
           /\ t.status = "purging" /\ t.episode = s.episode /\ t.ends = s.ends
           /\ t.eligible = s.eligible /\ t.held = s.held
BY DEF History!Effect, ServiceFields, TermActions, Service

LEMMA OnComplete ==
    ASSUME NEW s, s = [f \in ServiceFields |-> s[f]], NEW d, NEW t, t = History!Effect(s, d),
           d.action = "complete"
    PROVE  /\ t = [f \in ServiceFields |-> t[f]]
           /\ t.status = "gone" /\ t.episode = s.episode /\ t.ends = s.ends
           /\ t.eligible = s.eligible /\ t.held = s.held
BY DEF History!Effect, ServiceFields, TermActions, Service

Moving == TermActions \cup Service \cup
          {"cancel", "extend", "create_restriction", "release_restriction", "claim", "complete"}

LEMMA OnOther ==
    ASSUME NEW s, NEW d, d.action \notin Moving
    PROVE  History!Effect(s, d) = s
BY DEF History!Effect, Moving, TermActions, Service

\* A decision that fits a world leads to a world.
LEMMA SoundOnward ==
    ASSUME NEW w, Sound(w), NEW i, NEW d, Fitting(w, i, d)
    PROVE  Sound(Onward(w, i, d))
<1>1. PICK s, t, v : s = w.service /\ t = History!Effect(s, d) /\ v = Onward(w, i, d)
    OBVIOUS
<1>2. s = [f \in ServiceFields |-> s[f]]
    BY <1>1 DEF Sound
<1>3. /\ v.service = t
      /\ v.term = IF d.action \in TermActions THEN i ELSE w.term
      /\ v.ends = IF d.action \in TermActions THEN d.ends ELSE w.ends
    BY <1>1 DEF Onward
<1>4. CASE d.action \in TermActions
    <2>1. t = [f \in ServiceFields |-> t[f]] /\ t.status = "active" /\ t.ends = d.ends
        BY <1>1, <1>2, <1>4, OnTerm
    <2> QED
        BY <1>1, <1>3, <1>4, <2>1 DEF Sound, Statuses
<1>5. CASE d.action \in Service
    <2>1. w.term # None /\ d.action \notin TermActions
        BY <1>5 DEF Fitting, Service, TermActions
    <2>2. t = [f \in ServiceFields |-> t[f]] /\ t.status = "offboarding"
        BY <1>1, <1>2, <1>5, OnEnd
    <2> QED
        BY <1>1, <1>3, <2>1, <2>2 DEF Sound, Statuses
<1>6. CASE d.action = "cancel"
    <2>1. d.action \notin TermActions /\ d.ends = w.ends
        BY <1>6 DEF Fitting, TermActions
    <2>2. t = [f \in ServiceFields |-> t[f]] /\ t.status = "active" /\ t.ends = d.ends
        BY <1>1, <1>2, <1>6, OnCancel
    <2> QED
        BY <1>1, <1>3, <2>1, <2>2 DEF Sound, Statuses
<1>7. CASE d.action \in {"claim", "complete"}
    <2>1. d.action \notin TermActions /\ s.status # "active"
        BY <1>1, <1>7 DEF Fitting, History!Admissible, TermActions
    <2>2. t = [f \in ServiceFields |-> t[f]] /\ t.status \in {"purging", "gone"}
        BY <1>1, <1>2, <1>7, OnClaim, OnComplete
    <2> QED
        BY <1>1, <1>3, <2>1, <2>2 DEF Sound, Statuses
<1>8. CASE d.action \notin TermActions \cup Service \cup {"cancel", "claim", "complete"}
    <2>1. t = [f \in ServiceFields |-> t[f]] /\ t.status = s.status /\ t.ends = s.ends
        BY <1>1, <1>2, <1>8, OnExtend, OnCreate, OnRelease, OnOther DEF Moving
    <2> QED
        BY <1>1, <1>3, <1>8, <2>1 DEF Sound
<1> QED
    BY <1>4, <1>5, <1>6, <1>7, <1>8

\* Nothing is admitted once the organization is gone.
LEMMA NothingAfterEnd ==
    ASSUME NEW w, NEW i, NEW d, Fitting(w, i, d)
    PROVE  w.service.status # "gone"
BY DEF Fitting, History!Admissible

-----------------------------------------------------------------------------
(* What the database shows. *)

LEMMA ShownIs ==
    ASSUME NEW o, NEW h, NEW t, t = [f \in ServiceFields |-> t[f]],
           t.status = o.status, t.episode = o.episode, t.ends = o.ends, t.eligible = o.eligible,
           t.held = {r \in DOMAIN h : h[r] = "active"}
    PROVE  Shown(o, h) = t
BY DEF Shown, ServiceFields

LEMMA ShownFields ==
    ASSUME NEW o, NEW h, NEW t, Shown(o, h) = t
    PROVE  /\ t = [f \in ServiceFields |-> t[f]]
           /\ t.status = o.status /\ t.episode = o.episode /\ t.ends = o.ends
           /\ t.eligible = o.eligible /\ t.held = {r \in DOMAIN h : h[r] = "active"}
BY DEF Shown, ServiceFields

\* A decision is staged.
LEMMA ReadsStaged ==
    ASSUME OpsRows, NEW w, Reads(w, org, holds, ops), NEW i, i \notin DOMAIN ops, NEW o, IsOp(o),
           ops' = With(ops, i, o), UNCHANGED <<org, holds>>, Fitting(w, i, o.data)
    PROVE  Reads(w, org', holds', ops')
<1>1. /\ DOMAIN ops' = DOMAIN ops \cup {i} /\ ops'[i] = o
      /\ \A j \in DOMAIN ops : j # i => ops'[j] = ops[j]
    BY Joined
<1> QED
    BY <1>1 DEF Reads

\* A pending one is rewritten, and fits, or is rejected.
LEMMA ReadsRewritten ==
    ASSUME OpsRows, NEW w, Reads(w, org, holds, ops), NEW i, NEW o, Rewrites(i, o),
           UNCHANGED <<org, holds>>, o.status = "pending" => Fitting(w, i, o.data)
    PROVE  Reads(w, org', holds', ops')
<1>1. /\ DOMAIN ops' = DOMAIN ops /\ i \in DOMAIN ops /\ ops'[i] = o
      /\ ops[i].status = "pending"
      /\ \A j \in DOMAIN ops : j # i => ops'[j] = ops[j]
    BY Rewritten
<1> QED
    BY <1>1 DEF Reads

\* The pending one is projected.
LEMMA ReadsProjected ==
    ASSUME OpsRows, \A j, k \in Pending : j = k, NEW w, Reads(w, org, holds, ops),
           NEW i, NEW o, Rewrites(i, o), o.status = "applied", NEW d, d = ops[i].data, o.data = d,
           Shown(org', holds') = History!Effect(w.service, d),
           org'.term = IF d.action \in TermActions THEN i ELSE org.term
    PROVE  Reads(Onward(w, i, d), org', holds', ops')
<1>1. /\ DOMAIN ops' = DOMAIN ops /\ i \in DOMAIN ops /\ ops'[i] = o
      /\ ops[i].status = "pending" /\ \A j \in DOMAIN ops : j # i => ops'[j] = ops[j]
    BY Rewritten
<1>2. \A j \in DOMAIN ops' : ops'[j].status # "pending"
    BY <1>1 DEF Pending
<1>3. PICK v : v = Onward(w, i, d)
    OBVIOUS
<1>4. /\ v.service = History!Effect(w.service, d)
      /\ v.term = IF d.action \in TermActions THEN i ELSE w.term
      /\ v.ends = IF d.action \in TermActions THEN d.ends ELSE w.ends
    BY <1>3 DEF Onward
<1>5. org'.term # None => /\ org'.term \in DOMAIN ops' /\ ops'[org'.term].status = "applied"
                          /\ ops'[org'.term].data.ends = v.ends
    <2>1. CASE d.action \in TermActions
        BY <1>1, <1>4, <2>1
    <2>2. CASE d.action \notin TermActions
        BY <1>1, <1>4, <2>2 DEF Reads
    <2> QED
        BY <2>1, <2>2
<1>6. org'.term = v.term
    BY <1>4 DEF Reads
<1> QED
    BY <1>2, <1>3, <1>4, <1>5, <1>6 DEF Reads

-----------------------------------------------------------------------------
(* A projection turns the world the database shows into the next.           *)

\* What is known when a pending decision is projected.
Turn(p, w, A) ==
    /\ OpsRows /\ OrgShape /\ (\A j, k \in Pending : j = k)
    /\ proc[p].op \in DOMAIN ops /\ Projects(p, A)
    /\ Sound(w) /\ Reads(w, org, holds, ops)

LEMMA Turns ==
    ASSUME NEW p, NEW w, NEW A, Turn(p, w, A), NEW d, d = Data(p),
           Shown(org', holds') = History!Effect(w.service, d),
           org'.term = IF d.action \in TermActions THEN proc[p].op ELSE org.term
    PROVE  Reads(Onward(w, proc[p].op, d), org', holds', ops')
<1>1. PICK i, o : i = proc[p].op /\ o = [ops[i] EXCEPT !.status = "applied"]
    OBVIOUS
<1>2. IsOp(ops[i]) /\ i \in Pending /\ d = ops[i].data
    BY <1>1 DEF Turn, Projects, OpsRows, Pending, Data
<1>3. IsOp(o) /\ o.status = "applied" /\ o.data = d /\ o.expected = ops[i].expected
    BY <1>1, <1>2 DEF IsOp, OpFields
<1>4. ops' = [ops EXCEPT ![i].status = "applied"]
    BY <1>1 DEF Turn, Projects
<1>5. Rewrites(i, o)
    BY <1>1, <1>2, <1>3, <1>4 DEF Turn, OpsRows, Rewrites
<1> QED
    BY <1>1, <1>2, <1>3, <1>5, ReadsProjected DEF Turn

\* The row of org, with its next sequence.
LEMMA SequencedShape ==
    ASSUME OrgShape, NEW s, s = Sequenced
    PROVE  /\ s = [f \in OrgFields |-> s[f]] /\ s.seq = org.seq + 1
           /\ s.status = org.status /\ s.term = org.term /\ s.ends = org.ends
           /\ s.episode = org.episode /\ s.byOps = org.byOps /\ s.eligible = org.eligible
BY DEF OrgShape, OrgFields, Sequenced

LEMMA TermTurns ==
    ASSUME NEW p, NEW w, Turn(p, w, TermActions), ApplyTerm(p)
    PROVE  Reads(Onward(w, proc[p].op, Data(p)), org', holds', ops') /\ org'.seq = org.seq + 1
<1>1. PICK d, i, s, t : d = Data(p) /\ i = proc[p].op /\ s = Sequenced
                        /\ t = History!Effect(w.service, d)
    OBVIOUS
<1>2. /\ s = [f \in OrgFields |-> s[f]] /\ s.seq = org.seq + 1
    BY <1>1, SequencedShape DEF Turn
<1>3. org' = [s EXCEPT !.status = "active", !.term = i, !.ends = d.ends, !.episode = None,
                       !.byOps = FALSE, !.eligible = 0]
    BY <1>1 DEF ApplyTerm
<1>4. /\ org'.seq = org.seq + 1 /\ org'.status = "active" /\ org'.term = i /\ org'.ends = d.ends
      /\ org'.episode = None /\ org'.eligible = 0
    BY <1>2, <1>3 DEF OrgFields
<1>5. d.action \in TermActions /\ UNCHANGED holds
    BY <1>1 DEF ApplyTerm, Projects, Data
<1>6. w.service = [f \in ServiceFields |-> w.service[f]]
      /\ w.service.held = {r \in DOMAIN holds : holds[r] = "active"}
    BY ShownFields DEF Turn, Reads
<1>7. /\ t = [f \in ServiceFields |-> t[f]] /\ t.held = w.service.held
      /\ t.status = "active" /\ t.episode = None /\ t.ends = d.ends /\ t.eligible = 0
    BY <1>1, <1>5, <1>6, OnTerm
<1>8. Shown(org', holds') = t
    BY <1>4, <1>5, <1>6, <1>7, ShownIs
<1> QED
    BY <1>1, <1>4, <1>5, <1>8, Turns

\* What the database shows of the organization's row and its holds, at such a step.
LEMMA TurnFields ==
    ASSUME NEW p, NEW w, NEW A, Turn(p, w, A)
    PROVE  /\ w.service = [f \in ServiceFields |-> w.service[f]]
           /\ w.service.status = org.status /\ w.service.episode = org.episode
           /\ w.service.ends = org.ends /\ w.service.eligible = org.eligible
           /\ w.service.held = {r \in DOMAIN holds : holds[r] = "active"}
           /\ w.term = org.term /\ Fitting(w, proc[p].op, Data(p))
           /\ Data(p).action \in A /\ Applicable(p)
<1>1. ops[proc[p].op].status = "pending" /\ proc[p].op \in DOMAIN ops
    BY DEF Turn, Projects
<1>2. Fitting(w, proc[p].op, Data(p))
    BY <1>1 DEF Turn, Reads, Data
<1>3. Shown(org, holds) = w.service /\ w.term = org.term
    BY DEF Turn, Reads
<1>4. Data(p).action \in A /\ Applicable(p)
    BY DEF Turn, Projects, Data
<1> QED
    BY <1>2, <1>3, <1>4, ShownFields

LEMMA ExpiryTurns ==
    ASSUME NEW p, NEW w, Turn(p, w, {"expire_term"}), ApplyExpiry(p)
    PROVE  Reads(Onward(w, proc[p].op, Data(p)), org', holds', ops') /\ org'.seq = org.seq + 1
<1>1. PICK d, i, s, t : d = Data(p) /\ i = proc[p].op /\ s = Sequenced
                        /\ t = History!Effect(w.service, d)
    OBVIOUS
<1>2. /\ s = [f \in OrgFields |-> s[f]] /\ s.seq = org.seq + 1
      /\ s.term = org.term /\ s.ends = org.ends
    BY <1>1, SequencedShape DEF Turn
<1>3. org' = [s EXCEPT !.status = "offboarding", !.episode = d.episode, !.byOps = FALSE,
                       !.eligible = d.eligible]
    BY <1>1 DEF ApplyExpiry
<1>4. /\ org'.seq = org.seq + 1 /\ org'.status = "offboarding" /\ org'.term = org.term
      /\ org'.ends = org.ends /\ org'.episode = d.episode /\ org'.eligible = d.eligible
    BY <1>2, <1>3 DEF OrgFields
<1>5. d.action = "expire_term" /\ UNCHANGED holds
    BY <1>1 DEF ApplyExpiry, Projects, Data
<1>6. /\ w.service = [f \in ServiceFields |-> w.service[f]]
      /\ w.service.held = {r \in DOMAIN holds : holds[r] = "active"}
    BY TurnFields
<1>7. d.ends = org.ends
    <2>1. Fitting(w, i, d) /\ w.service.ends = org.ends /\ w.service.status = org.status
        BY <1>1, TurnFields
    <2>2. org.status = "active"
        <3>1. Applicable(p) /\ ops[i].data = d
            BY <1>1, TurnFields DEF Data
        <3> QED
            BY <1>1, <1>5, <3>1 DEF Applicable, TermActions
    <2> QED
        BY <1>5, <2>1, <2>2 DEF Fitting, Turn, Sound, Service
<1>8. /\ t = [f \in ServiceFields |-> t[f]] /\ t.held = w.service.held
      /\ t.status = "offboarding" /\ t.episode = d.episode /\ t.ends = d.ends
      /\ t.eligible = d.eligible
    BY <1>1, <1>5, <1>6, OnEnd DEF Service
<1>9. Shown(org', holds') = t
    BY <1>4, <1>5, <1>6, <1>7, <1>8, ShownIs
<1>10. org'.term = IF d.action \in TermActions THEN i ELSE org.term
    BY <1>4, <1>5 DEF TermActions
<1> QED
    BY <1>1, <1>4, <1>9, <1>10, Turns

LEMMA StartTurns ==
    ASSUME NEW p, NEW w, Turn(p, w, {"start"}), ApplyStart(p)
    PROVE  Reads(Onward(w, proc[p].op, Data(p)), org', holds', ops') /\ org'.seq = org.seq + 1
<1>1. PICK d, i, s, t : d = Data(p) /\ i = proc[p].op /\ s = Sequenced
                        /\ t = History!Effect(w.service, d)
    OBVIOUS
<1>2. /\ s = [f \in OrgFields |-> s[f]] /\ s.seq = org.seq + 1
      /\ s.term = org.term
    BY <1>1, SequencedShape DEF Turn
<1>3. org' = [s EXCEPT !.status = "offboarding", !.ends = d.ends, !.episode = d.episode,
                       !.byOps = TRUE, !.eligible = d.eligible]
    BY <1>1 DEF ApplyStart
<1>4. /\ org'.seq = org.seq + 1 /\ org'.status = "offboarding" /\ org'.term = org.term
      /\ org'.ends = d.ends /\ org'.episode = d.episode /\ org'.eligible = d.eligible
    BY <1>2, <1>3 DEF OrgFields
<1>5. d.action = "start" /\ UNCHANGED holds
    BY <1>1 DEF ApplyStart, Projects, Data
<1>6. /\ w.service = [f \in ServiceFields |-> w.service[f]]
      /\ w.service.held = {r \in DOMAIN holds : holds[r] = "active"}
    BY TurnFields
<1>7. /\ t = [f \in ServiceFields |-> t[f]] /\ t.held = w.service.held
      /\ t.status = "offboarding" /\ t.episode = d.episode /\ t.ends = d.ends
      /\ t.eligible = d.eligible
    BY <1>1, <1>5, <1>6, OnEnd DEF Service
<1>8. Shown(org', holds') = t
    BY <1>4, <1>5, <1>6, <1>7, ShownIs
<1>9. org'.term = IF d.action \in TermActions THEN i ELSE org.term
    BY <1>4, <1>5 DEF TermActions
<1> QED
    BY <1>1, <1>4, <1>8, <1>9, Turns

LEMMA CancelTurns ==
    ASSUME NEW p, NEW w, Turn(p, w, {"cancel"}), ApplyCancel(p)
    PROVE  Reads(Onward(w, proc[p].op, Data(p)), org', holds', ops') /\ org'.seq = org.seq + 1
<1>1. PICK d, i, s, t : d = Data(p) /\ i = proc[p].op /\ s = Sequenced
                        /\ t = History!Effect(w.service, d)
    OBVIOUS
<1>2. /\ s = [f \in OrgFields |-> s[f]] /\ s.seq = org.seq + 1
      /\ s.term = org.term
    BY <1>1, SequencedShape DEF Turn
<1>3. org' = [s EXCEPT !.status = "active", !.ends = TermEnds, !.episode = None,
                       !.byOps = FALSE, !.eligible = 0]
    BY <1>1 DEF ApplyCancel
<1>4. /\ org'.seq = org.seq + 1 /\ org'.status = "active" /\ org'.term = org.term
      /\ org'.ends = TermEnds /\ org'.episode = None /\ org'.eligible = 0
    BY <1>2, <1>3 DEF OrgFields
<1>5. d.action = "cancel" /\ UNCHANGED holds
    BY <1>1 DEF ApplyCancel, Projects, Data
<1>6. /\ w.service = [f \in ServiceFields |-> w.service[f]]
      /\ w.service.held = {r \in DOMAIN holds : holds[r] = "active"}
    BY TurnFields
<1>7. d.ends = TermEnds
    <2>1. Fitting(w, i, d) /\ w.service.status = org.status /\ w.term = org.term
        BY <1>1, TurnFields
    <2>2. org.status = "offboarding"
        BY <1>5, <2>1 DEF Fitting, History!Admissible, TermActions
    <2>3. org.term # None
        BY <2>1, <2>2 DEF Turn, Sound
    <2> QED
        BY <1>5, <2>1, <2>3 DEF Fitting, Turn, Reads, TermEnds
<1>8. /\ t = [f \in ServiceFields |-> t[f]] /\ t.held = w.service.held
      /\ t.status = "active" /\ t.episode = None /\ t.ends = d.ends /\ t.eligible = 0
    BY <1>1, <1>5, <1>6, OnCancel
<1>9. Shown(org', holds') = t
    BY <1>4, <1>5, <1>6, <1>7, <1>8, ShownIs
<1>10. org'.term = IF d.action \in TermActions THEN i ELSE org.term
    BY <1>4, <1>5 DEF TermActions
<1> QED
    BY <1>1, <1>4, <1>9, <1>10, Turns

LEMMA ExtensionTurns ==
    ASSUME NEW p, NEW w, Turn(p, w, {"extend"}), ApplyExtension(p)
    PROVE  Reads(Onward(w, proc[p].op, Data(p)), org', holds', ops') /\ org'.seq = org.seq + 1
<1>1. PICK d, i, s, t : d = Data(p) /\ i = proc[p].op /\ s = Sequenced
                        /\ t = History!Effect(w.service, d)
    OBVIOUS
<1>2. /\ s = [f \in OrgFields |-> s[f]] /\ s.seq = org.seq + 1 /\ s.status = org.status
      /\ s.term = org.term /\ s.ends = org.ends /\ s.episode = org.episode
    BY <1>1, SequencedShape DEF Turn
<1>3. org' = [s EXCEPT !.eligible = d.eligible]
    BY <1>1 DEF ApplyExtension
<1>4. /\ org'.seq = org.seq + 1 /\ org'.status = org.status /\ org'.term = org.term
      /\ org'.ends = org.ends /\ org'.episode = org.episode /\ org'.eligible = d.eligible
    BY <1>2, <1>3 DEF OrgFields
<1>5. d.action = "extend" /\ UNCHANGED holds
    BY <1>1 DEF ApplyExtension, Projects, Data
<1>6. PICK v : v = w.service
    OBVIOUS
<1>7. /\ v = [f \in ServiceFields |-> v[f]] /\ v.status = org.status /\ v.ends = org.ends
      /\ v.episode = org.episode /\ v.held = {r \in DOMAIN holds : holds[r] = "active"}
    BY <1>6, TurnFields
<1>8. /\ t = [f \in ServiceFields |-> t[f]] /\ t.held = v.held /\ t.status = v.status
      /\ t.episode = v.episode /\ t.ends = v.ends /\ t.eligible = d.eligible
    BY <1>1, <1>5, <1>6, <1>7, OnExtend
<1>9. Shown(org', holds') = t
    BY <1>4, <1>5, <1>7, <1>8, ShownIs
<1>10. org'.term = IF d.action \in TermActions THEN i ELSE org.term
    BY <1>4, <1>5 DEF TermActions
<1> QED
    BY <1>1, <1>4, <1>9, <1>10, Turns

LEMMA ClaimTurns ==
    ASSUME NEW p, NEW w, Turn(p, w, {"claim"}), ApplyClaim(p)
    PROVE  Reads(Onward(w, proc[p].op, Data(p)), org', holds', ops') /\ org'.seq = org.seq + 1
<1>1. PICK d, i, s, t : d = Data(p) /\ i = proc[p].op /\ s = Sequenced
                        /\ t = History!Effect(w.service, d)
    OBVIOUS
<1>2. /\ s = [f \in OrgFields |-> s[f]] /\ s.seq = org.seq + 1 /\ s.eligible = org.eligible
      /\ s.term = org.term /\ s.ends = org.ends /\ s.episode = org.episode
    BY <1>1, SequencedShape DEF Turn
<1>3. org' = [s EXCEPT !.status = "purging"]
    BY <1>1 DEF ApplyClaim
<1>4. /\ org'.seq = org.seq + 1 /\ org'.status = "purging" /\ org'.term = org.term
      /\ org'.ends = org.ends /\ org'.episode = org.episode /\ org'.eligible = org.eligible
    BY <1>2, <1>3 DEF OrgFields
<1>5. d.action = "claim" /\ UNCHANGED holds
    BY <1>1 DEF ApplyClaim, Projects, Data
<1>6. PICK v : v = w.service
    OBVIOUS
<1>7. /\ v = [f \in ServiceFields |-> v[f]] /\ v.ends = org.ends /\ v.eligible = org.eligible
      /\ v.episode = org.episode /\ v.held = {r \in DOMAIN holds : holds[r] = "active"}
    BY <1>6, TurnFields
<1>8. /\ t = [f \in ServiceFields |-> t[f]] /\ t.held = v.held /\ t.status = "purging"
      /\ t.episode = v.episode /\ t.ends = v.ends /\ t.eligible = v.eligible
    BY <1>1, <1>5, <1>6, <1>7, OnClaim
<1>9. Shown(org', holds') = t
    BY <1>4, <1>5, <1>7, <1>8, ShownIs
<1>10. org'.term = IF d.action \in TermActions THEN i ELSE org.term
    BY <1>4, <1>5 DEF TermActions
<1> QED
    BY <1>1, <1>4, <1>9, <1>10, Turns

LEMMA FinalTurns ==
    ASSUME NEW p, NEW w, Turn(p, w, {"complete"}), ApplyFinal(p)
    PROVE  Reads(Onward(w, proc[p].op, Data(p)), org', holds', ops') /\ org'.seq = org.seq + 1
<1>1. PICK d, i, s, t : d = Data(p) /\ i = proc[p].op /\ s = Sequenced
                        /\ t = History!Effect(w.service, d)
    OBVIOUS
<1>2. /\ s = [f \in OrgFields |-> s[f]] /\ s.seq = org.seq + 1 /\ s.eligible = org.eligible
      /\ s.term = org.term /\ s.ends = org.ends /\ s.episode = org.episode
    BY <1>1, SequencedShape DEF Turn
<1>3. org' = [s EXCEPT !.status = "gone"]
    BY <1>1 DEF ApplyFinal
<1>4. /\ org'.seq = org.seq + 1 /\ org'.status = "gone" /\ org'.term = org.term
      /\ org'.ends = org.ends /\ org'.episode = org.episode /\ org'.eligible = org.eligible
    BY <1>2, <1>3 DEF OrgFields
<1>5. d.action = "complete" /\ UNCHANGED holds
    BY <1>1 DEF ApplyFinal, Projects, Data
<1>6. PICK v : v = w.service
    OBVIOUS
<1>7. /\ v = [f \in ServiceFields |-> v[f]] /\ v.ends = org.ends /\ v.eligible = org.eligible
      /\ v.episode = org.episode /\ v.held = {r \in DOMAIN holds : holds[r] = "active"}
    BY <1>6, TurnFields
<1>8. /\ t = [f \in ServiceFields |-> t[f]] /\ t.held = v.held /\ t.status = "gone"
      /\ t.episode = v.episode /\ t.ends = v.ends /\ t.eligible = v.eligible
    BY <1>1, <1>5, <1>6, <1>7, OnComplete
<1>9. Shown(org', holds') = t
    BY <1>4, <1>5, <1>7, <1>8, ShownIs
<1>10. org'.term = IF d.action \in TermActions THEN i ELSE org.term
    BY <1>4, <1>5 DEF TermActions
<1> QED
    BY <1>1, <1>4, <1>9, <1>10, Turns

\* Of the decisions that leave the service as it is.
LEMMA QuietTurns ==
    ASSUME NEW p, NEW w, NEW A, Turn(p, w, A), A \cap Moving = {}, org' = Sequenced,
           UNCHANGED holds
    PROVE  Reads(Onward(w, proc[p].op, Data(p)), org', holds', ops') /\ org'.seq = org.seq + 1
<1>1. PICK d, i, v : d = Data(p) /\ i = proc[p].op /\ v = w.service
    OBVIOUS
<1>2. /\ org'.seq = org.seq + 1 /\ org'.status = org.status /\ org'.term = org.term
      /\ org'.ends = org.ends /\ org'.episode = org.episode /\ org'.eligible = org.eligible
    BY SequencedShape DEF Turn
<1>3. d.action \notin Moving
    BY <1>1, TurnFields
<1>4. /\ v = [f \in ServiceFields |-> v[f]] /\ v.status = org.status /\ v.ends = org.ends
      /\ v.eligible = org.eligible
      /\ v.episode = org.episode /\ v.held = {r \in DOMAIN holds : holds[r] = "active"}
    BY <1>1, TurnFields
<1>5. Shown(org', holds') = v
    BY <1>2, <1>4, ShownIs
<1>6. History!Effect(v, d) = v
    BY <1>3, OnOther
<1>7. org'.term = IF d.action \in TermActions THEN i ELSE org.term
    BY <1>2, <1>3 DEF Moving
<1> QED
    BY <1>1, <1>2, <1>5, <1>6, <1>7, Turns

LEMMA RestrictionTurns ==
    ASSUME NEW p, NEW w, Turn(p, w, {"create_restriction"}), ApplyRestriction(p)
    PROVE  Reads(Onward(w, proc[p].op, Data(p)), org', holds', ops') /\ org'.seq = org.seq + 1
<1>1. PICK d, i, v, t : d = Data(p) /\ i = proc[p].op /\ v = w.service
                        /\ t = History!Effect(v, d)
    OBVIOUS
<1>2. org' = Sequenced /\ holds' = With(holds, i, "active") /\ d.action = "create_restriction"
    BY <1>1 DEF ApplyRestriction, Projects, Data
<1>3. /\ org'.seq = org.seq + 1 /\ org'.status = org.status /\ org'.term = org.term
      /\ org'.ends = org.ends /\ org'.episode = org.episode /\ org'.eligible = org.eligible
    BY <1>2, SequencedShape DEF Turn
<1>4. /\ v = [f \in ServiceFields |-> v[f]] /\ v.status = org.status /\ v.ends = org.ends
      /\ v.eligible = org.eligible
      /\ v.episode = org.episode /\ v.held = {r \in DOMAIN holds : holds[r] = "active"}
    BY <1>1, TurnFields
<1>5. d.held = i
    BY <1>1, <1>2, TurnFields DEF Fitting
<1>6. {r \in DOMAIN holds' : holds'[r] = "active"} = v.held \cup {i}
    BY <1>2, <1>4 DEF With
<1>7. /\ t = [f \in ServiceFields |-> t[f]] /\ t.held = v.held \cup {i} /\ t.status = v.status
      /\ t.episode = v.episode /\ t.ends = v.ends /\ t.eligible = v.eligible
    BY <1>1, <1>2, <1>4, <1>5, OnCreate
<1>8. Shown(org', holds') = t
    BY <1>3, <1>4, <1>6, <1>7, ShownIs
<1>9. org'.term = IF d.action \in TermActions THEN i ELSE org.term
    BY <1>2, <1>3 DEF TermActions
<1> QED
    BY <1>1, <1>3, <1>8, <1>9, Turns

\* A release, of a plain restriction or of a request's.
LEMMA ReleaseTurns ==
    ASSUME NEW p, NEW w, NEW A, Turn(p, w, A), NEW d, d = Data(p),
           d.action = "release_restriction",
           org' = Sequenced, holds' = [holds EXCEPT ![d.held] = "released"]
    PROVE  Reads(Onward(w, proc[p].op, d), org', holds', ops') /\ org'.seq = org.seq + 1
<1>1. PICK i, v, t : i = proc[p].op /\ v = w.service /\ t = History!Effect(v, d)
    OBVIOUS
<1>2. /\ org'.seq = org.seq + 1 /\ org'.status = org.status /\ org'.term = org.term
      /\ org'.ends = org.ends /\ org'.episode = org.episode /\ org'.eligible = org.eligible
    BY SequencedShape DEF Turn
<1>3. /\ v = [f \in ServiceFields |-> v[f]] /\ v.status = org.status /\ v.ends = org.ends
      /\ v.eligible = org.eligible
      /\ v.episode = org.episode /\ v.held = {r \in DOMAIN holds : holds[r] = "active"}
    BY <1>1, TurnFields
<1>4. {r \in DOMAIN holds' : holds'[r] = "active"} = v.held \ {d.held}
    BY <1>3
<1>5. /\ t = [f \in ServiceFields |-> t[f]] /\ t.held = v.held \ {d.held} /\ t.status = v.status
      /\ t.episode = v.episode /\ t.ends = v.ends /\ t.eligible = v.eligible
    BY <1>1, <1>3, OnRelease
<1>6. Shown(org', holds') = t
    <2>1. t.held = {r \in DOMAIN holds' : holds'[r] = "active"}
        BY <1>4, <1>5
    <2>2. t.status = org'.status /\ t.episode = org'.episode /\ t.ends = org'.ends
          /\ t.eligible = org'.eligible
        BY <1>2, <1>3, <1>5
    <2>3. PICK h, o : h = holds' /\ o = org'
        OBVIOUS
    <2>4. t.held = {r \in DOMAIN h : h[r] = "active"} /\ t.status = o.status
          /\ t.episode = o.episode /\ t.ends = o.ends /\ t.eligible = o.eligible
        BY <2>1, <2>2, <2>3
    <2>5. Shown(o, h) = t
        BY <1>5, <2>4, ShownIs
    <2> QED
        BY <2>3, <2>5
<1>7. org'.term = IF d.action \in TermActions THEN i ELSE org.term
    BY <1>2 DEF TermActions
<1> QED
    BY <1>1, <1>2, <1>6, <1>7, Turns

LEMMA StateTurns ==
    ASSUME NEW p, NEW w, Turn(p, w, {"release_restriction", "set_subject_request_state"}),
           ApplyState(p)
    PROVE  Reads(Onward(w, proc[p].op, Data(p)), org', holds', ops') /\ org'.seq = org.seq + 1
<1>1. PICK d, A : d = Data(p) /\ A = {"set_subject_request_state"}
    OBVIOUS
<1>2. d.action \in {"release_restriction", "set_subject_request_state"} /\ org' = Sequenced
      /\ holds' = IF d.action = "release_restriction"
                  THEN [holds EXCEPT ![d.held] = "released"] ELSE holds
    BY <1>1 DEF ApplyState, Projects, Data
<1>3. CASE d.action = "release_restriction"
    BY <1>1, <1>2, <1>3, ReleaseTurns
<1>4. CASE d.action = "set_subject_request_state"
    <2>1. Turn(p, w, A)
        BY <1>1, <1>4 DEF Turn, Projects, Data
    <2>2. A \cap Moving = {}
        BY <1>1 DEF Moving, TermActions, Service
    <2> QED
        BY <1>2, <1>4, <2>1, <2>2, QuietTurns
<1> QED
    BY <1>2, <1>3, <1>4

\* Whatever is projected.
LEMMA AppliedTurns ==
    ASSUME OpsRows, OrgShape, OneDecision, NEW p, proc[p].op \in DOMAIN ops, Applies(p),
           NEW w, Sound(w), Reads(w, org, holds, ops)
    PROVE  \/ UNCHANGED <<org, holds, ops, log>>
           \/ /\ proc[p].op \in Pending /\ proc[p].pc = "apply" /\ log' = log
              /\ ops' = [ops EXCEPT ![proc[p].op].status = "applied"]
              /\ Reads(Onward(w, proc[p].op, Data(p)), org', holds', ops')
              /\ org'.seq = org.seq + 1
<1>1. ASSUME NEW A, Projects(p, A)
      PROVE  /\ Turn(p, w, A) /\ proc[p].op \in Pending /\ proc[p].pc = "apply" /\ log' = log
             /\ ops' = [ops EXCEPT ![proc[p].op].status = "applied"]
    BY <1>1 DEF Turn, Projects, Pending, OneDecision, At, history
<1>2. CASE ApplyTerm(p)
    <2>1. Projects(p, TermActions)
        BY <1>2 DEF ApplyTerm
    <2> QED
        BY <1>1, <1>2, <2>1, TermTurns
<1>3. CASE ApplyExpiry(p)
    <2>1. Projects(p, {"expire_term"})
        BY <1>3 DEF ApplyExpiry
    <2> QED
        BY <1>1, <1>3, <2>1, ExpiryTurns
<1>4. CASE ApplyStart(p)
    <2>1. Projects(p, {"start"})
        BY <1>4 DEF ApplyStart
    <2> QED
        BY <1>1, <1>4, <2>1, StartTurns
<1>5. CASE ApplyCancel(p)
    <2>1. Projects(p, {"cancel"})
        BY <1>5 DEF ApplyCancel
    <2> QED
        BY <1>1, <1>5, <2>1, CancelTurns
<1>6. CASE ApplyPolicy(p)
    <2>1. PICK A : A = {"policy_revision"}
        OBVIOUS
    <2>2. Projects(p, A) /\ org' = Sequenced /\ UNCHANGED holds
        BY <1>6, <2>1 DEF ApplyPolicy
    <2>3. A \cap Moving = {}
        BY <2>1 DEF Moving, TermActions, Service
    <2> QED
        BY <1>1, <2>2, <2>3, QuietTurns
<1>7. CASE ApplyExtension(p)
    <2>1. Projects(p, {"extend"})
        BY <1>7 DEF ApplyExtension
    <2> QED
        BY <1>1, <1>7, <2>1, ExtensionTurns
<1>8. CASE ApplyRestriction(p)
    <2>1. Projects(p, {"create_restriction"})
        BY <1>8 DEF ApplyRestriction
    <2> QED
        BY <1>1, <1>8, <2>1, RestrictionTurns
<1>9. CASE ApplyRelease(p)
    <2>1. PICK A, d : A = {"release_restriction"} /\ d = Data(p)
        OBVIOUS
    <2>2. /\ Projects(p, A) /\ org' = Sequenced
          /\ holds' = [holds EXCEPT ![d.held] = "released"]
        BY <1>9, <2>1 DEF ApplyRelease
    <2>3. d.action = "release_restriction"
        BY <2>1, <2>2 DEF Projects, Data
    <2> QED
        BY <1>1, <2>1, <2>2, <2>3, ReleaseTurns
<1>10. CASE ApplyState(p)
    <2>1. Projects(p, {"release_restriction", "set_subject_request_state"})
        BY <1>10 DEF ApplyState
    <2> QED
        BY <1>1, <1>10, <2>1, StateTurns
<1>11. CASE ApplyClaim(p)
    <2>1. Projects(p, {"claim"})
        BY <1>11 DEF ApplyClaim
    <2> QED
        BY <1>1, <1>11, <2>1, ClaimTurns
<1>12. CASE ApplyAuthorization(p)
    <2>1. PICK A : A = {"authorize_destructive_step"}
        OBVIOUS
    <2>2. Projects(p, A) /\ org' = Sequenced /\ UNCHANGED holds
        BY <1>12, <2>1 DEF ApplyAuthorization
    <2>3. A \cap Moving = {}
        BY <2>1 DEF Moving, TermActions, Service
    <2> QED
        BY <1>1, <2>2, <2>3, QuietTurns
<1>13. CASE ApplyCompletion(p)
    <2>1. PICK A : A = {"complete_destructive_step"}
        OBVIOUS
    <2>2. Projects(p, A) /\ org' = Sequenced /\ UNCHANGED holds
        BY <1>13, <2>1 DEF ApplyCompletion
    <2>3. A \cap Moving = {}
        BY <2>1 DEF Moving, TermActions, Service
    <2> QED
        BY <1>1, <2>2, <2>3, QuietTurns
<1>14. CASE ApplyFinal(p)
    <2>1. Projects(p, {"complete"})
        BY <1>14 DEF ApplyFinal
    <2> QED
        BY <1>1, <1>14, <2>1, FinalTurns
<1>15. CASE AlreadyApplied(p) \/ Stale(p)
    BY <1>15 DEF AlreadyApplied, Stale, orgVars, history
<1> QED
    BY <1>2, <1>3, <1>4, <1>5, <1>6, <1>7, <1>8, <1>9, <1>10, <1>11, <1>12, <1>13, <1>14, <1>15
       DEF Applies

-----------------------------------------------------------------------------
(* What is staged fits the world the database shows. *)

\* What a process is about to do to a restriction is of one there is.
Aim(x) == x.pc = "prepare" /\ x.op \notin DOMAIN ops
          /\ x.data.action \in {"release_restriction", "set_subject_request_state"}
             => x.data.held \in DOMAIN holds

\* What is known when process p stages a decision.
Plans(p, w) ==
    /\ IInv /\ p \in Processes /\ Sound(w) /\ Reads(w, org, holds, ops)
    /\ DOMAIN holds \subseteq DOMAIN ops /\ Aim(proc[p])

\* The world is what the database shows.
LEMMA WorldShown ==
    ASSUME NEW w, Sound(w), Reads(w, org, holds, ops)
    PROVE  /\ w.service.status = org.status /\ w.service.episode = org.episode
           /\ w.service.eligible = org.eligible /\ w.term = org.term
           /\ w.service.held = {r \in DOMAIN holds : holds[r] = "active"}
           /\ org.status \in Statuses /\ (org.status # "active" => org.term # None)
           /\ org.term # None => TermEnds = w.ends
<1>1. Shown(org, holds) = w.service /\ w.term = org.term
    BY DEF Reads
<1>2. org.term # None => TermEnds = w.ends
    BY DEF Reads, TermEnds
<1>3. PICK v : v = w.service
    OBVIOUS
<1>4. v.status = org.status /\ v.episode = org.episode /\ v.eligible = org.eligible
      /\ v.held = {r \in DOMAIN holds : holds[r] = "active"}
    BY <1>1, <1>3, ShownFields
<1> QED
    BY <1>1, <1>2, <1>3, <1>4 DEF Sound

\* Which decisions fit.
LEMMA TermFits ==
    ASSUME NEW w, NEW i, NEW d, d.action \in TermActions,
           w.service.status \in {"active", "offboarding"}
    PROVE  Fitting(w, i, d)
BY DEF Fitting, History!Admissible, TermActions, Service

LEMMA EndFits ==
    ASSUME NEW w, NEW i, NEW d, d.action \in Service, w.service.status = "active", w.term # None,
           d.action = "expire_term" => d.ends = w.ends
    PROVE  Fitting(w, i, d)
BY DEF Fitting, History!Admissible, TermActions, Service

LEMMA CancelFits ==
    ASSUME NEW w, NEW i, NEW d, d.action = "cancel", w.service.status = "offboarding",
           d.episode = w.service.episode, d.ends = w.ends
    PROVE  Fitting(w, i, d)
BY DEF Fitting, History!Admissible, TermActions, Service

LEMMA PolicyFits ==
    ASSUME NEW w, NEW i, NEW d, d.action = "policy_revision",
           w.service.status \in {"active", "offboarding"}
    PROVE  Fitting(w, i, d)
BY DEF Fitting, History!Admissible, TermActions, Service

LEMMA ExtensionFits ==
    ASSUME NEW w, NEW i, NEW d, d.action = "extend", w.service.status = "offboarding",
           d.episode = w.service.episode, d.eligible > w.service.eligible
    PROVE  Fitting(w, i, d)
BY DEF Fitting, History!Admissible, TermActions, Service

LEMMA RestrictionFits ==
    ASSUME NEW w, NEW i, NEW d, d.action = "create_restriction", w.service.status # "gone",
           d.held = i, i \notin w.service.held
    PROVE  Fitting(w, i, d)
BY DEF Fitting, History!Admissible, TermActions, Service

LEMMA ReleaseFits ==
    ASSUME NEW w, NEW i, NEW d, d.action = "release_restriction", w.service.status # "gone",
           d.held \in w.service.held
    PROVE  Fitting(w, i, d)
BY DEF Fitting, History!Admissible, TermActions, Service

LEMMA StateFits ==
    ASSUME NEW w, NEW i, NEW d, d.action = "set_subject_request_state", w.service.status # "gone"
    PROVE  Fitting(w, i, d)
BY DEF Fitting, History!Admissible, TermActions, Service

LEMMA ClaimFits ==
    ASSUME NEW w, NEW i, NEW d, d.action = "claim", w.service.status = "offboarding",
           d.episode = w.service.episode, w.service.held = {}
    PROVE  Fitting(w, i, d)
BY DEF Fitting, History!Admissible, TermActions, Service

LEMMA StepFits ==
    ASSUME NEW w, NEW i, NEW d, d.action \in {"authorize_destructive_step", "complete"},
           w.service.status = "purging", d.episode = w.service.episode, w.service.held = {}
    PROVE  Fitting(w, i, d)
BY DEF Fitting, History!Admissible, TermActions, Service

LEMMA CompletionFits ==
    ASSUME NEW w, NEW i, NEW d, d.action = "complete_destructive_step",
           w.service.status = "purging"
    PROVE  Fitting(w, i, d)
BY DEF Fitting, History!Admissible, TermActions, Service

-----------------------------------------------------------------------------
(* The decisions as they are staged. *)

LEMMA TermPlanned ==
    ASSUME NEW p, NEW w, Plans(p, w), PrepareTerm(p)
    PROVE  \E d : Stage(p, d) /\ IsData(d) /\ Fitting(w, proc[p].op, d)
<1>1. Admits(p) /\ New(p, TermActions) /\ IInv /\ p \in Processes
    BY DEF PrepareTerm, Plans
<1>2. PICK e : e = proc[p].data
    OBVIOUS
<1>3. PICK d : d = [e EXCEPT !.action = IF org.term = None THEN "confirm_term" ELSE "renew_term",
                             !.period = IF e.period = 0 THEN period ELSE e.period,
                             !.to = IF e.period = 0 THEN "none" ELSE "revision"]
    OBVIOUS
<1>4. Stage(p, d)
    BY <1>2, <1>3 DEF PrepareTerm
<1>5. IsData(e) /\ e.action \in TermActions
    BY <1>1, <1>2, AtPrepare
<1>6. IsData(d) /\ d.action \in TermActions
    <2>1. PICK a, q, t : /\ a = IF org.term = None THEN "confirm_term" ELSE "renew_term"
                         /\ q = IF e.period = 0 THEN period ELSE e.period
                         /\ t = IF e.period = 0 THEN "none" ELSE "revision"
        OBVIOUS
    <2>2. a \in TermActions /\ q \in Nat
        BY <1>1, <1>5, <2>1 DEF IsData, TermActions, IInv, Shared, Rows
    <2>3. d = [e EXCEPT !.action = a, !.period = q, !.to = t]
        BY <1>3, <2>1
    <2> QED
        BY <1>5, <2>2, <2>3 DEF IsData, DataFields
<1>7. MayTerm(e)
    BY <1>1, <1>2, <1>5 DEF Admits, TermActions
<1> QED
    BY <1>4, <1>6, <1>7, WorldShown, TermFits DEF MayTerm, Plans

LEMMA StartPlanned ==
    ASSUME NEW p, NEW w, Plans(p, w), PrepareStart(p)
    PROVE  \E d : Stage(p, d) /\ IsData(d) /\ Fitting(w, proc[p].op, d)
<1>1. Admits(p) /\ New(p, {"start"}) /\ IInv /\ p \in Processes
    BY DEF PrepareStart, Plans
<1>2. PICK e : e = proc[p].data
    OBVIOUS
<1>3. PICK d : d = [e EXCEPT !.episode = proc[p].op, !.period = TermPeriod]
    OBVIOUS
<1>4. Stage(p, d)
    BY <1>2, <1>3 DEF PrepareStart
<1>5. IsData(e) /\ e.action = "start"
    BY <1>1, <1>2, AtPrepare
<1>6. MayStart
    BY <1>1, <1>2, <1>5 DEF Admits, TermActions
<1>7. IsData(d) /\ d.action = "start"
    <2>1. TermPeriod \in Nat
        BY <1>1, <1>6, TermInForce DEF MayStart
    <2> QED
        BY <1>3, <1>5, <2>1 DEF IsData, DataFields
<1> QED
    BY <1>4, <1>6, <1>7, WorldShown, EndFits DEF MayStart, Plans, Service

LEMMA CancelPlanned ==
    ASSUME NEW p, NEW w, Plans(p, w), PrepareCancel(p)
    PROVE  \E d : Stage(p, d) /\ IsData(d) /\ Fitting(w, proc[p].op, d)
<1>1. Admits(p) /\ New(p, {"cancel"}) /\ IInv /\ p \in Processes
    BY DEF PrepareCancel, Plans
<1>2. PICK e : e = proc[p].data
    OBVIOUS
<1>3. PICK d : d = [e EXCEPT !.episode = org.episode, !.ends = TermEnds]
    OBVIOUS
<1>4. Stage(p, d)
    BY <1>2, <1>3 DEF PrepareCancel
<1>5. IsData(e) /\ e.action = "cancel"
    BY <1>1, <1>2, AtPrepare
<1>6. IsData(d) /\ d.action = "cancel" /\ d.episode = org.episode /\ d.ends = TermEnds
    BY <1>3, <1>5 DEF IsData, DataFields
<1>7. MayCancel
    BY <1>1, <1>2, <1>5 DEF Admits, TermActions
<1>8. org.status = "offboarding"
    BY <1>7 DEF MayCancel
<1> QED
    BY <1>4, <1>6, <1>8, WorldShown, CancelFits DEF Plans

LEMMA PolicyPlanned ==
    ASSUME NEW p, NEW w, Plans(p, w), PreparePolicy(p)
    PROVE  \E d : Stage(p, d) /\ IsData(d) /\ Fitting(w, proc[p].op, d)
<1>1. /\ Admits(p) /\ New(p, {"policy_revision"}) /\ Stage(p, proc[p].data)
      /\ IInv /\ p \in Processes
    BY DEF PreparePolicy, Plans
<1>2. PICK d : d = proc[p].data
    OBVIOUS
<1>3. IsData(d) /\ d.action = "policy_revision" /\ Free(p)
    BY <1>1, <1>2, AtPrepare
<1>4. MayRevise
    BY <1>1, <1>2, <1>3 DEF Admits, TermActions
<1>5. org.status \in {"active", "offboarding"}
    BY <1>3, <1>4, WorldShown DEF MayRevise, Free, Plans, Statuses
<1> QED
    BY <1>1, <1>2, <1>3, <1>5, WorldShown, PolicyFits DEF Plans

LEMMA ExtensionPlanned ==
    ASSUME NEW p, NEW w, Plans(p, w), PrepareExtension(p)
    PROVE  \E d : Stage(p, d) /\ IsData(d) /\ Fitting(w, proc[p].op, d)
<1>1. Admits(p) /\ New(p, {"extend"}) /\ IInv /\ p \in Processes
    BY DEF PrepareExtension, Plans
<1>2. PICK e : e = proc[p].data
    OBVIOUS
<1>3. PICK d : d = [e EXCEPT !.episode = org.episode, !.eligible = org.eligible + 1]
    OBVIOUS
<1>4. Stage(p, d)
    BY <1>2, <1>3 DEF PrepareExtension
<1>5. IsData(e) /\ e.action = "extend"
    BY <1>1, <1>2, AtPrepare
<1>6. IsData(d) /\ d.action = "extend" /\ d.episode = org.episode /\ d.eligible > org.eligible
    <2>1. org.eligible + 1 \in Nat /\ org.eligible + 1 > org.eligible
        BY <1>1 DEF IInv, Shared, Rows, OrgRow
    <2>2. PICK n \in Nat : n = org.eligible + 1 /\ n > org.eligible
        BY <2>1
    <2> QED
        BY <1>3, <1>5, <2>2 DEF IsData, DataFields
<1>7. MayExtend
    BY <1>1, <1>2, <1>5 DEF Admits, TermActions
<1>8. org.status = "offboarding"
    BY <1>7 DEF MayExtend
<1> QED
    BY <1>4, <1>6, <1>8, WorldShown, ExtensionFits DEF Plans

LEMMA RestrictionPlanned ==
    ASSUME NEW p, NEW w, Plans(p, w), PrepareRestriction(p)
    PROVE  \E d : Stage(p, d) /\ IsData(d) /\ Fitting(w, proc[p].op, d)
<1>1. Admits(p) /\ New(p, {"create_restriction"}) /\ IInv /\ p \in Processes
    BY DEF PrepareRestriction, Plans
<1>2. PICK e : e = proc[p].data
    OBVIOUS
<1>3. PICK d, i : d = [e EXCEPT !.episode = org.episode, !.held = proc[p].op] /\ i = proc[p].op
    OBVIOUS
<1>4. Stage(p, d)
    BY <1>2, <1>3 DEF PrepareRestriction
<1>5. IsData(e) /\ e.action = "create_restriction" /\ Free(p)
    BY <1>1, <1>2, AtPrepare
<1>6. IsData(d) /\ d.action = "create_restriction" /\ d.held = i
    BY <1>3, <1>5 DEF IsData, DataFields
<1>7. i \notin DOMAIN holds /\ org.status # "gone"
    BY <1>1, <1>3, <1>5 DEF New, Plans, Free
<1> QED
    BY <1>3, <1>4, <1>6, <1>7, WorldShown, RestrictionFits DEF Plans

LEMMA ReleasePlanned ==
    ASSUME NEW p, NEW w, Plans(p, w), PrepareRelease(p)
    PROVE  \E d : Stage(p, d) /\ IsData(d) /\ Fitting(w, proc[p].op, d)
<1>1. /\ Admits(p) /\ New(p, {"release_restriction"}) /\ Stage(p, proc[p].data)
      /\ IInv /\ p \in Processes
    BY DEF PrepareRelease, Plans
<1>2. PICK d : d = proc[p].data
    OBVIOUS
<1>3. IsData(d) /\ d.action = "release_restriction" /\ Free(p)
    BY <1>1, <1>2, AtPrepare
<1>4. MayRelease(d.held)
    BY <1>1, <1>2, <1>3 DEF Admits, TermActions
<1>5. d.held \in DOMAIN holds /\ holds[d.held] = "active" /\ org.status # "gone"
    BY <1>1, <1>2, <1>3, <1>4 DEF New, At, Plans, Aim, Free, MayRelease
<1> QED
    BY <1>1, <1>2, <1>3, <1>5, WorldShown, ReleaseFits DEF Plans

LEMMA StatePlanned ==
    ASSUME NEW p, NEW w, Plans(p, w), PrepareState(p)
    PROVE  \E d : Stage(p, d) /\ IsData(d) /\ Fitting(w, proc[p].op, d)
<1>1. Admits(p) /\ New(p, {"set_subject_request_state"}) /\ IInv /\ p \in Processes
    BY DEF PrepareState, Plans
<1>2. PICK e : e = proc[p].data
    OBVIOUS
<1>3. PICK d : d = [e EXCEPT !.was = requests[e.held].status, !.kind = requests[e.held].kind,
                             !.action = IF e.to \in {"closed", "delivered"}
                                        THEN "release_restriction" ELSE @]
    OBVIOUS
<1>4. Stage(p, d)
    BY <1>2, <1>3 DEF PrepareState
<1>5. IsData(e) /\ Free(p) /\ e.action = "set_subject_request_state"
    BY <1>1, <1>2, AtPrepare
<1>6. MaySet(e.held, e.to)
    BY <1>1, <1>2, <1>5 DEF Admits, TermActions
<1>7. /\ IsData(d) /\ d.held = e.held
      /\ d.action \in {"release_restriction", "set_subject_request_state"}
    BY <1>3, <1>5 DEF IsData, DataFields
<1>8. e.held \in DOMAIN holds /\ holds[e.held] = "active" /\ org.status # "gone"
    BY <1>1, <1>2, <1>5, <1>6 DEF New, At, Plans, Aim, Free, MaySet
<1> QED
    BY <1>4, <1>7, <1>8, WorldShown, ReleaseFits, StateFits DEF Plans

\* The worker's decisions, while the system lives and when a restore resumes the run.
LEMMA PurgePlanned ==
    ASSUME NEW p, IsData(proc[p].data), NEW w, Sound(w), Reads(w, org, holds, ops), PreparePurge(p)
    PROVE  \E d : Stage(p, d) /\ IsData(d) /\ Fitting(w, proc[p].op, d)
<1>1. Admits(p) /\ New(p, PurgeActions)
    BY DEF PreparePurge, PurgeActions
<1>2. PICK e : e = proc[p].data
    OBVIOUS
<1>3. PICK d : d = IF e.action = "claim" THEN e ELSE [e EXCEPT !.episode = run.episode]
    OBVIOUS
<1>4. Stage(p, d)
    BY <1>2, <1>3 DEF PreparePurge
<1>5. /\ IsData(d) /\ d.action = e.action /\ d.action \in PurgeActions
      /\ d.episode = IF e.action = "claim" THEN e.episode ELSE run.episode
    BY <1>1, <1>2, <1>3, PurgeData DEF New
<1>6. ~Blocked => {r \in DOMAIN holds : holds[r] = "active"} = {}
    BY DEF Blocked
<1>7. CASE d.action = "claim"
    <2>1. MayClaim(e.episode)
        BY <1>1, <1>2, <1>5, <1>7 DEF Admits, TermActions
    <2>2. org.status = "offboarding" /\ org.episode = d.episode /\ ~Blocked
        BY <1>5, <1>7, <2>1 DEF MayClaim
    <2>3. Fitting(w, proc[p].op, d)
        BY <1>6, <1>7, <2>2, WorldShown, ClaimFits
    <2> QED
        BY <1>4, <1>5, <2>3
<1>8. CASE d.action \in {"authorize_destructive_step", "complete"}
    <2>1. MayAuthorize \/ MayFinish
        BY <1>1, <1>2, <1>5, <1>8 DEF Admits, TermActions
    <2>2. org.status = "purging" /\ org.episode = d.episode /\ ~Blocked
        BY <1>5, <1>8, <2>1 DEF MayAuthorize, MayFinish, OfRun
    <2>3. Fitting(w, proc[p].op, d)
        BY <1>6, <1>8, <2>2, WorldShown, StepFits
    <2> QED
        BY <1>4, <1>5, <2>3
<1>9. CASE d.action = "complete_destructive_step"
    <2>1. MayComplete(proc[p].batch)
        BY <1>1, <1>2, <1>5, <1>9 DEF Admits, TermActions
    <2>2. org.status = "purging"
        BY <2>1 DEF MayComplete, OfRun
    <2>3. Fitting(w, proc[p].op, d)
        BY <1>9, <2>2, WorldShown, CompletionFits
    <2> QED
        BY <1>4, <1>5, <2>3
<1> QED
    BY <1>5, <1>7, <1>8, <1>9 DEF PurgeActions

-----------------------------------------------------------------------------
(* The steps of the history. *)

\* What has been accepted.
Told == [n \in 1..Len(log) |-> Deed(log[n])]

\* No decision joins and none is projected.
Mute == UNCHANGED <<Told, org, holds>>

LEMMA HistoryStutters ==
    ASSUME Mute
    PROVE  UNCHANGED History!historyVars
BY DEF Mute, Told, Deed, History!historyVars

LEMMA ToldAgain ==
    ASSUME UNCHANGED log, \A n \in 1..Len(log) : Deed(log[n])' = Deed(log[n])
    PROVE  UNCHANGED Told
BY DEF Told

LEMMA HistoryAccepts ==
    ASSUME NEW k \in Nat, Len(log) = k, Len(log') = k + 1, org.seq = k,
           \A n \in 1..k : Deed(log[n])' = Deed(log[n]),
           History!Admissible(Shown(org, holds), Deed(log[k + 1])'),
           UNCHANGED <<org, holds>>
    PROVE  History!Accept
<1>1. PICK t, u : t = Told /\ u = Told'
    OBVIOUS
<1>2. /\ Len(t) = k /\ Len(u) = k + 1 /\ u[k + 1] = Deed(log[k + 1])'
      /\ \A n \in 1..k : u[n] = t[n]
    BY <1>1 DEF Told
<1>3. /\ org.seq = Len(t) /\ Len(u) = Len(t) + 1 /\ \A n \in 1..Len(t) : u[n] = t[n]
      /\ History!Admissible(Shown(org, holds), u[Len(u)])
    BY <1>2
<1> QED
    BY <1>1, <1>3 DEF History!Accept, Told, Deed, Shown

LEMMA HistoryProjects ==
    ASSUME Len(log) \in Nat, org.seq \in Nat, org.seq < Len(log), org'.seq = org.seq + 1,
           UNCHANGED Told,
           Shown(org', holds') = History!Effect(Shown(org, holds), Deed(log[org.seq + 1]))
    PROVE  History!Project
<1>1. PICK t : t = Told
    OBVIOUS
<1>2. Len(t) = Len(log) /\ t[org.seq + 1] = Deed(log[org.seq + 1])
    BY <1>1 DEF Told
<1>3. /\ org.seq < Len(t) /\ org'.seq = org.seq + 1 /\ Told' = t
      /\ Shown(org', holds') = History!Effect(Shown(org, holds), t[org.seq + 1])
    BY <1>1, <1>2
<1> QED
    BY <1>1, <1>3 DEF History!Project, Told, Deed, Shown

-----------------------------------------------------------------------------
(* The tale while the system lives. *)

Aims == \A p \in Processes : Aim(proc[p])

Living(g) ==
    /\ DOMAIN restore.events = {}
    /\ DOMAIN requests \subseteq DOMAIN holds /\ DOMAIN holds \subseteq DOMAIN ops /\ Aims
    /\ saved # None => /\ saved.org.seq <= org.seq
                       /\ Reads(g[saved.org.seq], saved.org, saved.holds, saved.ops)
                       /\ Settled(saved.org.seq, saved.ops)

Present(g) == IInv /\ (saved # None => Backed) /\ Tale(g)
              /\ Reads(g[org.seq], org, holds, ops) /\ Living(g)

\* The live system leaves the backup alone, and nothing was verified yet.
Abiding == /\ UNCHANGED <<restore, saved>> /\ Aims'
           /\ DOMAIN requests' \subseteq DOMAIN holds' /\ DOMAIN holds' \subseteq DOMAIN ops'

LEMMA LiveLog ==
    ASSUME IInv
    PROVE  /\ Len(log) \in Nat /\ org.seq \in Nat /\ Len(log) \in {org.seq, org.seq + 1}
           /\ \A n \in 1..Len(log) : log[n] \in DOMAIN ops
           /\ \A n \in 1..Len(log) : n <= org.seq => ops[log[n]].status = "applied"
           /\ \A i \in DOMAIN ops : ops[i].status = "applied" => InLog(i)
           /\ \A i \in Pending : InLog(i) => Len(log) = org.seq + 1 /\ log[org.seq + 1] = i
<1>1. /\ Len(log) \in Nat /\ org.seq \in Nat /\ \A n \in 1..Len(log) : log[n] \in DOMAIN ops
    BY LoggedAreOperations DEF IInv, Shared, Rows, OrgRow
<1>2. Len(log) \in {org.seq, org.seq + 1}
    BY DEF IInv, Shared, HistoryAhead
<1>3. /\ \A n \in 1..Len(log) : n <= org.seq => ops[log[n]].status = "applied"
      /\ \A i \in DOMAIN ops : ops[i].status = "applied" => InLog(i)
    BY DEF IInv, Shared, Chain
<1>4. ASSUME NEW i \in Pending, InLog(i)
      PROVE  Len(log) = org.seq + 1 /\ log[org.seq + 1] = i
    <2>1. PICK n \in 1..Len(log) : log[n] = i
        BY <1>4 DEF InLog
    <2>2. ~(n <= org.seq)
        BY <1>3, <1>4, <2>1 DEF Pending
    <2> QED
        BY <1>1, <1>2, <2>1, <2>2
<1> QED
    BY <1>1, <1>2, <1>3, <1>4

\* The tale is told again: the log and what it says stay.
LEMMA TaleStays ==
    ASSUME NEW g, Tale(g), UNCHANGED Told, UNCHANGED log
    PROVE  Tale(g)'
<1>1. \A n \in 1..Len(log) : Deed(log[n])' = Deed(log[n])
    <2>1. \A n \in 1..Len(log) : Told[n] = Deed(log[n])
        BY DEF Told
    <2>2. \A n \in 1..Len(log') : Told'[n] = Deed(log[n])'
        BY DEF Told
    <2> QED
        BY <2>1, <2>2
<1> QED
    BY <1>1 DEF Tale

\* The backup's part.
LEMMA BackupStays ==
    ASSUME NEW g, Living(g), NEW h, \A n \in 0..Len(log) : h[n] = g[n],
           Len(log) \in Nat, org.seq \in 0..Len(log), org'.seq \in Nat, org'.seq >= org.seq,
           saved # None => saved.org.seq \in Nat,
           Len(log') \in Nat, Len(log') >= Len(log), \A n \in 1..Len(log) : log'[n] = log[n],
           Abiding
    PROVE  Living(h)'
<1>1. ASSUME saved # None
      PROVE  /\ saved.org.seq <= org'.seq
             /\ Reads(h[saved.org.seq], saved.org, saved.holds, saved.ops)
             /\ Settled(saved.org.seq, saved.ops)'
    <2>1. saved.org.seq \in 0..Len(log) /\ saved.org.seq <= org.seq
        BY <1>1 DEF Living
    <2>2. h[saved.org.seq] = g[saved.org.seq]
        BY <2>1
    <2>3. \A i : InLog(i) => InLog(i)'
        BY DEF InLog
    <2>4. Settled(saved.org.seq, saved.ops)'
        <3>1. Settled(saved.org.seq, saved.ops) /\ saved' = saved
            BY <1>1 DEF Living, Abiding
        <3> QED
            BY <2>1, <2>3, <3>1 DEF Settled
    <2> QED
        BY <1>1, <2>1, <2>2, <2>4 DEF Living
<1>2. saved' = saved /\ restore' = restore
    BY DEF Abiding
<1>3. DOMAIN restore'.events = {}
    BY <1>2 DEF Living
<1> QED
    BY <1>1, <1>2, <1>3 DEF Living, Abiding, Reads

-----------------------------------------------------------------------------

\* Nothing of the tale changes.
LEMMA PresentRests ==
    ASSUME NEW g, Present(g), UNCHANGED <<org, holds, ops, log>>, Abiding
    PROVE  /\ Tale(g)' /\ Reads(g[org.seq], org, holds, ops)' /\ Living(g)' /\ Mute
<1>1. UNCHANGED Told
    BY DEF Told, Deed, Abiding
<1>2. Tale(g)' /\ Reads(g[org.seq], org, holds, ops)'
    BY <1>1, TaleStays DEF Present, Reads
<1>3. Living(g)'
    BY LiveLog, BackupStays DEF Present, Backed
<1> QED
    BY <1>1, <1>2, <1>3 DEF Mute

\* A decision is staged.
LEMMA PresentStages ==
    ASSUME NEW g, Present(g), NEW i, i \notin DOMAIN ops, NEW o, IsOp(o), ops' = With(ops, i, o),
           UNCHANGED <<org, holds, log>>, Fitting(g[org.seq], i, o.data), Abiding
    PROVE  /\ Tale(g)' /\ Reads(g[org.seq], org, holds, ops)' /\ Living(g)' /\ Mute
<1>1. OpsRows
    BY DEF Present, IInv, Shared, Rows
<1>2. /\ DOMAIN ops' = DOMAIN ops \cup {i} /\ ops'[i] = o
      /\ \A j \in DOMAIN ops : j # i => ops'[j] = ops[j]
    BY <1>1, Joined
<1>3. UNCHANGED Told
    <2>1. \A n \in 1..Len(log) : ops'[log[n]] = ops[log[n]]
        BY <1>2, LiveLog DEF Present
    <2> QED
        BY <2>1 DEF Told, Deed, Abiding
<1>4. Tale(g)'
    BY <1>3, TaleStays DEF Present
<1>5. PICK w : w = g[org.seq]
    OBVIOUS
<1>6. Reads(w, org', holds', ops')
    BY <1>1, <1>5, ReadsStaged DEF Present
<1>7. Living(g)'
    BY LiveLog, BackupStays DEF Present, Backed
<1> QED
    BY <1>3, <1>4, <1>5, <1>6, <1>7 DEF Mute

\* A pending one is given its cutoff, or rejected.
LEMMA PresentRewrites ==
    ASSUME NEW g, Present(g), NEW i, NEW o, Rewrites(i, o), InLog(i) => o.data = ops[i].data,
           UNCHANGED <<org, holds, log>>, Abiding,
           o.status = "pending" => Fitting(g[org.seq], i, o.data)
    PROVE  /\ Tale(g)' /\ Reads(g[org.seq], org, holds, ops)' /\ Living(g)' /\ Mute
<1>1. OpsRows
    BY DEF Present, IInv, Shared, Rows
<1>2. /\ DOMAIN ops' = DOMAIN ops /\ ops'[i] = o
      /\ \A j \in DOMAIN ops : j # i => ops'[j] = ops[j]
    BY <1>1, Rewritten
<1>3. UNCHANGED Told
    <2>1. \A n \in 1..Len(log) : ops'[log[n]].data = ops[log[n]].data
        BY <1>2, LiveLog DEF Present, InLog
    <2> QED
        BY <2>1 DEF Told, Deed, Abiding
<1>4. Tale(g)'
    BY <1>3, TaleStays DEF Present
<1>5. PICK w : w = g[org.seq]
    OBVIOUS
<1>6. Reads(w, org', holds', ops')
    BY <1>1, <1>5, ReadsRewritten DEF Present
<1>7. Living(g)'
    BY LiveLog, BackupStays DEF Present, Backed
<1> QED
    BY <1>3, <1>4, <1>5, <1>6, <1>7 DEF Mute

\* The tale grows.
LEMMA TaleGrows ==
    ASSUME NEW g, Tale(g), NEW k \in Nat, k = Len(log), Len(log') = k + 1,
           \A n \in 1..k : log'[n] = log[n], \A n \in 1..k : Deed(log[n])' = Deed(log[n]),
           NEW i, log'[k + 1] = i, NEW d, Deed(i)' = d, Fitting(g[k], i, d)
    PROVE  \E h : Tale(h)' /\ \A n \in 0..k : h[n] = g[n]
<1>1. PICK v : v = Onward(g[k], i, d)
    OBVIOUS
<1>2. PICK h : h = [n \in 0..(k + 1) |-> IF n <= k THEN g[n] ELSE v]
    OBVIOUS
<1>3. h[k + 1] = v /\ \A n \in 0..k : h[n] = g[n]
    BY <1>2
<1>4. ASSUME NEW n \in 1..(k + 1)
      PROVE  /\ h[n] = Onward(h[n - 1], log'[n], Deed(log[n])')
             /\ Fitting(h[n - 1], log'[n], Deed(log[n])')
    <2>1. CASE n = k + 1
        <3>1. h[n] = v /\ h[n - 1] = g[k] /\ log'[n] = i /\ Deed(log[n])' = d
            BY <1>3, <2>1 DEF Deed
        <3> QED
            BY <1>1, <3>1
    <2>2. CASE n <= k
        <3>1. n \in 1..k /\ n - 1 \in 0..k
            BY <2>2
        <3>2. h[n] = g[n] /\ h[n - 1] = g[n - 1] /\ log'[n] = log[n] /\ Deed(log[n])' = Deed(log[n])
            BY <1>3, <3>1
        <3> QED
            BY <3>1, <3>2 DEF Tale
    <2> QED
        BY <2>1, <2>2
<1>5. Sound(v)
    <2>1. Sound(g[k])
        BY DEF Tale
    <2> QED
        BY <1>1, <2>1, SoundOnward
<1>6. \A n \in 0..(k + 1) : Sound(h[n])
    <2>1. \A n \in 0..k : Sound(g[n])
        BY DEF Tale
    <2>2. \A n \in 0..(k + 1) : n \in 0..k \/ n = k + 1
        OBVIOUS
    <2> QED
        BY <1>3, <1>5, <2>1, <2>2
<1>7. h[0] = Outset
    BY <1>3 DEF Tale
<1>8. Tale(h)'
    BY <1>4, <1>6, <1>7 DEF Tale
<1> QED
    BY <1>3, <1>8

\* A decision is accepted.
LEMMA PresentAccepts ==
    ASSUME NEW g, Present(g), NEW i, i \in Pending, ~InLog(i), Len(log) = org.seq,
           log' = Append(log, i), UNCHANGED <<org, holds, ops>>, Abiding
    PROVE  /\ \E h : Tale(h)' /\ Reads(h[org.seq], org, holds, ops)' /\ Living(h)'
           /\ History!Accept
<1>1. PICK k \in Nat : k = Len(log)
    BY LiveLog DEF Present
<1>2. log \in Seq(DOMAIN ops) /\ i \in DOMAIN ops
    BY DEF Present, IInv, Shared, Rows, Pending
<1>3. /\ Len(log') = k + 1 /\ log'[k + 1] = i /\ \A n \in 1..k : log'[n] = log[n]
    <2>1. PICK D, l : D = DOMAIN ops /\ l = log
        OBVIOUS
    <2>2. l \in Seq(D) /\ i \in D /\ k = Len(l) /\ log' = Append(l, i)
        BY <1>1, <1>2, <2>1
    <2> QED
        BY <2>1, <2>2, Appended
<1>4. \A j : Deed(j)' = Deed(j)
    BY DEF Deed, Abiding
<1>5. Deed(i)' = ops[i].data
    BY DEF Deed, Abiding, Present, Living
<1>6. PICK w, d : w = g[k] /\ d = ops[i].data
    OBVIOUS
<1>7. Reads(w, org, holds, ops) /\ org.seq = k
    BY <1>1, <1>6 DEF Present
<1>8. Fitting(w, i, d)
    BY <1>6, <1>7 DEF Reads, Pending
<1>9. PICK h : Tale(h)' /\ \A n \in 0..k : h[n] = g[n]
    BY <1>1, <1>3, <1>4, <1>5, <1>6, <1>8, TaleGrows DEF Present
<1>10. Reads(h[org.seq], org, holds, ops)'
    <2>1. h[k] = w
        BY <1>6, <1>9
    <2> QED
        BY <1>7, <2>1
<1>11. Living(h)'
    BY <1>1, <1>3, <1>9, LiveLog, BackupStays DEF Present, Backed
<1>12. History!Accept
    <2>1. History!Admissible(Shown(org, holds), Deed(log[k + 1])')
        <3>1. Shown(org, holds) = w.service
            BY <1>7 DEF Reads
        <3>2. Deed(log[k + 1])' = d
            BY <1>3, <1>5, <1>6 DEF Deed
        <3> QED
            BY <1>8, <3>1, <3>2 DEF Fitting
    <2> QED
        BY <1>1, <1>3, <1>4, <1>7, <2>1, HistoryAccepts
<1> QED
    BY <1>9, <1>10, <1>11, <1>12

\* The decision that was accepted is projected.
LEMMA PresentProjects ==
    ASSUME NEW g, Present(g), NEW i, i \in Pending, InLog(i), UNCHANGED log,
           ops' = [ops EXCEPT ![i].status = "applied"], org'.seq = org.seq + 1, Abiding,
           Reads(Onward(g[org.seq], i, ops[i].data), org', holds', ops')
    PROVE  /\ Tale(g)' /\ Reads(g[org.seq], org, holds, ops)' /\ Living(g)'
           /\ History!Project
<1>1. PICK k \in Nat : k = org.seq /\ Len(log) = k + 1 /\ log[k + 1] = i
    BY LiveLog DEF Present
<1>2. OpsRows
    BY DEF Present, IInv, Shared, Rows
<1>3. \A n \in 1..Len(log) : ops'[log[n]].data = ops[log[n]].data
    <2>1. PICK o : o = [ops[i] EXCEPT !.status = "applied"]
        OBVIOUS
    <2>2. i \in DOMAIN ops /\ IsOp(ops[i])
        BY <1>2 DEF OpsRows, Pending
    <2>3. o.data = ops[i].data
        BY <2>1, <2>2 DEF IsOp, OpFields
    <2>4. ops' = [ops EXCEPT ![i] = o]
        BY <2>1
    <2> QED
        BY <2>2, <2>3, <2>4, LiveLog DEF Present
<1>4. UNCHANGED Told
    BY <1>3 DEF Told, Deed, Abiding
<1>5. Tale(g)'
    BY <1>4, TaleStays DEF Present
<1>6. Deed(i) = ops[i].data
    BY DEF Deed, Present, Living
<1>7. g[k + 1] = Onward(g[k], i, ops[i].data)
    <2>1. k + 1 \in 1..Len(log) /\ (k + 1) - 1 = k
        BY <1>1
    <2> QED
        BY <1>1, <1>6, <2>1 DEF Present, Tale
<1>8. Reads(g[org.seq], org, holds, ops)'
    BY <1>1, <1>7
<1>9. Living(g)'
    BY <1>1, LiveLog, BackupStays DEF Present, Backed
<1>10. History!Project
    <2>1. PICK w, v : w = g[k] /\ v = g[k + 1]
        OBVIOUS
    <2>2. Shown(org, holds) = w.service /\ Shown(org', holds') = v.service
        BY <1>1, <1>7, <2>1 DEF Present, Reads
    <2>3. v.service = History!Effect(w.service, Deed(log[k + 1]))
        BY <1>1, <1>6, <1>7, <2>1 DEF Onward
    <2> QED
        BY <1>1, <1>4, <2>2, <2>3, HistoryProjects
<1> QED
    BY <1>5, <1>8, <1>9, <1>10

-----------------------------------------------------------------------------
(* The steps of the live system, one after the other. *)

LiveTale == \E g : Tale(g) /\ Reads(g[org.seq], org, holds, ops) /\ Living(g)

CarriesOn == LiveTale' /\ (Mute \/ History!Accept \/ History!Project)

Lasts == DOMAIN holds \subseteq DOMAIN holds' /\ DOMAIN ops \subseteq DOMAIN ops'

LEMMA AimsStand ==
    ASSUME Aims, Lasts, UNCHANGED proc
    PROVE  Aims'
BY DEF Aims, Lasts, Aim

LEMMA AimsLand ==
    ASSUME ProcRows, Aims, Lasts, NEW p \in Processes, NEW x, Landed(p, x), Aim(x)'
    PROVE  Aims'
<1>1. proc'[p] = x /\ \A q \in Processes : q # p => proc'[q] = proc[q]
    BY DEF ProcRows, Landed
<1>2. ASSUME NEW q \in Processes PROVE Aim(proc[q])'
    <2>1. PICK y : y = proc[q]
        OBVIOUS
    <2>2. Aim(y)'
        BY <2>1 DEF Aims, Lasts, Aim
    <2>3. CASE q # p
        BY <1>1, <2>1, <2>2, <2>3 DEF Aim
    <2>4. CASE q = p
        BY <1>1, <2>4 DEF Aim
    <2> QED
        BY <2>3, <2>4
<1> QED
    BY <1>2 DEF Aims

\* A process that does not come to propose anything.
LEMMA AimsAside ==
    ASSUME IInv, Aims, Lasts, NEW p \in Processes,
           \/ Done(p) \/ Raise(p) \/ (At(p, "apply") /\ After(p))
           \/ \E pc : pc # "prepare" /\ Goto(p, pc)
    PROVE  Aims'
<1>1. \E x : Landed(p, x) /\ x.pc # "prepare"
    BY Finishing, Raising, Following, Going DEF IInv, Processing, Resting
<1>2. PICK x : Landed(p, x) /\ x.pc # "prepare"
    BY <1>1
<1>3. Aim(x)'
    BY <1>2 DEF Aim
<1> QED
    BY <1>2, <1>3, AimsLand DEF IInv, Processing

LEMMA Rest ==
    ASSUME NEW g, Present(g), UNCHANGED <<org, holds, ops, log, restore, saved>>,
           DOMAIN requests' = DOMAIN requests, Aims'
    PROVE  CarriesOn
<1>1. Abiding
    BY DEF Abiding, Present, Living
<1>2. Tale(g)' /\ Reads(g[org.seq], org, holds, ops)' /\ Living(g)' /\ Mute
    BY <1>1, PresentRests
<1> QED
    BY <1>2 DEF CarriesOn, LiveTale

\* Process p steps aside, and the organization's state stays.
LEMMA RestAside ==
    ASSUME NEW g, Present(g), UNCHANGED <<orgVars, ops, log, restore, saved>>,
           NEW p \in Processes,
           \/ Done(p) \/ Raise(p) \/ (At(p, "apply") /\ After(p))
           \/ \E pc : pc # "prepare" /\ Goto(p, pc)
    PROVE  CarriesOn
<1>1. Aims'
    BY AimsAside DEF Lasts, Present, Living, orgVars
<1> QED
    BY <1>1, Rest DEF orgVars

LEMMA RestLand ==
    ASSUME NEW g, Present(g), UNCHANGED <<orgVars, ops, log, restore, saved>>,
           NEW p \in Processes, NEW x, Landed(p, x), Aim(x)
    PROVE  CarriesOn
<1>1. Aim(x)'
    BY DEF Aim, orgVars
<1>2. Aims'
    BY <1>1, AimsLand DEF Lasts, Present, Living, IInv, Processing, orgVars
<1> QED
    BY <1>2, Rest DEF orgVars

\* Nobody moves.
LEMMA RestStand ==
    ASSUME NEW g, Present(g), UNCHANGED <<org, holds, ops, log, restore, saved, proc>>,
           DOMAIN requests' = DOMAIN requests
    PROVE  CarriesOn
<1>1. Aims'
    BY AimsStand DEF Lasts, Present, Living
<1> QED
    BY <1>1, Rest

LEMMA ClockCarriesOn ==
    ASSUME NEW g, Present(g), UNCHANGED <<restore, saved>>, Tick \/ StartCall \/ EndCall
    PROVE  CarriesOn
BY RestStand DEF Tick, StartCall, EndCall, orgVars, history

LEMMA WorkersCarryOn ==
    ASSUME NEW g, Present(g), UNCHANGED <<restore, saved>>, NEW r \in DOMAIN requests,
           RunRequest(r) \/ ArmThenFail(r) \/ ExhaustRequest(r) \/ DropRequest(r)
    PROVE  CarriesOn
<1>1. UNCHANGED <<org, holds, ops, log, proc>>
    BY DEF RunRequest, ArmThenFail, ExhaustRequest, DropRequest, orgVars, history
<1>2. DOMAIN requests' = DOMAIN requests
    <2>1. RunRequest(r) => DOMAIN requests' = DOMAIN requests
        BY DEF RunRequest
    <2>2. ArmThenFail(r) => DOMAIN requests' = DOMAIN requests
        BY DEF ArmThenFail, orgVars
    <2>3. ExhaustRequest(r) => DOMAIN requests' = DOMAIN requests
        BY DEF ExhaustRequest
    <2>4. DropRequest(r) => DOMAIN requests' = DOMAIN requests
        BY DEF DropRequest
    <2> QED
        BY <2>1, <2>2, <2>3, <2>4
<1> QED
    BY <1>1, <1>2, RestStand

\* Operators release and answer restrictions there are.
LEMMA ProposalsAim ==
    ASSUME DOMAIN requests \subseteq DOMAIN holds, NEW d \in Proposals,
           d.action \in {"release_restriction", "set_subject_request_state"}
    PROVE  d.held \in DOMAIN holds
<1>1. CASE d \in TermCommands
    <2>1. PICK end \in Ends, q \in Periods \cup {0} : d = Renewal(end, q)
        BY <1>1, ProposedByTwo
    <2> QED
        BY <2>1 DEF Renewal, Blank
<1>2. CASE d \in StartCommands \cup CancelCommands \cup DeadlineCommands
    BY <1>2 DEF StartCommands, CancelCommands, DeadlineCommands, Blank
<1>3. CASE d \in PolicyCommands
    <2>1. PICK q \in Periods : d = [Blank EXCEPT !.action = "policy_revision", !.period = q]
        BY <1>3 DEF PolicyCommands
    <2> QED
        BY <2>1 DEF Blank
<1>4. CASE d \in RestrictionCommands
    <2>1. \/ d = [Blank EXCEPT !.action = "create_restriction"]
          \/ \E r \in DOMAIN holds : d = [Blank EXCEPT !.action = "release_restriction", !.held = r]
        BY <1>4 DEF RestrictionCommands
    <2> QED
        BY <2>1 DEF Blank
<1>5. CASE d \in SubjectCommands
    <2>1. PICK k \in Subjects : d = [Blank EXCEPT !.action = "create_restriction", !.kind = k]
        BY <1>5 DEF SubjectCommands
    <2> QED
        BY <2>1 DEF Blank
<1>6. CASE d \in StateCommands
    <2>1. PICK r \in DOMAIN requests, to \in States : d = StateChange(r, to)
        BY <1>6, ProposedByTwo
    <2> QED
        BY <2>1 DEF StateChange, Blank
<1> QED
    BY <1>1, <1>2, <1>3, <1>4, <1>5, <1>6 DEF Proposals

LEMMA SubmitCarriesOn ==
    ASSUME NEW g, Present(g), UNCHANGED <<restore, saved>>, NEW p \in Handlers, NEW c, Submit(p, c)
    PROVE  CarriesOn
<1>1. PICK d \in IF c \in DOMAIN ops THEN {ops[c].data}
                   ELSE {x \in Proposals : x.action \in Kinds} :
          proc' = [proc EXCEPT ![p] = [Idle EXCEPT !.pc = "prepare", !.op = c, !.seen = Len(log),
                                                   !.data = d]]
    BY DEF Submit
<1>2. IInv /\ Len(log) \in Nat /\ p \in Processes
    BY LiveLog, Constants DEF Present
<1>3. IsData(d)
    BY <1>1, <1>2, ProposalsFit DEF IInv, Shared, Rows, OpsRows, IsOp
<1>4. PICK x, k : /\ x = [Idle EXCEPT !.pc = "prepare", !.op = c, !.seen = k, !.data = d]
                  /\ k = Len(log)
    OBVIOUS
<1>5. IsProc(x) /\ x.pc = "prepare" /\ x.op = c /\ x.data = d
    BY <1>2, <1>3, <1>4 DEF IsProc, ProcFields, Idle
<1>6. Landed(p, x)
    BY <1>1, <1>4, <1>5 DEF Landed
<1>7. Aim(x)
    <2>1. CASE c \in DOMAIN ops
        BY <1>5, <2>1 DEF Aim
    <2>2. CASE c \notin DOMAIN ops
        <3>1. d \in Proposals
            BY <1>1, <2>2
        <3>2. d.action \in {"release_restriction", "set_subject_request_state"}
                  => d.held \in DOMAIN holds
            BY <3>1, ProposalsAim DEF Present, Living
        <3> QED
            BY <1>5, <3>2 DEF Aim
    <2> QED
        BY <2>1, <2>2
<1> QED
    BY <1>2, <1>6, <1>7, RestLand DEF Submit, history

-----------------------------------------------------------------------------
(* The sweep and the stages, live. *)

LEMMA FindingsCarryOn ==
    ASSUME NEW g, Present(g), UNCHANGED <<restore, saved>>, FindDue \/ FindPending
    PROVE  CarriesOn
<1>1. IInv /\ Len(log) \in Nat
    BY LiveLog DEF Present
<1>2. CASE FindPending
    <2>1. Goto(Sweep, "found") /\ UNCHANGED <<orgVars, ops, log>>
        BY <1>2 DEF FindPending, history
    <2> QED
        BY <2>1, Constants, RestAside
<1>3. CASE FindDue
    <2>1. PICK d : d = [Blank EXCEPT !.action = "expire_term"]
        OBVIOUS
    <2>2. IsData(d)
        BY <2>1 DEF IsData, DataFields, Blank
    <2>3. PICK x, k : /\ x = [Idle EXCEPT !.pc = "due", !.seen = k, !.data = d]
                      /\ k = Len(log)
        OBVIOUS
    <2>4. IsProc(x) /\ x.pc = "due"
        BY <1>1, <2>2, <2>3 DEF IsProc, ProcFields, Idle
    <2>5. proc' = [proc EXCEPT ![Sweep] = x] /\ UNCHANGED <<orgVars, ops, log>>
        BY <1>3, <2>1, <2>3 DEF FindDue, history
    <2> QED
        BY <2>4, <2>5, Constants, RestLand DEF Landed, Aim
<1> QED
    BY <1>2, <1>3

LEMMA RecoverOneCarriesOn ==
    ASSUME NEW g, Present(g), UNCHANGED <<restore, saved>>, RecoverOne
    PROVE  CarriesOn
<1>1. UNCHANGED <<orgVars, ops, log>>
    BY DEF RecoverOne, history
<1>2. CASE Done(Sweep)
    BY <1>1, <1>2, Constants, RestAside
<1>3. CASE ~Done(Sweep)
    <2>1. PICK i \in Pending, pc \in {"apply", "quiesce", "append"} :
              proc' = [proc EXCEPT ![Sweep] =
                           [Idle EXCEPT !.op = i, !.data = ops[i].data, !.pc = pc]]
        BY <1>3 DEF RecoverOne
    <2>2. PICK d : d = ops[i].data
        OBVIOUS
    <2>3. IsData(d)
        BY <2>2 DEF Present, IInv, Shared, Rows, OpsRows, IsOp, Pending
    <2>4. PICK x : x = [Idle EXCEPT !.op = i, !.data = d, !.pc = pc]
        OBVIOUS
    <2>5. IsProc(x) /\ x.pc # "prepare"
        BY <2>3, <2>4 DEF IsProc, ProcFields, Idle
    <2> QED
        BY <1>1, <2>1, <2>2, <2>4, <2>5, Constants, RestLand DEF Landed, Aim
<1> QED
    BY <1>2, <1>3

LEMMA QuietStages ==
    ASSUME NEW g, Present(g), UNCHANGED <<restore, saved>>, NEW p \in Processes,
           Refuse(p) \/ Repeat(p) \/ Quiesce(p) \/ PutReceipt(p) \/ AlreadyApplied(p) \/ Stale(p)
    PROVE  CarriesOn
<1>1. UNCHANGED <<orgVars, ops, log>>
    BY DEF Refuse, Repeat, Quiesce, PutReceipt, AlreadyApplied, Stale, history
<1>2. \/ Done(p) \/ Raise(p) \/ (At(p, "apply") /\ After(p))
      \/ \E pc : pc # "prepare" /\ Goto(p, pc)
    <2>1. CASE Refuse(p) \/ Stale(p)
        BY <2>1 DEF Refuse, Stale
    <2>2. CASE AlreadyApplied(p)
        BY <2>2 DEF AlreadyApplied
    <2>3. CASE Repeat(p)
        <3>1. PICK pc \in {"apply", "quiesce", "append"} : Done(p) \/ Goto(p, pc)
            BY <2>3 DEF Repeat
        <3> QED
            BY <3>1
    <2>4. CASE Quiesce(p)
        <3>1. PICK pc \in {"finalize", "append"} : Goto(p, pc)
            BY <2>4 DEF Quiesce
        <3> QED
            BY <3>1
    <2>5. CASE PutReceipt(p)
        BY <2>5 DEF PutReceipt
    <2> QED
        BY <2>1, <2>2, <2>3, <2>4, <2>5
<1> QED
    BY <1>1, <1>2, RestAside

\* A decision that fits is staged by process p, which goes on to drive it.
LEMMA StageCarriesOn ==
    ASSUME NEW g, Present(g), UNCHANGED <<restore, saved>>, NEW p \in Processes,
           proc[p].op \notin DOMAIN ops, NEW d, Stage(p, d), IsData(d),
           Fitting(g[org.seq], proc[p].op, d)
    PROVE  CarriesOn
<1>1. PICK i, o : i = proc[p].op /\ o = Row(d, "pending", proc[p].seen)
    OBVIOUS
<1>2. IInv /\ IsProc(proc[p]) /\ OpsRows
    BY DEF Present, IInv, Processing, ProcRows, Shared, Rows
<1>3. IsOp(o) /\ o.data = d
    BY <1>1, <1>2, RowFields DEF IsProc
<1>4. /\ ops' = With(ops, i, o) /\ UNCHANGED <<org, holds, requests, log>>
      /\ \E pc : pc # "prepare" /\ Goto(p, pc)
    BY <1>1 DEF Stage, orgVars, history
<1>5. DOMAIN ops' = DOMAIN ops \cup {i}
    BY <1>2, <1>3, <1>4, Joined
<1>6. Lasts
    BY <1>4, <1>5 DEF Lasts
<1>7. Abiding
    BY <1>2, <1>4, <1>5, <1>6, AimsAside DEF Abiding, Present, Living
<1>8. Tale(g)' /\ Reads(g[org.seq], org, holds, ops)' /\ Living(g)' /\ Mute
    BY <1>1, <1>3, <1>4, <1>7, PresentStages
<1> QED
    BY <1>8 DEF CarriesOn, LiveTale

LEMMA DecisionsCarryOn ==
    ASSUME NEW g, Present(g), UNCHANGED <<restore, saved>>, NEW p \in Processes,
           \/ PrepareTerm(p) \/ PrepareStart(p) \/ PrepareCancel(p) \/ PreparePolicy(p)
           \/ PrepareExtension(p) \/ PrepareRestriction(p)
           \/ PrepareRelease(p) \/ PrepareState(p) \/ PreparePurge(p)
    PROVE  CarriesOn
<1>1. PICK w : w = g[org.seq]
    OBVIOUS
<1>2. org.seq \in 0..Len(log)
    BY LiveLog DEF Present
<1>3. Plans(p, w) /\ IsData(proc[p].data)
    BY <1>1, <1>2 DEF Plans, Present, Tale, Living, Aims, IInv, Processing, ProcRows, IsProc
<1>4. proc[p].op \notin DOMAIN ops
    BY DEF PrepareTerm, PrepareStart, PrepareCancel, PreparePolicy, PrepareExtension,
           PrepareRestriction, PrepareRelease, PrepareState, PreparePurge, New
<1>5. PICK d : Stage(p, d) /\ IsData(d) /\ Fitting(w, proc[p].op, d)
    <2>1. PreparePurge(p) => \E d : Stage(p, d) /\ IsData(d) /\ Fitting(w, proc[p].op, d)
        BY <1>3, PurgePlanned DEF Plans
    <2> QED
        BY <1>3, <2>1, TermPlanned, StartPlanned, CancelPlanned, PolicyPlanned, ExtensionPlanned,
           RestrictionPlanned, ReleasePlanned, StatePlanned
<1> QED
    BY <1>1, <1>4, <1>5, StageCarriesOn

LEMMA ExpiryCarriesOn ==
    ASSUME NEW g, Present(g), UNCHANGED <<restore, saved>>, PrepareExpiry
    PROVE  CarriesOn
<1> DEFINE id == <<"expire", org.term>>
<1>1. /\ IInv /\ OpsRows /\ Sweep \in Processes /\ ProcRows /\ IsProc(proc[Sweep])
      /\ At(Sweep, "due") /\ UNCHANGED <<orgVars, log>>
    BY Constants DEF Present, IInv, Processing, ProcRows, Shared, Rows, PrepareExpiry, history
<1>2. PICK e : e = proc[Sweep].data
    OBVIOUS
<1>3. e.action = "expire_term" /\ IsData(e)
    BY <1>1, <1>2 DEF IInv, Processing, IsProc, At, Knows
<1>4. CASE Done(Sweep) /\ UNCHANGED ops
    BY <1>1, <1>4, RestAside
<1>5. CASE ~(Done(Sweep) /\ UNCHANGED ops)
    <2>1. /\ MayExpire
          /\ IF id \in DOMAIN ops THEN ops[id].status # "applied" ELSE Free(Sweep)
          /\ proc' = [proc EXCEPT ![Sweep].pc = "quiesce", ![Sweep].op = id]
        BY <1>5 DEF PrepareExpiry
    <2>2. PICK x : x = [proc[Sweep] EXCEPT !.pc = "quiesce", !.op = id]
        OBVIOUS
    <2>3. IsProc(x) /\ x.pc = "quiesce"
        BY <1>1, <2>2 DEF IsProc, ProcFields
    <2>4. proc' = [proc EXCEPT ![Sweep] = x]
        BY <1>1, <2>1, <2>2 DEF ProcRows
    <2>5. Landed(Sweep, x) /\ Aim(x) /\ Aim(x)'
        BY <2>3, <2>4 DEF Landed, Aim
    <2>6. CASE id \in DOMAIN ops
        <3>1. UNCHANGED ops
            BY <2>6, <1>5 DEF PrepareExpiry
        <3> QED
            BY <1>1, <2>5, <3>1, RestLand
    <2>7. CASE id \notin DOMAIN ops
        <3>1. PICK d : d = [e EXCEPT !.episode = id, !.ends = TermEnds,
                                     !.eligible = TermEnds + TermPeriod]
            OBVIOUS
        <3>2. PICK o, i : o = Row(d, "pending", proc[Sweep].seen) /\ i = id
            OBVIOUS
        <3>3. ops' = With(ops, i, o) /\ i \notin DOMAIN ops
            BY <1>2, <1>5, <2>7, <3>1, <3>2 DEF PrepareExpiry
        <3>4. IsData(d) /\ d.action = "expire_term" /\ d.ends = TermEnds
            <4>1. TermPeriod \in Nat /\ TermEnds \in Nat
                BY <1>1, <2>1, TermInForce DEF MayExpire
            <4>2. PICK n \in Nat : n = TermEnds + TermPeriod
                BY <4>1
            <4> QED
                BY <1>3, <3>1, <4>2 DEF IsData, DataFields
        <3>5. IsOp(o) /\ o.data = d
            BY <1>1, <3>2, <3>4, RowFields DEF IsProc
        <3>6. PICK w : w = g[org.seq]
            OBVIOUS
        <3>7. Sound(w) /\ Reads(w, org, holds, ops)
            BY <3>6, LiveLog DEF Present, Tale
        <3>8. Fitting(w, i, d)
            <4>1. org.status = "active" /\ org.term # None
                BY <2>1 DEF MayExpire
            <4>2. w.service.status = "active" /\ w.term # None /\ TermEnds = w.ends
                BY <3>7, <4>1, WorldShown
            <4> QED
                BY <3>4, <4>2, EndFits DEF Service
        <3>9. DOMAIN ops' = DOMAIN ops \cup {i}
            BY <1>1, <3>3, <3>5, Joined
        <3>10. Abiding
            BY <1>1, <2>5, <3>9, AimsLand DEF Abiding, Lasts, Present, Living, orgVars
        <3>11. Tale(g)' /\ Reads(g[org.seq], org, holds, ops)' /\ Living(g)' /\ Mute
            BY <1>1, <3>3, <3>5, <3>6, <3>8, <3>10, PresentStages DEF orgVars
        <3> QED
            BY <3>11 DEF CarriesOn, LiveTale
    <2> QED
        BY <2>6, <2>7
<1> QED
    BY <1>4, <1>5

\* A pending start that is not in the history is cut off, or rejected, by process p.
LEMMA CutCarriesOn ==
    ASSUME NEW g, Present(g), UNCHANGED <<restore, saved>>, NEW i, NEW o, Rewrites(i, o), Late(i),
           o.data.action = "start", UNCHANGED <<orgVars, log>>, Aims'
    PROVE  CarriesOn
<1>1. OpsRows /\ i \in DOMAIN ops /\ DOMAIN ops' = DOMAIN ops
    BY Rewritten DEF Present, IInv, Shared, Rows
<1>2. ~InLog(i)
    BY DEF Late, InLog, Present, IInv, Shared, Chain
<1>3. PICK w, d : w = g[org.seq] /\ d = ops[i].data
    OBVIOUS
<1>4. Fitting(w, i, d) /\ d.action = "start"
    BY <1>3 DEF Rewrites, Pending, Present, Reads, Late
<1>5. Fitting(w, i, o.data)
    <2>1. w.service.status = "active" /\ w.term # None
        BY <1>4 DEF Fitting, History!Admissible, TermActions, Service
    <2> QED
        BY <2>1, EndFits DEF Service
<1>6. Abiding
    BY <1>1 DEF Abiding, Present, Living, orgVars
<1>7. Tale(g)' /\ Reads(g[org.seq], org, holds, ops)' /\ Living(g)' /\ Mute
    BY <1>2, <1>3, <1>5, <1>6, PresentRewrites DEF orgVars
<1> QED
    BY <1>7 DEF CarriesOn, LiveTale

LEMMA FinalizeCarriesOn ==
    ASSUME NEW g, Present(g), UNCHANGED <<restore, saved>>, NEW p \in Processes, Finalize(p)
    PROVE  CarriesOn
<1>1. PICK i, o : i = proc[p].op /\ o = ops[i]
    OBVIOUS
<1>2. /\ At(p, "finalize") /\ i \in DOMAIN ops /\ o.data.action = "start" /\ IsOp(o)
      /\ OpsRows /\ clock \in Nat /\ IInv
    BY <1>1 DEF Finalize, Present, IInv, Shared, Rows, OpsRows, Processing, At, Knows, Driving
<1>3. UNCHANGED <<orgVars, log>>
    BY DEF Finalize, history
<1>4. CASE UNCHANGED ops
    <2>1. Done(p) \/ Goto(p, "append")
        BY <1>4 DEF Finalize
    <2> QED
        BY <1>3, <1>4, <2>1, RestAside
<1>5. CASE /\ o.status = "pending" /\ o.data.eligible = 0
           /\ ops' = [ops EXCEPT ![i].data.ends = clock,
                                 ![i].data.eligible = clock + o.data.period]
           /\ Goto(p, "append")
    <2>1. PICK n \in Nat : n = clock + o.data.period
        <3>1. o.data.period \in Nat
            BY <1>2 DEF IsOp, IsData
        <3>2. clock + o.data.period \in Nat
            BY <1>2, <3>1
        <3> QED
            BY <3>2
    <2>2. PICK d : d = [o.data EXCEPT !.ends = clock, !.eligible = n]
        OBVIOUS
    <2>3. IsData(d) /\ d.action = "start"
        BY <1>2, <2>1, <2>2 DEF IsOp, IsData, DataFields
    <2>4. PICK q : q = [o EXCEPT !.data = d]
        OBVIOUS
    <2>5. IsOp(q) /\ q.data = d /\ q.status = "pending" /\ q.expected = o.expected
        BY <1>2, <1>5, <2>3, <2>4 DEF IsOp, OpFields
    <2>6. ops' = [j \in DOMAIN ops |-> IF j = i THEN q ELSE ops[j]]
        <3>1. ops' = [ops EXCEPT ![i].data.ends = clock, ![i].data.eligible = n]
            BY <1>5, <2>1
        <3>2. DOMAIN ops' = DOMAIN ops /\ ops' = [j \in DOMAIN ops |-> ops'[j]]
            BY <1>2, <3>1 DEF OpsRows
        <3>3. \A j \in DOMAIN ops : j # i => ops'[j] = ops[j]
            BY <1>2, <3>1 DEF OpsRows
        <3>4. ops'[i] = [[o EXCEPT !.data = [o.data EXCEPT !.ends = clock]]
                            EXCEPT !.data = [[o.data EXCEPT !.ends = clock] EXCEPT !.eligible = n]]
            BY <1>1, <1>2, <3>1 DEF OpsRows, IsOp, OpFields
        <3>5. ops'[i] = q
            BY <1>2, <2>2, <2>4, <3>4 DEF IsOp, OpFields
        <3> QED
            BY <3>2, <3>3, <3>5
    <2>7. Rewrites(i, q) /\ Late(i) /\ q.data.action = "start"
        BY <1>1, <1>2, <1>5, <2>3, <2>5, <2>6 DEF Rewrites, Late, Pending
    <2>8. Aims'
        BY <1>2, <1>3, <1>5, <2>6, AimsAside DEF Lasts, Present, Living, orgVars
    <2> QED
        BY <1>3, <2>7, <2>8, CutCarriesOn
<1>6. CASE /\ o.status = "pending" /\ o.data.eligible = 0
           /\ ops' = [ops EXCEPT ![i].status = "rejected"] /\ Done(p)
    <2>1. PICK q : q = [o EXCEPT !.status = "rejected"]
        OBVIOUS
    <2>2. IsOp(q) /\ q.data = o.data /\ q.status = "rejected" /\ q.expected = o.expected
        BY <1>2, <2>1 DEF IsOp, OpFields
    <2>3. ops' = [j \in DOMAIN ops |-> IF j = i THEN q ELSE ops[j]]
        BY <1>1, <1>2, <1>6, <2>1 DEF OpsRows
    <2>4. Rewrites(i, q) /\ Late(i) /\ q.data.action = "start"
        BY <1>1, <1>2, <1>6, <2>2, <2>3 DEF Rewrites, Late, Pending
    <2>5. Aims'
        BY <1>2, <1>3, <1>6, <2>3, AimsAside DEF Lasts, Present, Living, orgVars
    <2> QED
        BY <1>3, <2>4, <2>5, CutCarriesOn
<1> QED
    BY <1>1, <1>4, <1>5, <1>6 DEF Finalize

LEMMA BeginAppendCarriesOn ==
    ASSUME NEW g, Present(g), UNCHANGED <<restore, saved>>, NEW p \in Processes, BeginAppend(p)
    PROVE  CarriesOn
<1>1. PICK i : i = proc[p].op
    OBVIOUS
<1>2. /\ At(p, "append") /\ i \in DOMAIN ops /\ ops[i].status # "rejected" /\ ProcRows
      /\ IsProc(proc[p]) /\ IInv
    BY <1>1 DEF BeginAppend, Present, IInv, Processing, ProcRows, At, Knows, Driving, Decided
<1>3. UNCHANGED <<orgVars, log>>
    BY DEF BeginAppend, history
<1>4. CASE ~Verified
    BY <1>3, <1>4, RestAside DEF BeginAppend
<1>5. CASE Verified /\ InLog(i)
    BY <1>1, <1>3, <1>5, RestAside DEF BeginAppend
<1>6. CASE Verified /\ ~InLog(i)
    <2>1. ops[i].expected = org.seq /\ Len(log) = org.seq /\ org.seq \in Nat
        BY <1>2, <1>6, BeforeAppend DEF IInv
    <2>2. UNCHANGED ops /\ proc' = [proc EXCEPT ![p].pc = "head", ![p].seen = Len(log)]
        BY <1>1, <1>6, <2>1 DEF BeginAppend
    <2>3. PICK x : x = [proc[p] EXCEPT !.pc = "head", !.seen = Len(log)]
        OBVIOUS
    <2>4. IsProc(x) /\ x.pc = "head"
        BY <1>2, <2>1, <2>3 DEF IsProc, ProcFields
    <2>5. proc' = [proc EXCEPT ![p] = x]
        BY <1>2, <2>2, <2>3 DEF ProcRows
    <2> QED
        BY <1>3, <2>2, <2>4, <2>5, RestLand DEF Landed, Aim
<1> QED
    BY <1>4, <1>5, <1>6

LEMMA PutHeadCarriesOn ==
    ASSUME NEW g, Present(g), UNCHANGED <<restore, saved>>, NEW p \in Processes, PutHead(p)
    PROVE  CarriesOn
<1>1. PICK i : i = proc[p].op
    OBVIOUS
<1>2. /\ At(p, "head") /\ i \in DOMAIN ops /\ ops[i].status # "rejected" /\ IInv
      /\ proc[p].seen = ops[i].expected
    BY <1>1 DEF PutHead, Present, IInv, Processing, ProcRows, At, Knows, Driving, Decided
<1>3. UNCHANGED <<orgVars, ops>>
    BY DEF PutHead
<1>4. CASE Len(log) = proc[p].seen
    <2>1. ~InLog(i)
        <3> SUFFICES ASSUME InLog(i) PROVE FALSE
            OBVIOUS
        <3>1. PICK n \in 1..Len(log) : log[n] = i
            BY DEF InLog
        <3>2. ops[i].expected = n - 1 /\ Len(log) \in Nat
            BY <1>2, <3>1, LoggedAreOperations DEF IInv, Shared, Chain
        <3> QED
            BY <1>2, <1>4, <3>2
    <2>2. i \in Pending /\ Len(log) = org.seq
        BY <1>2, <2>1, BeforeAppend DEF IInv
    <2>3. log' = Append(log, i) /\ Goto(p, "receipt")
        BY <1>1, <1>4 DEF PutHead
    <2>4. Abiding
        BY <1>2, <1>3, <2>3, AimsAside DEF Abiding, Lasts, Present, Living, orgVars
    <2>5. /\ \E h : Tale(h)' /\ Reads(h[org.seq], org, holds, ops)' /\ Living(h)'
          /\ History!Accept
        BY <1>3, <2>1, <2>2, <2>3, <2>4, PresentAccepts DEF orgVars
    <2> QED
        BY <2>5 DEF CarriesOn, LiveTale
<1>5. CASE Len(log) # proc[p].seen
    <2>1. UNCHANGED log /\ (Goto(p, "apply") \/ Raise(p))
        BY <1>5 DEF PutHead
    <2> QED
        BY <1>3, <2>1, RestAside
<1> QED
    BY <1>4, <1>5

\* What a projection does to the rows there are.
LEMMA AppliesLasts ==
    ASSUME OpsRows, DOMAIN requests \subseteq DOMAIN holds, DOMAIN holds \subseteq DOMAIN ops,
           NEW p, proc[p].op \in DOMAIN ops, Applies(p)
    PROVE  /\ Lasts /\ DOMAIN requests' \subseteq DOMAIN holds'
           /\ DOMAIN holds' \subseteq DOMAIN ops'
           /\ Raise(p) \/ (At(p, "apply") /\ After(p))
<1>1. ASSUME NEW A, Projects(p, A)
      PROVE  DOMAIN ops' = DOMAIN ops /\ At(p, "apply") /\ After(p)
    BY <1>1 DEF Projects, OpsRows
<1>2. CASE ApplyRestriction(p)
    <2>1. DOMAIN holds' = DOMAIN holds \cup {proc[p].op}
        BY <1>2 DEF ApplyRestriction, With
    <2>2. DOMAIN requests' \subseteq DOMAIN requests \cup {proc[p].op}
        BY <1>2 DEF ApplyRestriction, With
    <2>3. DOMAIN ops' = DOMAIN ops /\ At(p, "apply") /\ After(p)
        BY <1>1, <1>2 DEF ApplyRestriction
    <2> QED
        BY <2>1, <2>2, <2>3 DEF Lasts
<1>3. CASE ApplyRelease(p)
    <2>1. DOMAIN holds' = DOMAIN holds /\ DOMAIN requests' = DOMAIN requests
        BY <1>3 DEF ApplyRelease
    <2>2. DOMAIN ops' = DOMAIN ops /\ At(p, "apply") /\ After(p)
        BY <1>1, <1>3 DEF ApplyRelease
    <2> QED
        BY <2>1, <2>2 DEF Lasts
<1>4. CASE ApplyState(p)
    <2>1. DOMAIN holds' = DOMAIN holds /\ DOMAIN requests' = DOMAIN requests
        BY <1>4 DEF ApplyState
    <2>2. DOMAIN ops' = DOMAIN ops /\ At(p, "apply") /\ After(p)
        BY <1>1, <1>4 DEF ApplyState
    <2> QED
        BY <2>1, <2>2 DEF Lasts
<1>5. CASE AlreadyApplied(p) \/ Stale(p)
    BY <1>5 DEF AlreadyApplied, Stale, Lasts, orgVars
<1>6. CASE \/ ApplyTerm(p) \/ ApplyExpiry(p) \/ ApplyStart(p) \/ ApplyCancel(p)
           \/ ApplyPolicy(p) \/ ApplyExtension(p) \/ ApplyClaim(p)
           \/ ApplyAuthorization(p) \/ ApplyCompletion(p) \/ ApplyFinal(p)
    <2>1. UNCHANGED <<holds, requests>>
        BY <1>6 DEF ApplyTerm, ApplyExpiry, ApplyStart, ApplyCancel, ApplyPolicy, ApplyExtension,
           ApplyClaim, ApplyAuthorization, ApplyCompletion, ApplyFinal
    <2>2. DOMAIN ops' = DOMAIN ops /\ At(p, "apply") /\ After(p)
        BY <1>1, <1>6 DEF ApplyTerm, ApplyExpiry, ApplyStart, ApplyCancel, ApplyPolicy,
           ApplyExtension, ApplyClaim, ApplyAuthorization, ApplyCompletion, ApplyFinal
    <2> QED
        BY <2>1, <2>2 DEF Lasts
<1> QED
    BY <1>2, <1>3, <1>4, <1>5, <1>6 DEF Applies

LEMMA AppliesCarryOn ==
    ASSUME NEW g, Present(g), UNCHANGED <<restore, saved>>, NEW p \in Processes, Applies(p)
    PROVE  CarriesOn
<1>1. CASE AlreadyApplied(p) \/ Stale(p)
    BY <1>1, QuietStages
<1>2. CASE ~(AlreadyApplied(p) \/ Stale(p))
    <2>1. At(p, "apply")
        BY <1>2 DEF Applies, ApplyTerm, ApplyExpiry, ApplyStart, ApplyCancel, ApplyPolicy,
           ApplyExtension, ApplyRestriction, ApplyRelease, ApplyState, ApplyClaim,
           ApplyAuthorization, ApplyCompletion, ApplyFinal, Projects
    <2>2. /\ IInv /\ proc[p].op \in DOMAIN ops /\ InLog(proc[p].op)
          /\ OpsRows /\ OrgShape /\ OneDecision
        BY <2>1 DEF Present, IInv, Processing, At, Knows, Driving, Decided, Shared, Rows, OrgRow,
           OrgShape
    <2>3. PICK w : w = g[org.seq]
        OBVIOUS
    <2>4. Sound(w) /\ Reads(w, org, holds, ops)
        BY <2>3, LiveLog DEF Present, Tale
    <2>5. /\ Lasts /\ DOMAIN requests' \subseteq DOMAIN holds'
          /\ DOMAIN holds' \subseteq DOMAIN ops'
          /\ Raise(p) \/ (At(p, "apply") /\ After(p))
        BY <2>2, AppliesLasts DEF Present, Living
    <2>6. Abiding
        BY <2>2, <2>5, AimsAside DEF Abiding, Present, Living
    <2>7. CASE UNCHANGED <<org, holds, ops, log>>
        <3>1. Tale(g)' /\ Reads(g[org.seq], org, holds, ops)' /\ Living(g)' /\ Mute
            BY <2>6, <2>7, PresentRests
        <3> QED
            BY <3>1 DEF CarriesOn, LiveTale
    <2>8. CASE /\ proc[p].op \in Pending /\ log' = log
               /\ ops' = [ops EXCEPT ![proc[p].op].status = "applied"]
               /\ Reads(Onward(w, proc[p].op, Data(p)), org', holds', ops')
               /\ org'.seq = org.seq + 1
        <3>1. PICK i : i = proc[p].op
            OBVIOUS
        <3>2. /\ i \in Pending /\ InLog(i) /\ UNCHANGED log
              /\ ops' = [ops EXCEPT ![i].status = "applied"] /\ org'.seq = org.seq + 1
            BY <2>2, <2>8, <3>1
        <3>3. Reads(Onward(g[org.seq], i, ops[i].data), org', holds', ops')
            BY <2>3, <2>8, <3>1 DEF Data
        <3>4. /\ Tale(g)' /\ Reads(g[org.seq], org, holds, ops)' /\ Living(g)'
              /\ History!Project
            BY <2>6, <3>2, <3>3, PresentProjects
        <3> QED
            BY <3>4 DEF CarriesOn, LiveTale
    <2> QED
        BY <2>2, <2>4, <2>7, <2>8, AppliedTurns
<1> QED
    BY <1>1, <1>2

LEMMA AdvanceCarriesOn ==
    ASSUME NEW g, Present(g), UNCHANGED <<restore, saved>>, NEW p \in Processes, Advance(p)
    PROVE  CarriesOn
<1>1. CASE Stages(p)
    BY <1>1, DecisionsCarryOn, QuietStages, FinalizeCarriesOn DEF Stages
<1>2. CASE Appends(p)
    BY <1>2, BeginAppendCarriesOn, PutHeadCarriesOn, QuietStages DEF Appends
<1>3. CASE Applies(p)
    BY <1>3, AppliesCarryOn
<1>4. CASE PrepareExpiry
    BY <1>4, ExpiryCarriesOn
<1> QED
    BY <1>1, <1>2, <1>3, <1>4 DEF Advance

-----------------------------------------------------------------------------
(* The purge worker, live: what it proposes is no release. *)

LEMMA PurgeAims ==
    ASSUME NEW x, x.data.action \in PurgeActions
    PROVE  Aim(x)
BY DEF Aim, PurgeActions

LEMMA TakeJobCarriesOn ==
    ASSUME NEW g, Present(g), UNCHANGED <<restore, saved>>, NEW e \in todo, TakeJob(e)
    PROVE  CarriesOn
<1>1. IInv /\ Len(log) \in Nat /\ UNCHANGED <<orgVars, ops, log>>
    BY LiveLog DEF Present, TakeJob, history
<1>2. PICK w : w = Worker(e)
    OBVIOUS
<1>3. IsProc(w)
    BY <1>1, <1>2, BlankData DEF Worker, IsProc, ProcFields, Idle
<1>4. PICK d : d = [Blank EXCEPT !.action = "claim", !.episode = e]
    OBVIOUS
<1>5. IsData(d) /\ d.action \in PurgeActions
    BY <1>4, PurgeProposal DEF PurgeActions
<1>6. PICK x : x = IF run.episode = e THEN [w EXCEPT !.pc = "inventory"]
                   ELSE IF Verified
                   THEN [w EXCEPT !.pc = "prepare", !.op = <<"claim", e>>, !.data = d]
                   ELSE Idle
    OBVIOUS
<1>7. proc' = [proc EXCEPT ![Purger] = x]
    BY <1>2, <1>4, <1>6 DEF TakeJob
<1>8. IsProc(x) /\ (x.pc = "prepare" => x.data = d)
    <2>1. CASE x = [w EXCEPT !.pc = "inventory"]
        BY <1>3, <2>1 DEF IsProc, ProcFields
    <2>2. CASE x = [w EXCEPT !.pc = "prepare", !.op = <<"claim", e>>, !.data = d]
        BY <1>3, <1>5, <2>2 DEF IsProc, ProcFields
    <2>3. CASE x = Idle
        BY <2>3, IdleProc
    <2> QED
        BY <1>6, <2>1, <2>2, <2>3
<1>9. Aim(x)
    BY <1>5, <1>8, PurgeAims DEF Aim
<1> QED
    BY <1>1, <1>7, <1>8, <1>9, Constants, RestLand DEF Landed

\* Where the purge worker's own steps take it.
LEMMA PurgerLands ==
    ASSUME ProcRows, Len(log) \in Nat, Purges
    PROVE  \E x : Landed(Purger, x) /\ Aim(x)
<1>1. IsProc(proc[Purger]) /\ Purger \in Processes
    BY Constants DEF ProcRows
<1>2. ASSUME NEW op, NEW a \in PurgeActions, Begin(op, a)
      PROVE  \E x : Landed(Purger, x) /\ Aim(x)
    <2>1. PICK d : d = [Blank EXCEPT !.action = a, !.episode = run.episode]
        OBVIOUS
    <2>2. IsData(d) /\ d.action = a
        BY <2>1, PurgeProposal
    <2>3. PICK x, k : /\ x = [proc[Purger] EXCEPT !.pc = "prepare", !.op = op, !.seen = k,
                                                  !.data = d]
                      /\ k = Len(log)
        OBVIOUS
    <2>4. IsProc(x) /\ x.data = d
        BY <1>1, <2>2, <2>3 DEF IsProc, ProcFields
    <2>5. proc' = [proc EXCEPT ![Purger].pc = "prepare", ![Purger].op = op, ![Purger].seen = k,
                               ![Purger].data = d]
        BY <1>2, <2>1, <2>3 DEF Begin
    <2>6. proc' = [proc EXCEPT ![Purger] = x]
        BY <1>1, <2>3, <2>5 DEF ProcRows
    <2> QED
        BY <2>2, <2>4, <2>6, PurgeAims DEF Landed
<1>3. ASSUME NEW b, proc' = [proc EXCEPT ![Purger].pc = "next", ![Purger].batch = b]
      PROVE  \E x : Landed(Purger, x) /\ Aim(x)
    <2>1. PICK x : x = [proc[Purger] EXCEPT !.pc = "next", !.batch = b]
        OBVIOUS
    <2>2. IsProc(x) /\ x.pc = "next"
        BY <1>1, <2>1 DEF IsProc, ProcFields
    <2>3. proc' = [proc EXCEPT ![Purger] = x]
        BY <1>1, <1>3, <2>1 DEF ProcRows
    <2> QED
        BY <2>2, <2>3 DEF Landed, Aim
<1>4. ASSUME NEW pc \in {"next", "failing"}, Goto(Purger, pc)
      PROVE  \E x : Landed(Purger, x) /\ Aim(x)
    <2>1. PICK x : Landed(Purger, x) /\ x.pc = pc
        BY <1>1, <1>4, Going
    <2> QED
        BY <2>1 DEF Aim
<1>5. ASSUME Done(Purger) PROVE \E x : Landed(Purger, x) /\ Aim(x)
    BY <1>5, IdleProc DEF Done, Landed, Aim
<1>6. CASE Inventory
    BY <1>4, <1>5, <1>6 DEF Inventory
<1>7. CASE Authorize
    <2>1. Goto(Purger, "failing") \/ \E op : Begin(op, "authorize_destructive_step")
        BY <1>7 DEF Authorize
    <2> QED
        BY <1>2, <1>4, <2>1 DEF PurgeActions
<1>8. CASE Execute
    <2>1. \/ Goto(Purger, "failing")
          \/ \E op, a : a \in PurgeActions /\ Begin(op, a)
          \/ \E b : proc' = [proc EXCEPT ![Purger].pc = "next", ![Purger].batch = b]
        BY <1>8 DEF Execute, PurgeActions
    <2> QED
        BY <1>2, <1>3, <1>4, <2>1
<1>9. CASE Progress
    <2>1. PICK b : b = proc[Purger].batch + 1
        OBVIOUS
    <2>2. proc' = [proc EXCEPT ![Purger].pc = "next", ![Purger].batch = b]
        BY <1>9, <2>1 DEF Progress
    <2> QED
        BY <1>3, <2>2
<1>10. CASE \E late \in BOOLEAN : RecordFailure(late)
    BY <1>5, <1>10 DEF RecordFailure
<1> QED
    BY <1>6, <1>7, <1>8, <1>9, <1>10 DEF Purges

LEMMA PurgesStay ==
    ASSUME Purges
    PROVE  UNCHANGED <<org, holds, requests, ops, log>>
BY DEF Purges, Inventory, Authorize, Execute, Progress, RecordFailure, orgVars, history

LEMMA PurgesCarryOn ==
    ASSUME NEW g, Present(g), UNCHANGED <<restore, saved>>, Purges
    PROVE  CarriesOn
<1>1. UNCHANGED <<org, holds, requests, ops, log>> /\ IInv /\ Len(log) \in Nat /\ ProcRows
    BY PurgesStay, LiveLog DEF Present, IInv, Processing
<1>2. PICK x : Landed(Purger, x) /\ Aim(x)
    BY <1>1, PurgerLands
<1>3. Aim(x)'
    BY <1>1, <1>2 DEF Aim
<1>4. Aims'
    BY <1>1, <1>2, <1>3, Constants, AimsLand DEF Lasts, Present, Living
<1> QED
    BY <1>1, <1>4, Rest

LEMMA MishapsCarryOn ==
    ASSUME NEW g, Present(g), UNCHANGED <<restore, saved>>,
           Discover \/ Recover \/ \E p \in Processes : Die(p)
    PROVE  CarriesOn
<1>1. CASE \E p \in Processes : Die(p)
    <2>1. PICK p \in Processes : Die(p)
        BY <1>1
    <2>2. UNCHANGED <<orgVars, ops, log>> /\ (Done(p) \/ Raise(p))
        BY <2>1 DEF Die, history
    <2> QED
        BY <2>2, RestAside
<1>2. CASE Discover \/ Recover
    <2>1. UNCHANGED <<org, holds, requests, ops, log, proc>>
        BY <1>2 DEF Discover, Recover, Queue, orgVars, history
    <2> QED
        BY <2>1, RestStand
<1> QED
    BY <1>1, <1>2

\* A step of the live system is one of the history or none.
LEMMA NextCarriesOn ==
    ASSUME NEW g, Present(g), UNCHANGED <<restore, saved>>, Next
    PROVE  CarriesOn
<1>1. CASE Tick \/ StartCall \/ EndCall
    BY <1>1, ClockCarriesOn
<1>2. CASE \E p \in Handlers, c \in Commands : Submit(p, c)
    BY <1>2, SubmitCarriesOn
<1>3. CASE FindDue \/ FindPending \/ RecoverOne
    BY <1>3, FindingsCarryOn, RecoverOneCarriesOn
<1>4. CASE \E p \in Processes : Advance(p) \/ Die(p)
    BY <1>4, AdvanceCarriesOn, MishapsCarryOn
<1>5. CASE Discover \/ Recover \/ Purges
    BY <1>5, MishapsCarryOn, PurgesCarryOn
<1>6. CASE \E e \in todo : TakeJob(e)
    BY <1>6, TakeJobCarriesOn
<1>7. CASE \E r \in DOMAIN requests : RunRequest(r) \/ ArmThenFail(r) \/ ExhaustRequest(r)
                                      \/ DropRequest(r)
    BY <1>7, WorkersCarryOn
<1> QED
    BY <1>1, <1>2, <1>3, <1>4, <1>5, <1>6, <1>7 DEF Next

LEMMA StandingCarriesOn ==
    ASSUME NEW g, Present(g), UNCHANGED allVars
    PROVE  CarriesOn
BY RestStand DEF allVars, vars, restoreVars, orgVars, history

-----------------------------------------------------------------------------
(* The backup, and the disaster. *)

LEMMA BackupCarriesOn ==
    ASSUME NEW g, Present(g), Backup
    PROVE  CarriesOn
<1>1. saved = None /\ UNCHANGED <<vars, restore>> /\ saved' = Database
    BY DEF Backup
<1>2. UNCHANGED <<org, holds, ops, log, requests, proc>>
    BY <1>1 DEF vars
<1>3. /\ saved'.org = org /\ saved'.holds = holds /\ saved'.ops = ops
    BY <1>1 DEF Database
<1>4. /\ Len(log) \in Nat /\ org.seq \in Nat
      /\ \A n \in 1..Len(log) : log[n] \in DOMAIN ops
      /\ \A n \in 1..Len(log) : n <= org.seq => ops[log[n]].status = "applied"
      /\ \A i \in DOMAIN ops : ops[i].status = "applied" => InLog(i)
      /\ org.seq <= Len(log)
    BY LiveLog DEF Present
<1>5. Settled(org.seq, ops)'
    BY <1>2, <1>4 DEF Settled, InLog
<1>6. UNCHANGED Told
    BY <1>1, <1>2 DEF Told, Deed
<1>7. Tale(g)'
    BY <1>2, <1>6, TaleStays DEF Present
<1>8. Reads(g[org.seq], org, holds, ops)'
    BY <1>2 DEF Present
<1>9. Living(g)'
    <2>1. /\ saved'.org.seq <= org'.seq
          /\ Reads(g[saved'.org.seq], saved'.org, saved'.holds, saved'.ops)
          /\ Settled(saved.org.seq, saved.ops)'
        BY <1>2, <1>3, <1>4, <1>5 DEF Present
    <2>2. DOMAIN requests' \subseteq DOMAIN holds' /\ DOMAIN holds' \subseteq DOMAIN ops'
          /\ DOMAIN restore'.events = {}
        BY <1>1, <1>2 DEF Present, Living
    <2>3. Aims'
        BY <1>2, AimsStand DEF Lasts, Present, Living
    <2> QED
        BY <2>1, <2>2, <2>3 DEF Living
<1> QED
    BY <1>2, <1>6, <1>7, <1>8, <1>9 DEF CarriesOn, LiveTale, Mute

LEMMA LeastNumber ==
    ASSUME NEW T \in SUBSET Nat, T # {}
    PROVE  \E x \in T : \A y \in T : x <= y
<1> DEFINE R == OpToRel(<, Nat)
<1>1. IsWellFoundedOn(R, Nat)
    BY NatLessThanWellFounded
<1>2. \A x, y \in Nat : y < x => <<y, x>> \in R
    BY DEF OpToRel
<1> HIDE DEF R
<1>3. PICK x \in T : \A y \in T : ~(<<y, x>> \in R)
    BY <1>1, WFMin
<1>4. ASSUME NEW y \in T  PROVE x <= y
    <2>1. x \in Nat /\ y \in Nat
        OBVIOUS
    <2>2. <<y, x>> \notin R
        BY <1>3
    <2>3. ~(y < x)
        BY <1>2, <2>1, <2>2
    <2> QED
        BY <2>1, <2>3
<1> QED
    BY <1>4

\* Two tellings that begin and go on alike.
GoAlike(f, v, k) == f[0] = v[0] /\ \A n \in 1..k : f[n - 1] = v[n - 1] => f[n] = v[n]

LEMMA ToldAlike ==
    ASSUME NEW k \in Nat, NEW f, NEW v, GoAlike(f, v, k)
    PROVE  \A m \in 0..k : f[m] = v[m]
<1> USE DEF GoAlike
<1> DEFINE T == {n \in 0..k : f[n] # v[n]}
<1>1. T = {}
    <2> SUFFICES ASSUME T # {} PROVE FALSE
        OBVIOUS
    <2>1. T \in SUBSET Nat
        OBVIOUS
    <2> HIDE DEF T
    <2>2. PICK x \in T : \A y \in T : x <= y
        BY <2>1, LeastNumber
    <2>3. x \in 0..k /\ f[x] # v[x]
        BY DEF T
    <2>4. x # 0
        BY <2>3
    <2>5. x \in 1..k /\ x - 1 \in 0..k /\ ~(x <= x - 1)
        BY <2>3, <2>4
    <2>6. x - 1 \notin T
        BY <2>2, <2>5
    <2>7. f[x - 1] = v[x - 1]
        BY <2>5, <2>6 DEF T
    <2> QED
        BY <2>3, <2>5, <2>7
<1> QED
    BY <1>1

\* What decisions have made of the service is what they have made of the world.
Tells(f, g, t, k) ==
    /\ f[0] = History!Unstarted /\ g[0] = Outset
    /\ \A n \in 1..k : f[n] = History!Effect(f[n - 1], t[n])
    /\ \A n \in 1..k : g[n].service = History!Effect(g[n - 1].service, t[n])

LEMMA RetoldAlike ==
    ASSUME NEW k \in Nat, NEW g, NEW t, NEW f, Tells(f, g, t, k)
    PROVE  \A m \in 0..k : f[m] = g[m].service
<1>1. PICK v : v = [n \in 0..k |-> g[n].service]
    OBVIOUS
<1>2. f[0] = v[0]
    BY <1>1 DEF Tells, Outset
<1>3. ASSUME NEW n \in 1..k, f[n - 1] = v[n - 1] PROVE f[n] = v[n]
    <2>1. n \in 0..k /\ n - 1 \in 0..k
        OBVIOUS
    <2> QED
        BY <1>1, <1>3, <2>1 DEF Tells
<1>4. GoAlike(f, v, k)
    BY <1>2, <1>3 DEF GoAlike
<1>5. \A n \in 0..k : f[n] = v[n]
    BY <1>4, ToldAlike
<1> QED
    BY <1>1, <1>5

LEMMA HistoryRollsBack ==
    ASSUME NEW g, Tale(g), Len(log) \in Nat, org.seq \in 0..Len(log), UNCHANGED Told,
           NEW m \in 0..org.seq, org'.seq = m, Shown(org', holds') = g[m].service
    PROVE  History!Rollback
<1>1. PICK t, k : t = Told /\ k = org.seq
    OBVIOUS
<1>2. \A n \in 1..k : t[n] = Deed(log[n])
    BY <1>1 DEF Told
<1>3. g[0] = Outset /\ \A n \in 1..k : g[n].service = History!Effect(g[n - 1].service, t[n])
    <2>1. \A n \in 1..k : n \in 1..Len(log)
        BY <1>1
    <2>2. ASSUME NEW n \in 1..k
          PROVE  g[n].service = History!Effect(g[n - 1].service, t[n])
        <3>1. g[n] = Onward(g[n - 1], log[n], Deed(log[n])) /\ t[n] = Deed(log[n])
            BY <1>2, <2>1 DEF Tale
        <3> QED
            BY <3>1 DEF Onward
    <2> QED
        BY <2>2 DEF Tale
<1> DEFINE shown[n \in 0..org.seq] ==
               IF n = 0 THEN History!Unstarted
               ELSE History!Effect(shown[n - 1],
                        [q \in 1..Len(log) |-> IF log[q] \in DOMAIN restore.events
                                               THEN restore.events[log[q]]
                                               ELSE ops[log[q]].data][n])
<1>4. shown = [n \in 0..org.seq |->
                   IF n = 0 THEN History!Unstarted
                   ELSE History!Effect(shown[n - 1],
                            [q \in 1..Len(log) |-> IF log[q] \in DOMAIN restore.events
                                                   THEN restore.events[log[q]]
                                                   ELSE ops[log[q]].data][n])]
    <2>1. PICK f : f = [n \in 0..org.seq |-> g[n].service]
        OBVIOUS
    <2>2. f[0] = History!Unstarted
        BY <1>1, <1>3, <2>1 DEF Outset
    <2>3. ASSUME NEW n \in 0..org.seq, n # 0
          PROVE  f[n] = History!Effect(f[n - 1],
                            [q \in 1..Len(log) |-> IF log[q] \in DOMAIN restore.events
                                                   THEN restore.events[log[q]]
                                                   ELSE ops[log[q]].data][n])
        <3>1. n \in 1..k /\ n - 1 \in 0..org.seq
            BY <1>1, <2>3
        <3>2. f[n] = History!Effect(f[n - 1], t[n])
            BY <1>3, <2>1, <3>1
        <3>3. t[n] = [q \in 1..Len(log) |-> IF log[q] \in DOMAIN restore.events
                                            THEN restore.events[log[q]]
                                            ELSE ops[log[q]].data][n]
            BY <1>1, Zenon DEF Told, Deed
        <3> QED
            BY <3>2, <3>3, Zenon
    <2>4. f = [n \in 0..org.seq |->
                   IF n = 0 THEN History!Unstarted
                   ELSE History!Effect(f[n - 1],
                            [q \in 1..Len(log) |-> IF log[q] \in DOMAIN restore.events
                                                   THEN restore.events[log[q]]
                                                   ELSE ops[log[q]].data][n])]
        <3>1. f = [n \in 0..org.seq |-> f[n]]
            BY <2>1
        <3>2. \A n \in 0..org.seq :
                 f[n] = IF n = 0 THEN History!Unstarted
                        ELSE History!Effect(f[n - 1],
                                 [q \in 1..Len(log) |-> IF log[q] \in DOMAIN restore.events
                                                        THEN restore.events[log[q]]
                                                        ELSE ops[log[q]].data][n])
            BY <2>2, <2>3, ZenonT(30)
        <3> QED
            BY <3>1, <3>2, ZenonT(30)
    <2> QED
        BY <2>4, ZenonT(30)
<1>5. PICK f : f = shown
    OBVIOUS
<1>6. f[m] = g[m].service
    <2> HIDE DEF shown
    <2>1. k \in Nat /\ m \in 0..k
        BY <1>1
    <2>2. f[0] = History!Unstarted
        BY <1>4, <1>5
    <2>3. ASSUME NEW n \in 1..k PROVE f[n] = History!Effect(f[n - 1], t[n])
        <3>1. n \in 0..org.seq /\ n # 0
            BY <1>1
        <3>2. f[n] = History!Effect(f[n - 1],
                         [q \in 1..Len(log) |-> IF log[q] \in DOMAIN restore.events
                                                THEN restore.events[log[q]]
                                                ELSE ops[log[q]].data][n])
            BY <1>4, <1>5, <3>1
        <3> QED
            BY <1>1, <3>2 DEF Told, Deed
    <2>4. \A n \in 1..k : f[n] = History!Effect(f[n - 1], t[n])
        BY <2>3
    <2>5. Tells(f, g, t, k)
        BY <1>3, <2>2, <2>4 DEF Tells
    <2>6. \A n \in 0..k : f[n] = g[n].service
        <3>1. k \in Nat
            BY <2>1
        <3> QED
            BY <2>5, <3>1, RetoldAlike
    <2> QED
        BY <2>1, <2>6
<1>7. org'.seq = m /\ Shown(org', holds') = shown[m] /\ UNCHANGED Told
    BY <1>5, <1>6
<1> QED
    BY <1>7 DEF History!Rollback, Told, Deed, Shown

-----------------------------------------------------------------------------
(* The tale while a restore rebuilds the database. *)

Retold(g) == /\ Tale(g) /\ org.seq <= Len(log) /\ Reads(g[org.seq], org, holds, ops)
             /\ Settled(org.seq, ops)
             /\ restore.events = [i \in Accepted |-> restore.events[i]]

\* The decision that the replay has come to is the next one.
AtEvent == org.seq = restore.n - 1 /\ ops[Event].data = restore.events[Event]

\* The purge that is executed; its decision joins the history one ahead.
Executes(x) ==
    /\ x.pc \in {"quiesce", "append"} => ops[x.op].status # "rejected"
    /\ x.pc = "finalize" => ops[x.op].data.action = "start"
    /\ x.pc = "head" => x.op \in Pending /\ ~InLog(x.op)
    /\ x.pc \in {"receipt", "apply"} => InLog(x.op)
    /\ \/ Len(log) = org.seq
       \/ /\ Len(log) = org.seq + 1 /\ x.pc \in {"receipt", "apply", "failing", "idle"}
          /\ x.pc \in {"receipt", "apply"} => /\ log[Len(log)] = x.op /\ x.op \in Pending
                                              /\ ops[x.op].data = restore.events[x.op]

Restoring ==
    /\ restore.at \in {"markers", "project"} => AtEvent
    /\ restore.at = "applying" => /\ restore.n <= Len(log)
                                  /\ proc[Restorer].pc \in {"apply", "idle"}
                                  /\ At(Restorer, "apply") => AtEvent /\ proc[Restorer].op = Event
    /\ restore.at = "run" => org.seq = Len(log)
    /\ restore.at = "purging" => Executes(proc[Purger])

Rebuilding(g) == RInv /\ restore.at # "live" /\ Retold(g) /\ Restoring

LEMMA DisasterRollsBack ==
    ASSUME NEW g, RInv, Present(g), Disaster
    PROVE  Retold(g)' /\ Restoring' /\ History!Rollback
<1>1. /\ saved # None /\ org' = saved.org /\ ops' = saved.ops /\ holds' = saved.holds
      /\ UNCHANGED log /\ RestoreRow
    BY DEF Disaster, RInv, RestoreRow
<1>2. PICK e : e = Events(Accepted)
    OBVIOUS
<1>3. restore' = [restore EXCEPT !.at = "history", !.disasters = 0, !.events = e]
    BY <1>2 DEF Disaster
<1>4. restore'.at = "history" /\ restore'.events = e
    BY <1>1, <1>3 DEF RestoreRow, RestoreFields
<1>5. e = [i \in Accepted |-> e[i]] /\ \A i \in Accepted : e[i] = ops[i].data
    BY <1>2 DEF Events
<1>6. ASSUME NEW n \in 1..Len(log) PROVE Deed(log[n])' = Deed(log[n])
    <2>1. PICK i : i = log[n] /\ i \in Accepted
        BY DEF Accepted
    <2>2. Deed(i) = ops[i].data
        BY DEF Deed, Present, Living
    <2>3. Deed(i)' = e[i]
        BY <1>4, <1>5, <2>1 DEF Deed
    <2>4. Deed(log[n])' = Deed(i)'
        BY <1>1, <2>1 DEF Deed
    <2> QED
        BY <1>5, <2>1, <2>2, <2>3, <2>4
<1>7. UNCHANGED Told
    BY <1>1, <1>6, ToldAgain
<1>8. Tale(g)'
    BY <1>1, <1>7, TaleStays DEF Present
<1>9. PICK m : m = saved.org.seq
    OBVIOUS
<1>10. Len(log) \in Nat /\ org.seq \in 0..Len(log) /\ m \in 0..org.seq
    BY <1>1, <1>9, LiveLog DEF Present, Living, Backed
<1>11. Reads(g[m], saved.org, saved.holds, saved.ops) /\ Settled(m, saved.ops)
    BY <1>1, <1>9 DEF Present, Living
<1>12. Reads(g[org.seq], org, holds, ops)' /\ Settled(org.seq, ops)' /\ org'.seq = m
    BY <1>1, <1>9, <1>11 DEF Settled, InLog
<1>13. Accepted' = Accepted
    BY <1>1 DEF Accepted
<1>14. Retold(g)'
    BY <1>1, <1>4, <1>5, <1>8, <1>10, <1>12, <1>13 DEF Retold
<1>15. Restoring'
    BY <1>4 DEF Restoring
<1>16. Shown(org', holds') = g[m].service
    BY <1>1, <1>11 DEF Reads
<1>17. Tale(g)
    BY DEF Present
<1>18. History!Rollback
    BY <1>7, <1>10, <1>12, <1>16, <1>17, HistoryRollsBack
<1> QED
    BY <1>14, <1>15, <1>18

LEMMA RetoldRests ==
    ASSUME NEW g, Retold(g), UNCHANGED <<org, holds, ops, log>>, restore'.events = restore.events
    PROVE  Retold(g)' /\ Mute
<1>1. UNCHANGED Told
    BY DEF Told, Deed
<1>2. Tale(g)'
    BY <1>1, TaleStays DEF Retold
<1>3. Reads(g[org.seq], org, holds, ops)' /\ Settled(org.seq, ops)'
    BY DEF Retold, Settled, InLog
<1>4. Accepted' = Accepted
    BY DEF Accepted
<1> QED
    BY <1>1, <1>2, <1>3, <1>4 DEF Retold, Mute

LEMMA RebuildingNumbers ==
    ASSUME NEW g, Rebuilding(g)
    PROVE  /\ Len(log) \in Nat /\ org.seq \in Nat /\ org.seq <= Len(log) /\ RestoreRow
           /\ OpsRows /\ OrgShape /\ OneDecision /\ Recovering
<1>1. PICK D, l : D = DOMAIN restore.events /\ l = log
    OBVIOUS
<1>2. l \in Seq(D)
    BY <1>1 DEF Rebuilding, RInv, Recovering, Verifications
<1>3. Len(log) \in Nat
    BY <1>1, <1>2
<1> QED
    BY <1>3 DEF Rebuilding, RInv, Recovering, Rebuilt, OrgShape, Retold, RestoreRow

\* The command goes on and leaves the organization's state alone.
LEMMA CommandRests ==
    ASSUME NEW g, Rebuilding(g), UNCHANGED <<org, holds, ops, log>>, NEW a, GoTo(a), Restoring'
    PROVE  (\E h : Retold(h)') /\ Restoring' /\ Mute
BY GoesTo, RetoldRests, RebuildingNumbers DEF Rebuilding

LEMMA RerunRests ==
    ASSUME NEW g, Rebuilding(g), Rerun
    PROVE  Retold(g)' /\ Restoring' /\ Mute
<1>1. PICK m : m = restore.reruns + 1
    OBVIOUS
<1>2. restore' = [restore EXCEPT !.at = "history", !.n = 1, !.reruns = m] /\ RestoreRow
    BY <1>1, RebuildingNumbers DEF Rerun
<1>3. restore'.at = "history" /\ restore'.events = restore.events
    BY <1>2 DEF RestoreRow, RestoreFields
<1> QED
    BY <1>3, RetoldRests DEF Rebuilding, Rerun, Restoring, orgVars, history

LEMMA HistoryRepairRests ==
    ASSUME NEW g, Rebuilding(g), RepairInterruptedReceipt \/ ReconstructHead
    PROVE  (\E h : Retold(h)') /\ Restoring' /\ Mute
<1>1. UNCHANGED <<org, holds, ops, log>> /\ \E a \in {"head", "events"} : GoTo(a)
    BY DEF RepairInterruptedReceipt, ReconstructHead, vars, orgVars
<1>2. PICK a \in {"head", "events"} : GoTo(a)
    BY <1>1
<1>3. Restoring'
    BY <1>2, GoesTo, RebuildingNumbers DEF Restoring
<1> QED
    BY <1>1, <1>2, <1>3, CommandRests

-----------------------------------------------------------------------------
(* The replay. *)

RetellsOn == (\E h : Retold(h)') /\ Restoring' /\ (Mute \/ History!Accept \/ History!Project)

LEMMA EventTold ==
    ASSUME NEW g, Rebuilding(g), restore.n <= Len(log)
    PROVE  /\ Event \in DOMAIN restore.events /\ Event \in Accepted
           /\ Deed(Event) = restore.events[Event] /\ IsData(restore.events[Event])
           /\ g[restore.n] = Onward(g[restore.n - 1], Event, Deed(Event))
           /\ Fitting(g[restore.n - 1], Event, Deed(Event)) /\ Sound(g[restore.n - 1])
<1>1. PICK n : n = restore.n /\ n \in 1..Len(log) /\ Event = log[n]
    BY RebuildingNumbers DEF RestoreRow, Event
<1>2. Event \in DOMAIN restore.events /\ IsData(restore.events[Event])
    BY EventVerified DEF Rebuilding
<1>3. /\ g[n] = Onward(g[n - 1], log[n], Deed(log[n])) /\ Fitting(g[n - 1], log[n], Deed(log[n]))
      /\ n - 1 \in 0..Len(log)
    BY <1>1, RebuildingNumbers DEF Rebuilding, Retold, Tale
<1>4. Sound(g[n - 1])
    BY <1>3 DEF Rebuilding, Retold, Tale
<1> QED
    BY <1>1, <1>2, <1>3, <1>4 DEF Deed, Rebuilding, Retold

\* The operation that stands for the event is staged again, in place of what was pending.
LEMMA EventStaged ==
    ASSUME NEW g, Rebuilding(g), restore.n <= Len(log), org.seq = restore.n - 1,
           Event \notin DOMAIN ops, UNCHANGED <<org, holds, log>>, GoTo("markers"),
           ops' = With(Fenced, Event, Row(restore.events[Event], "pending", restore.n - 1))
    PROVE  Retold(g)' /\ Restoring' /\ Mute
<1>1. PICK n, i, d, w : n = restore.n /\ i = Event /\ d = restore.events[i] /\ w = g[org.seq]
    OBVIOUS
<1>2. /\ i \in DOMAIN restore.events /\ Deed(i) = d /\ IsData(d) /\ Fitting(w, i, d)
      /\ n \in Nat
    BY <1>1, EventTold, RebuildingNumbers DEF RestoreRow
<1>3. PICK o : o = Row(d, "pending", n - 1)
    OBVIOUS
<1>4. o.status = "pending" /\ o.data = d
    BY <1>3 DEF Row
<1>5. PICK f : f = Fenced
    OBVIOUS
<1>6. /\ DOMAIN f = DOMAIN ops
      /\ \A j \in DOMAIN ops : /\ f[j].status # "pending"
                               /\ ops[j].status # "pending" => f[j] = ops[j]
    <2>1. OpsRows
        BY RebuildingNumbers
    <2>2. f = [j \in DOMAIN ops |-> IF j \in Pending THEN [ops[j] EXCEPT !.status = "rejected"]
                                    ELSE ops[j]]
        BY <1>5 DEF Fenced
    <2>3. ASSUME NEW x, IsOp(x), NEW y, y = [x EXCEPT !.status = "rejected"]
          PROVE  y.status = "rejected"
        BY <2>3 DEF IsOp, OpFields
    <2> QED
        BY <2>1, <2>2, <2>3 DEF OpsRows, Pending
<1>7. /\ DOMAIN ops' = DOMAIN ops \cup {i} /\ ops'[i] = o
      /\ \A j \in DOMAIN ops : ops'[j] = f[j]
    BY <1>1, <1>3, <1>5, <1>6 DEF With
<1>8. restore'.at = "markers" /\ restore'.n = n /\ restore'.events = restore.events
    BY <1>1, GoesTo, RebuildingNumbers
<1>9. UNCHANGED Told
    <2>1. \A m \in 1..Len(log) : log[m] \in DOMAIN restore.events
        BY DEF Rebuilding, Retold, Accepted
    <2> QED
        BY <1>8, <2>1 DEF Told, Deed
<1>10. Tale(g)'
    BY <1>9, TaleStays DEF Rebuilding, Retold
<1>11. Reads(w, org', holds', ops')
    <2>1. Reads(w, org, holds, ops)
        BY <1>1 DEF Rebuilding, Retold
    <2> QED
        BY <1>2, <1>4, <1>6, <1>7, <2>1 DEF Reads
<1>12. Settled(org.seq, ops)'
    <2>1. Settled(org.seq, ops)
        BY DEF Rebuilding, Retold
    <2>2. \A m \in 1..org.seq : log[m] \in DOMAIN ops' /\ ops'[log[m]].status = "applied"
        BY <1>6, <1>7, <2>1 DEF Settled
    <2>3. \A j \in DOMAIN ops' : ops'[j].status = "applied" => InLog(j)
        <3>1. ASSUME NEW j \in DOMAIN ops, f[j].status = "applied" PROVE InLog(j)
            <4>1. CASE ops[j].status = "pending"
                <5>1. f[j].status = "rejected"
                    <6>1. OpsRows /\ j \in Pending
                        BY <4>1, RebuildingNumbers DEF Pending
                    <6>2. f[j] = [ops[j] EXCEPT !.status = "rejected"]
                        BY <1>5, <6>1 DEF Fenced
                    <6> QED
                        BY <6>1, <6>2 DEF OpsRows, IsOp, OpFields
                <5> QED
                    BY <3>1, <5>1
            <4>2. CASE ops[j].status # "pending"
                BY <1>6, <2>1, <3>1, <4>2 DEF Settled
            <4> QED
                BY <4>1, <4>2
        <3> QED
            BY <1>4, <1>7, <3>1
    <2> QED
        BY <2>2, <2>3 DEF Settled, InLog
<1>13. Retold(g)'
    BY <1>1, <1>8, <1>10, <1>11, <1>12 DEF Rebuilding, Retold, Accepted
<1>14. Restoring'
    BY <1>1, <1>4, <1>7, <1>8 DEF Restoring, AtEvent, Event
<1> QED
    BY <1>9, <1>13, <1>14 DEF Mute

LEMMA EnsureOperationRetells ==
    ASSUME NEW g, Rebuilding(g), EnsureOperation
    PROVE  RetellsOn
<1>1. /\ restore.at = "events" /\ restore.n \in Nat /\ restore.n > 0
      /\ Len(log) \in Nat /\ org.seq \in Nat /\ RestoreRow
      /\ restore.n <= Len(log) /\ (org.status = "gone" \/ org.seq >= restore.n - 1)
    <2>1. restore.at = "events" /\ ~(restore.n > Len(log))
        BY DEF EnsureOperation, Stage_, Replayed
    <2> QED
        BY <2>1, RebuildingNumbers DEF RestoreRow, Recovering, Replaying
<1>2. UNCHANGED <<org, holds, log>>
    BY DEF EnsureOperation, orgVars, history
<1>3. PICK n, i, d : n = restore.n /\ i = Event /\ d = restore.events[i]
    OBVIOUS
<1>4. CASE restore' = [restore EXCEPT !.n = n + 1] /\ UNCHANGED ops
    <2>1. restore'.at = "events" /\ restore'.events = restore.events
        BY <1>1, <1>3, <1>4, NextEvent
    <2> QED
        BY <1>2, <1>4, <2>1, RetoldRests DEF Rebuilding, RetellsOn, Restoring
<1>5. CASE Hold /\ UNCHANGED ops
    <2>1. GoTo("held") /\ Restoring'
        BY <1>1, <1>5, GoesTo DEF Hold, Restoring
    <2> QED
        BY <1>2, <1>5, <2>1, CommandRests DEF RetellsOn
<1>6. CASE /\ ~(org.status = "gone" \/ org.seq >= n) /\ UNCHANGED ops
           /\ ops[i] = Row(d, "pending", n - 1) /\ GoTo("markers")
    <2>1. org.seq = n - 1 /\ ops[i].data = d
        BY <1>1, <1>3, <1>6 DEF Row
    <2>2. /\ restore'.at = "markers" /\ restore'.n = n /\ restore'.events = restore.events
        BY <1>1, <1>3, <1>6, GoesTo
    <2>3. Restoring'
        BY <1>2, <1>3, <1>6, <2>1, <2>2 DEF Restoring, AtEvent, Event
    <2> QED
        BY <1>2, <1>6, <2>3, CommandRests DEF RetellsOn
<1>7. CASE /\ ~(org.status = "gone" \/ org.seq >= n) /\ i \notin DOMAIN ops
           /\ ops' = With(Fenced, i, Row(d, "pending", n - 1)) /\ GoTo("markers")
    <2>1. org.seq = restore.n - 1
        BY <1>1, <1>3, <1>7
    <2> QED
        BY <1>1, <1>2, <1>3, <1>7, <2>1, EventStaged DEF RetellsOn
<1>8. \/ restore' = [restore EXCEPT !.n = n + 1] /\ UNCHANGED ops
      \/ Hold /\ UNCHANGED ops
      \/ /\ ~(org.status = "gone" \/ org.seq >= n) /\ UNCHANGED ops
         /\ ops[i] = Row(d, "pending", n - 1) /\ GoTo("markers")
      \/ /\ ~(org.status = "gone" \/ org.seq >= n) /\ i \notin DOMAIN ops
         /\ ops' = With(Fenced, i, Row(d, "pending", n - 1)) /\ GoTo("markers")
    BY <1>3 DEF EnsureOperation, Hold, GoTo
<1> QED
    BY <1>4, <1>5, <1>6, <1>7, <1>8

LEMMA MarkersBeforePurgeRetell ==
    ASSUME NEW g, Rebuilding(g), MarkersBeforePurge
    PROVE  RetellsOn
<1>1. UNCHANGED <<org, holds, ops, log>> /\ restore.at = "markers"
    BY DEF MarkersBeforePurge, Stage_, history
<1>2. PICK a \in {"project", "held"} : GoTo(a)
    BY DEF MarkersBeforePurge, Hold
<1>3. restore'.at = a /\ restore'.n = restore.n /\ restore'.events = restore.events
    BY <1>2, GoesTo, RebuildingNumbers
<1>4. Restoring'
    BY <1>1, <1>3 DEF Rebuilding, Restoring, AtEvent, Event
<1> QED
    BY <1>1, <1>2, <1>4, CommandRests DEF RetellsOn

LEMMA ApplyFunctionRetells ==
    ASSUME NEW g, Rebuilding(g), ApplySimple \/ ReplayPurgeEvent
    PROVE  RetellsOn
<1>1. UNCHANGED <<org, holds, ops, log>> /\ restore.at = "project"
    BY DEF ApplySimple, ReplayPurgeEvent, Stage_, orgVars, history
<1>2. CASE GoTo("held")
    <2>1. Restoring'
        BY <1>2, GoesTo, RebuildingNumbers DEF Restoring
    <2> QED
        BY <1>1, <1>2, <2>1, CommandRests DEF RetellsOn
<1>3. CASE GoTo("applying") /\ proc' = [proc EXCEPT ![Restorer] = Replayer]
    <2>1. restore'.at = "applying" /\ restore'.n = restore.n /\ restore'.events = restore.events
        BY <1>3, GoesTo, RebuildingNumbers
    <2>2. restore.n <= Len(log) /\ AtEvent
        BY <1>1 DEF Rebuilding, RInv, Recovering, Replaying, Restoring
    <2>3. PICK d : d = restore.events[Event] /\ IsData(d)
        BY <2>2, EventTold
    <2>4. PICK x : x = Replayer
        OBVIOUS
    <2>5. x.pc = "apply" /\ x.op = Event
        BY <2>3, <2>4 DEF Replayer, Idle
    <2>6. proc'[Restorer] = x
        BY <1>3, <2>4, Constants DEF Restorer, Rebuilding, RInv, Recovering, Workers, ProcRows
    <2>7. AtEvent' /\ Event' = Event
        BY <1>1, <2>1, <2>2 DEF AtEvent, Event
    <2>8. Restoring'
        BY <1>1, <2>1, <2>2, <2>5, <2>6, <2>7 DEF Restoring, At
    <2> QED
        BY <1>1, <1>3, <2>8, CommandRests DEF RetellsOn
<1> QED
    BY <1>2, <1>3 DEF ApplySimple, ReplayPurgeEvent, Hold

\* The next decision is projected.
LEMMA RetoldProjects ==
    ASSUME NEW g, Retold(g), OpsRows, Len(log) \in Nat, org.seq \in Nat, NEW k, k = org.seq + 1,
           k <= Len(log), NEW i \in Pending, log[k] = i, ops[i].data = restore.events[i],
           UNCHANGED log, restore'.events = restore.events, org'.seq = k,
           ops' = [ops EXCEPT ![i].status = "applied"],
           Reads(Onward(g[org.seq], i, ops[i].data), org', holds', ops')
    PROVE  Retold(g)' /\ History!Project
<1>1. PICK o : o = [ops[i] EXCEPT !.status = "applied"]
    OBVIOUS
<1>2. i \in DOMAIN ops /\ IsOp(ops[i])
    BY DEF OpsRows, Pending
<1>3. o.status = "applied"
    BY <1>1, <1>2 DEF IsOp, OpFields
<1>4. ops' = [ops EXCEPT ![i] = o]
    BY <1>1
<1>5. /\ DOMAIN ops' = DOMAIN ops /\ ops'[i] = o
      /\ \A j \in DOMAIN ops : j # i => ops'[j] = ops[j]
    BY <1>2, <1>4 DEF OpsRows
<1>6. k \in 1..Len(log) /\ k - 1 = org.seq /\ InLog(i) /\ i \in Accepted
    BY DEF InLog, Accepted
<1>7. UNCHANGED Told
    <2>1. \A m \in 1..Len(log) : log[m] \in DOMAIN restore.events
        BY DEF Retold, Accepted
    <2> QED
        BY <2>1 DEF Told, Deed
<1>8. Tale(g)'
    BY <1>7, TaleStays DEF Retold
<1>9. PICK d : d = ops[i].data /\ Deed(i) = d
    BY <1>6 DEF Deed, Retold
<1>10. g[k] = Onward(g[org.seq], i, d)
    <2>1. g[k] = Onward(g[k - 1], log[k], Deed(log[k]))
        BY <1>6 DEF Retold, Tale
    <2> QED
        BY <1>6, <1>9, <2>1
<1>11. Reads(g[org.seq], org, holds, ops)'
    BY <1>9, <1>10
<1>12. Settled(org.seq, ops)'
    <2>1. Settled(org.seq, ops)
        BY DEF Retold
    <2>2. ASSUME NEW m \in 1..k PROVE log[m] \in DOMAIN ops' /\ ops'[log[m]].status = "applied"
        <3>1. CASE m = k
            BY <1>2, <1>3, <1>5, <3>1
        <3>2. CASE m # k
            <4>1. m \in 1..org.seq
                BY <3>2
            <4>2. log[m] \in DOMAIN ops /\ ops[log[m]].status = "applied"
                BY <2>1, <4>1 DEF Settled
            <4> QED
                BY <1>3, <1>5, <4>2
        <3> QED
            BY <3>1, <3>2
    <2>3. \A j \in DOMAIN ops' : ops'[j].status = "applied" => InLog(j)
        BY <1>5, <1>6, <2>1 DEF Settled
    <2> QED
        BY <2>2, <2>3 DEF Settled, InLog
<1>13. Retold(g)'
    BY <1>6, <1>8, <1>11, <1>12 DEF Retold, Accepted
<1>14. History!Project
    <2>1. PICK w, v : w = g[org.seq] /\ v = g[k]
        OBVIOUS
    <2>2. Shown(org, holds) = w.service /\ Shown(org', holds') = v.service
        BY <1>9, <1>10, <2>1 DEF Retold, Reads
    <2>3. v.service = History!Effect(w.service, Deed(log[k]))
        BY <1>9, <1>10, <2>1 DEF Onward
    <2>4. Shown(org', holds') = History!Effect(Shown(org, holds), Deed(log[org.seq + 1]))
        BY <2>2, <2>3
    <2> QED
        BY <1>6, <1>7, <2>4, HistoryProjects
<1> QED
    BY <1>13, <1>14

LEMMA AppliesEnd ==
    ASSUME NEW p, Applies(p)
    PROVE  Raise(p) \/ (At(p, "apply") /\ After(p))
BY DEF Applies, ApplyTerm, ApplyExpiry, ApplyStart, ApplyCancel, ApplyPolicy,
       ApplyExtension, ApplyRestriction, ApplyRelease, ApplyState, ApplyClaim,
       ApplyAuthorization, ApplyCompletion, ApplyFinal, AlreadyApplied, Stale, Projects

LEMMA ProjectRetells ==
    ASSUME NEW g, Rebuilding(g), Project
    PROVE  RetellsOn
<1>1. PICK p, w : p = Restorer /\ w = g[org.seq]
    OBVIOUS
<1>2. /\ restore.at = "applying" /\ proc[p].pc = "apply" /\ Applies(p) /\ UNCHANGED restore
      /\ p \in Processes /\ p # Purger
    BY <1>1, Constants DEF Project, Stage_, At, restoreVars, Restorer
<1>3. /\ restore.n \in Nat /\ restore.n <= Len(log) /\ org.seq = restore.n - 1
      /\ ops[Event].data = restore.events[Event] /\ proc[p].op = Event
    BY <1>1, <1>2, RebuildingNumbers DEF Rebuilding, Restoring, At, AtEvent, RestoreRow
<1>4. proc[p].op \in DOMAIN ops /\ ProcRows
    BY <1>2 DEF Rebuilding, RInv, Recovering, Workers, Driving, Decided
<1>5. Sound(w) /\ Reads(w, org, holds, ops)
    BY <1>1, RebuildingNumbers DEF Rebuilding, Retold, Tale
<1>6. proc'[p].pc = "idle"
    <2>1. proc' = [proc EXCEPT ![p] = Idle]
        BY <1>2, AppliesEnd DEF Raise, After, Done
    <2> QED
        BY <1>2, <1>4, <2>1 DEF ProcRows, Idle
<1>7. CASE UNCHANGED <<org, holds, ops, log>>
    <2>1. Retold(g)' /\ Mute
        BY <1>2, <1>7, RetoldRests DEF Rebuilding
    <2>2. Restoring'
        BY <1>1, <1>2, <1>3, <1>6, <1>7 DEF Restoring, At
    <2> QED
        BY <2>1, <2>2 DEF RetellsOn
<1>8. CASE /\ proc[p].op \in Pending /\ log' = log
           /\ ops' = [ops EXCEPT ![proc[p].op].status = "applied"]
           /\ Reads(Onward(w, proc[p].op, Data(p)), org', holds', ops')
           /\ org'.seq = org.seq + 1
    <2>1. PICK i, k : i = Event /\ k = restore.n
        OBVIOUS
    <2>2. /\ i \in Pending /\ log[k] = i /\ k = org.seq + 1 /\ ops[i].data = restore.events[i]
          /\ ops' = [ops EXCEPT ![i].status = "applied"] /\ org'.seq = k
        BY <1>3, <1>8, <2>1, RebuildingNumbers DEF Event
    <2>3. Reads(Onward(g[org.seq], i, ops[i].data), org', holds', ops')
        BY <1>1, <1>3, <1>8, <2>1 DEF Data
    <2>4. Retold(g)' /\ History!Project
        <3>1. /\ Retold(g) /\ OpsRows /\ Len(log) \in Nat /\ org.seq \in Nat /\ k <= Len(log)
              /\ UNCHANGED log /\ restore'.events = restore.events
            BY <1>2, <1>3, <1>8, <2>1, RebuildingNumbers DEF Rebuilding
        <3> QED
            BY <2>2, <2>3, <3>1, RetoldProjects
    <2>5. Restoring'
        BY <1>1, <1>2, <1>3, <1>6, <1>8 DEF Restoring, At
    <2> QED
        BY <2>4, <2>5 DEF RetellsOn
<1>9. OpsRows /\ OrgShape /\ OneDecision
    BY RebuildingNumbers
<1> QED
    BY <1>2, <1>4, <1>5, <1>7, <1>8, <1>9, AppliedTurns

LEMMA ProjectedRetells ==
    ASSUME NEW g, Rebuilding(g), Projected
    PROVE  RetellsOn
<1>1. UNCHANGED <<org, holds, ops, log>> /\ RestoreRow
    BY RebuildingNumbers DEF Projected, vars, orgVars, history
<1>2. CASE Hold
    <2>1. GoTo("held") /\ Restoring'
        BY <1>1, <1>2, GoesTo DEF Hold, Restoring
    <2> QED
        BY <1>1, <2>1, CommandRests DEF RetellsOn
<1>3. CASE restore' = [restore EXCEPT !.at = "events", !.n = @ + 1]
    <2>1. PICK m : m = restore.n + 1
        OBVIOUS
    <2>2. restore' = [restore EXCEPT !.at = "events", !.n = m]
        BY <1>3, <2>1
    <2>3. restore'.at = "events" /\ restore'.events = restore.events
        BY <1>1, <2>2 DEF RestoreRow, RestoreFields
    <2> QED
        BY <1>1, <2>3, RetoldRests DEF Rebuilding, RetellsOn, Restoring
<1> QED
    BY <1>2, <1>3 DEF Projected

\* The replay has come to the end of the history: nothing follows the organization's.
LEMMA AllReplayed ==
    ASSUME NEW g, Rebuilding(g), restore.at = "events", Replayed
    PROVE  org.seq = Len(log)
<1>1. /\ restore.n > Len(log) /\ restore.n \in Nat
      /\ Len(log) \in Nat /\ org.seq \in Nat /\ org.seq <= Len(log)
      /\ org.status = "gone" \/ org.seq >= restore.n - 1
    BY RebuildingNumbers DEF Replayed, RestoreRow, Recovering, Replaying
<1>2. CASE org.seq >= restore.n - 1
    BY <1>1, <1>2
<1>3. CASE org.status = "gone"
    <2> SUFFICES ASSUME org.seq < Len(log) PROVE FALSE
        BY <1>1
    <2>1. PICK k, w, i : k = org.seq + 1 /\ w = g[org.seq] /\ i = log[k]
        OBVIOUS
    <2>2. k \in 1..Len(log) /\ k - 1 = org.seq /\ org.seq \in 0..Len(log)
        BY <1>1, <2>1
    <2>3. Fitting(w, i, Deed(i)) /\ Sound(w)
        <3>1. Fitting(g[k - 1], log[k], Deed(log[k])) /\ Sound(g[org.seq])
            BY <2>2 DEF Rebuilding, Retold, Tale
        <3> QED
            BY <2>1, <2>2, <3>1
    <2>4. w.service.status = org.status
        BY <2>1, <2>3, WorldShown DEF Rebuilding, Retold
    <2> QED
        BY <1>3, <2>3, <2>4, NothingAfterEnd
<1> QED
    BY <1>1, <1>2, <1>3

LEMMA ReplayMarkersRetell ==
    ASSUME NEW g, Rebuilding(g), ReplayMarkers
    PROVE  RetellsOn
<1>1. UNCHANGED <<org, holds, ops, log>> /\ org.seq = Len(log)
    BY AllReplayed DEF ReplayMarkers, Stage_, history
<1>2. PICK a \in {"run", "held"} : GoTo(a)
    BY DEF ReplayMarkers, Hold
<1>3. Restoring'
    BY <1>1, <1>2, GoesTo, RebuildingNumbers DEF Restoring
<1> QED
    BY <1>1, <1>2, <1>3, CommandRests DEF RetellsOn

\* The stages in which nothing is required of the replay any more.
LEMMA CommandEndsRetell ==
    ASSUME NEW g, Rebuilding(g),
           RunEnds \/ NoFence \/ ReplayRemainingMarkers \/ ReconcileObjects
    PROVE  RetellsOn
<1>1. UNCHANGED <<org, holds, ops, log>>
    BY DEF RunEnds, NoFence, ReplayRemainingMarkers, ReconcileObjects, vars, orgVars, history
<1>2. PICK a \in {"fence", "rest", "objects", "done", "held"} : GoTo(a)
    BY DEF RunEnds, NoFence, ReplayRemainingMarkers, ReconcileObjects, Hold
<1>3. Restoring'
    BY <1>2, GoesTo, RebuildingNumbers DEF Restoring
<1> QED
    BY <1>1, <1>2, <1>3, CommandRests DEF RetellsOn

LEMMA ResumeRunRetells ==
    ASSUME NEW g, Rebuilding(g), ResumeRun
    PROVE  RetellsOn
<1>1. UNCHANGED <<org, holds, ops, log>> /\ org.seq = Len(log)
    BY DEF ResumeRun, Stage_, orgVars, history, Rebuilding, Restoring
<1>2. CASE GoTo("fence") \/ GoTo("held")
    <2>1. PICK a \in {"fence", "held"} : GoTo(a)
        BY <1>2
    <2>2. Restoring'
        BY <2>1, GoesTo, RebuildingNumbers DEF Restoring
    <2> QED
        BY <1>1, <2>1, <2>2, CommandRests DEF RetellsOn
<1>3. CASE /\ GoTo("purging")
           /\ proc' = [proc EXCEPT ![Purger] = [Worker(run.episode) EXCEPT !.pc = "inventory"]]
    <2>1. PICK w, x : w = Worker(run.episode) /\ x = [w EXCEPT !.pc = "inventory"]
        OBVIOUS
    <2>2. x.pc = "inventory"
        BY <2>1 DEF Worker, Idle
    <2>3. proc'[Purger] = x
        BY <1>3, <2>1, Constants DEF Rebuilding, RInv, Recovering, Workers, ProcRows
    <2>4. Executes(proc[Purger])'
        BY <1>1, <2>2, <2>3 DEF Executes
    <2>5. Restoring'
        BY <1>3, <2>4, GoesTo, RebuildingNumbers DEF Restoring
    <2> QED
        BY <1>1, <1>3, <2>5, CommandRests DEF RetellsOn
<1> QED
    BY <1>2, <1>3 DEF ResumeRun, Hold

-----------------------------------------------------------------------------
(* The purge is executed to its end. *)

\* What is known of a step of it.
Executing(g) == Rebuilding(g) /\ restore.at = "purging" /\ ExecuteRun

\* The command follows the history.
LEMMA RunFollows ==
    ASSUME NEW g, Executing(g)
    PROVE  /\ restore'.at = "purging"
           /\ restore'.events = [i \in Accepted' |-> IF i \in DOMAIN restore.events
                                                     THEN restore.events[i] ELSE ops[i].data]
<1>1. PICK e : e = [i \in Accepted' |-> IF i \in DOMAIN restore.events
                                        THEN restore.events[i] ELSE ops[i].data]
    OBVIOUS
<1>2. restore' = [restore EXCEPT !.events = e] /\ RestoreRow
    BY <1>1, RebuildingNumbers DEF Executing, ExecuteRun
<1> QED
    BY <1>1, <1>2 DEF Executing, RestoreRow, RestoreFields

LEMMA RunKeepsEvents ==
    ASSUME NEW g, Executing(g), UNCHANGED log
    PROVE  restore'.events = restore.events /\ restore'.at = "purging"
<1>1. Accepted' = Accepted
    BY DEF Accepted
<1>2. restore.events = [i \in Accepted |-> restore.events[i]]
    BY DEF Executing, Rebuilding, Retold
<1> QED
    BY <1>1, <1>2, RunFollows

LEMMA RunRests ==
    ASSUME NEW g, Executing(g), UNCHANGED <<org, holds, ops, log>>, Executes(proc[Purger])'
    PROVE  RetellsOn
BY RunKeepsEvents, RetoldRests DEF Executing, Rebuilding, Restoring, RetellsOn

\* Where it is nothing is required of the operation.
LEMMA RunAside ==
    ASSUME NEW g, Executing(g), UNCHANGED <<org, ops, log>>, NEW x, Landed(Purger, x),
           \/ x.pc \in {"idle", "failing"}
           \/ x.pc \in Resting \cup {"prepare"} /\ Len(log) = org.seq
    PROVE  Executes(proc[Purger])'
<1>1. proc'[Purger] = x
    BY Constants DEF Landed, Executing, Rebuilding, RInv, Recovering, Workers, ProcRows
<1>2. Len(log) = org.seq \/ Len(log) = org.seq + 1
    BY DEF Executing, Rebuilding, Restoring, Executes
<1>3. x.pc \notin {"quiesce", "append", "finalize", "head", "receipt", "apply"}
    BY DEF Resting
<1> QED
    BY <1>1, <1>2, <1>3 DEF Executes

\* The worker in the rebuilt database.
LEMMA RunWorker ==
    ASSUME NEW g, Executing(g)
    PROVE  /\ ProcRows /\ Purger \in Processes /\ IsProc(proc[Purger])
           /\ proc[Purger].pc \in Driving => proc[Purger].op \in DOMAIN ops
           /\ proc[Purger].pc \in {"prepare"} \cup Driving =>
                  proc[Purger].data.action \in PurgeActions
           /\ Executes(proc[Purger])
BY Constants DEF Executing, Rebuilding, Restoring, RInv, Recovering, Workers, ProcRows, Purging

LEMMA RunRaises ==
    ASSUME NEW g, Executing(g), UNCHANGED <<org, ops, log>>, Raise(Purger) \/ Done(Purger)
    PROVE  Executes(proc[Purger])'
<1>1. CASE Done(Purger)
    <2>1. Landed(Purger, Idle) /\ Idle.pc = "idle"
        BY <1>1, IdleProc DEF Done, Landed
    <2> QED
        BY <2>1, RunAside
<1>2. CASE Raise(Purger)
    <2>1. \E x : Landed(Purger, x) /\ x.pc \in {"idle", "failing"}
        <3>1. CASE proc[Purger].data.action # "claim"
            <4>1. Goto(Purger, "failing")
                BY <1>2, <3>1, RunWorker DEF Raise, Goto, ProcRows
            <4> QED
                BY <4>1, RunWorker, Going
        <3>2. CASE proc[Purger].data.action = "claim"
            <4>1. Landed(Purger, Idle) /\ Idle.pc = "idle"
                BY <1>2, <3>2, IdleProc DEF Raise, Landed
            <4> QED
                BY <4>1
        <3> QED
            BY <3>1, <3>2
    <2> QED
        BY <2>1, RunAside
<1> QED
    BY <1>1, <1>2

\* The staged decision of the run.
LEMMA PurgeStagedRetells ==
    ASSUME NEW g, Executing(g), PreparePurge(Purger)
    PROVE  RetellsOn
<1>1. PICK x, w, i : x = proc[Purger] /\ w = g[org.seq] /\ i = x.op
    OBVIOUS
<1>2. IsProc(x) /\ IsData(x.data) /\ ProcRows /\ Purger \in Processes /\ Executes(x)
    BY <1>1, RunWorker DEF IsProc
<1>3. x.pc = "prepare" /\ i \notin DOMAIN ops
    BY <1>1 DEF PreparePurge, New, At
<1>4. OpsRows /\ Len(log) \in Nat /\ org.seq \in Nat /\ org.seq <= Len(log)
    BY RebuildingNumbers DEF Executing
<1>5. Sound(w) /\ Reads(w, org, holds, ops)
    BY <1>1, <1>4 DEF Executing, Rebuilding, Retold, Tale
<1>6. PICK d : Stage(Purger, d) /\ IsData(d) /\ Fitting(w, i, d)
    BY <1>1, <1>2, <1>5, PurgePlanned
<1>7. PICK o : o = Row(d, "pending", x.seen)
    OBVIOUS
<1>8. IsOp(o) /\ o.data = d /\ o.status = "pending"
    BY <1>2, <1>6, <1>7, RowFields DEF IsProc
<1>9. ops' = With(ops, i, o) /\ UNCHANGED <<org, holds, log>>
    BY <1>1, <1>6, <1>7 DEF Stage, orgVars, history
<1>10. /\ DOMAIN ops' = DOMAIN ops \cup {i} /\ ops'[i] = o
       /\ \A j \in DOMAIN ops : j # i => ops'[j] = ops[j]
    BY <1>9 DEF With
<1>11. Reads(w, org', holds', ops')
    BY <1>3, <1>4, <1>5, <1>6, <1>8, <1>9, ReadsStaged
<1>12. restore'.events = restore.events /\ restore'.at = "purging"
    BY <1>9, RunKeepsEvents
<1>13. UNCHANGED Told
    <2>1. \A m \in 1..Len(log) : log[m] \in DOMAIN restore.events
        BY DEF Executing, Rebuilding, Retold, Accepted
    <2> QED
        BY <1>9, <1>12, <2>1 DEF Told, Deed
<1>14. Tale(g)'
    BY <1>9, <1>13, TaleStays DEF Executing, Rebuilding, Retold
<1>15. Settled(org.seq, ops)'
    <2>1. Settled(org.seq, ops)
        BY DEF Executing, Rebuilding, Retold
    <2> QED
        BY <1>3, <1>8, <1>9, <1>10, <2>1 DEF Settled, InLog
<1>16. Retold(g)'
    BY <1>1, <1>9, <1>11, <1>12, <1>14, <1>15 DEF Executing, Rebuilding, Retold, Accepted
<1>17. Executes(proc[Purger])'
    <2>1. PICK pc \in {"quiesce", "append"} : Goto(Purger, pc)
        BY <1>6 DEF Stage
    <2>2. PICK y : Landed(Purger, y) /\ y.op = i /\ y.pc = pc
        BY <1>1, <1>2, <2>1, Going
    <2>3. proc'[Purger] = y
        BY <1>2, <2>2 DEF Landed, ProcRows
    <2>4. Len(log) = org.seq
        BY <1>2, <1>3 DEF Executes
    <2> QED
        BY <1>8, <1>9, <1>10, <2>1, <2>2, <2>3, <2>4 DEF Executes
<1> QED
    BY <1>9, <1>12, <1>13, <1>16, <1>17 DEF RetellsOn, Restoring, Mute

\* It goes on with a decision that was staged before.
LEMMA RunGoes ==
    ASSUME NEW g, Executing(g), UNCHANGED <<org, holds, ops, log>>, NEW pc, Goto(Purger, pc),
           proc[Purger].pc \in {"prepare", "quiesce", "finalize", "append"},
           NEW i, i = proc[Purger].op, i \in DOMAIN ops,
           \/ pc \in {"quiesce", "append"} /\ ops[i].status # "rejected"
           \/ pc = "finalize" /\ ops[i].data.action = "start"
           \/ pc = "apply" /\ InLog(i)
    PROVE  RetellsOn
<1>1. /\ ProcRows /\ Purger \in Processes /\ Executes(proc[Purger])
    BY RunWorker
<1>2. Len(log) = org.seq
    BY <1>1 DEF Executes
<1>3. PICK y : Landed(Purger, y) /\ y.pc = pc /\ y.op = i
    BY <1>1, Going
<1>4. proc'[Purger] = y
    BY <1>1, <1>3 DEF Landed, ProcRows
<1>5. Executes(y)
    BY <1>2, <1>3 DEF Executes
<1>6. UNCHANGED restore.events
    BY RunKeepsEvents
<1>7. Executes(proc[Purger])'
    BY <1>4, <1>5, <1>6 DEF Executes, InLog, Pending
<1> QED
    BY <1>7, RunRests

\* A pending decision is found again, or refused.
LEMMA RunRepeats ==
    ASSUME NEW g, Executing(g), Refuse(Purger) \/ Repeat(Purger) \/ Quiesce(Purger)
    PROVE  RetellsOn
<1>1. UNCHANGED <<org, holds, ops, log>>
    BY DEF Refuse, Repeat, Quiesce, orgVars, history
<1>2. PICK x, i : x = proc[Purger] /\ i = x.op
    OBVIOUS
<1>3. /\ ProcRows /\ Purger \in Processes /\ Executes(x) /\ x.pc \in {"prepare", "quiesce"}
      /\ x.pc = "quiesce" => i \in DOMAIN ops
    BY <1>2, RunWorker DEF Refuse, Repeat, Quiesce, At, Driving
<1>5. CASE Raise(Purger) \/ Done(Purger)
    BY <1>1, <1>5, RunRaises, RunRests
<1>6. ASSUME NEW pc, Goto(Purger, pc), i \in DOMAIN ops,
             \/ pc \in {"quiesce", "append"} /\ ops[i].status # "rejected"
             \/ pc = "finalize" /\ ops[i].data.action = "start"
             \/ pc = "apply" /\ ops[i].status = "applied"
      PROVE  RetellsOn
    <2>1. ops[i].status = "applied" => InLog(i)
        BY <1>6 DEF Executing, Rebuilding, Retold, Settled
    <2> QED
        BY <1>1, <1>2, <1>3, <1>6, <2>1, RunGoes
<1>7. CASE Refuse(Purger)
    BY <1>5, <1>7 DEF Refuse
<1>8. CASE Repeat(Purger)
    <2>1. i \in DOMAIN ops
        BY <1>2, <1>8 DEF Repeat
    <2>2. \/ Done(Purger)
          \/ \E pc : /\ Goto(Purger, pc)
                     /\ \/ pc \in {"quiesce", "append"} /\ ops[i].status # "rejected"
                        \/ pc = "apply" /\ ops[i].status = "applied"
        BY <1>2, <1>8 DEF Repeat
    <2> QED
        BY <1>5, <1>6, <2>1, <2>2
<1>9. CASE Quiesce(Purger)
    <2>1. x.pc = "quiesce" /\ i \in DOMAIN ops /\ ops[i].status # "rejected"
        BY <1>2, <1>3, <1>9 DEF Quiesce, At, Executes
    <2>2. \/ Goto(Purger, "append")
          \/ Goto(Purger, "finalize") /\ ops[i].data.action = "start"
        BY <1>2, <1>9 DEF Quiesce
    <2> QED
        BY <1>6, <2>1, <2>2
<1> QED
    BY <1>7, <1>8, <1>9

\* A pending decision is given its cutoff, or rejected.
LEMMA RunRewrites ==
    ASSUME NEW g, Executing(g), NEW i, NEW o, Rewrites(i, o), UNCHANGED <<org, holds, log>>,
           o.status # "applied", o.status = "pending" => Fitting(g[org.seq], i, o.data),
           Executes(proc[Purger])'
    PROVE  RetellsOn
<1>1. PICK w : w = g[org.seq]
    OBVIOUS
<1>2. OpsRows /\ Reads(w, org, holds, ops) /\ Settled(org.seq, ops)
    BY <1>1, RebuildingNumbers DEF Executing, Rebuilding, Retold
<1>3. /\ DOMAIN ops' = DOMAIN ops /\ ops'[i] = o /\ i \in DOMAIN ops /\ ops[i].status = "pending"
      /\ \A j \in DOMAIN ops : j # i => ops'[j] = ops[j]
    BY <1>2, Rewritten
<1>4. Reads(w, org', holds', ops')
    BY <1>1, <1>2, ReadsRewritten
<1>5. restore'.events = restore.events /\ restore'.at = "purging"
    BY RunKeepsEvents
<1>6. UNCHANGED Told
    <2>1. \A m \in 1..Len(log) : log[m] \in DOMAIN restore.events
        BY DEF Executing, Rebuilding, Retold, Accepted
    <2> QED
        BY <1>5, <2>1 DEF Told, Deed
<1>7. Tale(g)'
    BY <1>6, TaleStays DEF Executing, Rebuilding, Retold
<1>8. Settled(org.seq, ops)'
    BY <1>2, <1>3 DEF Settled, InLog
<1>9. Retold(g)'
    BY <1>1, <1>4, <1>5, <1>7, <1>8 DEF Executing, Rebuilding, Retold, Accepted
<1> QED
    BY <1>5, <1>6, <1>9 DEF RetellsOn, Restoring, Mute

\* The cutoff moves only the end and the deadline.
LEMMA StillFits ==
    ASSUME NEW w, NEW i, NEW d, Fitting(w, i, d), d.action = "start", NEW e, e.action = "start"
    PROVE  Fitting(w, i, e)
BY DEF Fitting, History!Admissible, TermActions, Service

LEMMA FinalizeRetells ==
    ASSUME NEW g, Executing(g), Finalize(Purger)
    PROVE  RetellsOn
<1>1. PICK x, i, w : x = proc[Purger] /\ i = x.op /\ w = g[org.seq]
    OBVIOUS
<1>2. /\ ProcRows /\ Purger \in Processes /\ IsProc(x) /\ Executes(x) /\ x.pc = "finalize"
      /\ i \in DOMAIN ops
    BY <1>1, RunWorker DEF Finalize, At, Driving
<1>3. UNCHANGED <<org, holds, log>>
    BY DEF Finalize, orgVars, history
<1>4. Len(log) = org.seq /\ ops[i].data.action = "start"
    BY <1>1, <1>2 DEF Executes
<1>5. CASE Done(Purger) /\ UNCHANGED ops
    BY <1>3, <1>5, RunRaises, RunRests
<1>6. CASE ops[i].status = "pending" /\ Goto(Purger, "append") /\ UNCHANGED ops
    BY <1>1, <1>2, <1>3, <1>6, RunGoes
<1>7. PICK o, m : o = ops[i] /\ m = clock + o.data.period
    OBVIOUS
<1>8. IsOp(o) /\ OpsRows /\ m \in Nat /\ clock \in Nat
    BY <1>2, <1>7, RebuildingNumbers
    DEF Executing, Rebuilding, Recovering, Rebuilt, OpsRows, IsOp, IsData
<1>9. CASE /\ o.status = "pending" /\ Done(Purger)
           /\ ops' = [ops EXCEPT ![i].status = "rejected"]
    <2>1. PICK y : y = [o EXCEPT !.status = "rejected"]
        OBVIOUS
    <2>2. IsOp(y) /\ y.data = o.data /\ y.expected = o.expected /\ y.status = "rejected"
        BY <1>8, <2>1 DEF IsOp, OpFields
    <2>3. ops' = [j \in DOMAIN ops |-> IF j = i THEN y ELSE ops[j]]
        BY <1>2, <1>7, <1>8, <1>9, <2>1 DEF OpsRows
    <2>4. Rewrites(i, y)
        BY <1>2, <1>7, <1>9, <2>2, <2>3 DEF Rewrites, Pending
    <2>5. proc'[Purger] = Idle /\ Idle.pc = "idle"
        BY <1>2, <1>9 DEF Done, ProcRows, Idle
    <2>6. Executes(proc[Purger])'
        BY <1>3, <1>4, <2>5 DEF Executes
    <2> QED
        BY <1>3, <2>2, <2>4, <2>6, RunRewrites
<1>10. CASE /\ o.status = "pending" /\ Goto(Purger, "append")
            /\ ops' = [ops EXCEPT ![i].data.ends = clock, ![i].data.eligible = m]
    <2>1. PICK e : e = [o.data EXCEPT !.ends = clock, !.eligible = m]
        OBVIOUS
    <2>2. IsData(e) /\ e.action = "start"
        <3>1. IsData(o.data) /\ o.data.action = "start"
            BY <1>4, <1>7, <1>8 DEF IsOp
        <3> QED
            BY <1>8, <2>1, <3>1 DEF IsData, DataFields
    <2>3. PICK y : y = [o EXCEPT !.data = e]
        OBVIOUS
    <2>4. IsOp(y) /\ y.data = e /\ y.expected = o.expected /\ y.status = "pending"
        BY <1>8, <1>10, <2>2, <2>3 DEF IsOp, OpFields
    <2>5. ops' = [ops EXCEPT ![i] = y]
        BY <1>2, <1>7, <1>8, <1>10, <2>1, <2>3 DEF OpsRows, IsOp, OpFields
    <2>6. ops' = [j \in DOMAIN ops |-> IF j = i THEN y ELSE ops[j]]
        BY <1>8, <2>5 DEF OpsRows
    <2>7. Rewrites(i, y)
        BY <1>2, <1>7, <1>10, <2>4, <2>6 DEF Rewrites, Pending
    <2>8. Fitting(w, i, e)
        <3>1. Fitting(w, i, o.data) /\ o.data.action = "start"
            BY <1>1, <1>2, <1>4, <1>7, <1>10 DEF Executing, Rebuilding, Retold, Reads
        <3> QED
            BY <2>2, <3>1, StillFits
    <2>9. PICK z : Landed(Purger, z) /\ z.pc = "append" /\ z.op = i
        BY <1>1, <1>2, <1>10, Going
    <2>10. proc'[Purger] = z /\ ops'[i] = y
        BY <1>2, <2>6, <2>9 DEF Landed, ProcRows
    <2>11. Executes(proc[Purger])'
        BY <1>3, <1>4, <2>4, <2>9, <2>10 DEF Executes
    <2> QED
        BY <1>1, <1>3, <2>4, <2>7, <2>8, <2>11, RunRewrites
<1> QED
    BY <1>1, <1>5, <1>6, <1>7, <1>9, <1>10 DEF Finalize

LEMMA StagesRetell ==
    ASSUME NEW g, Executing(g), Stages(Purger)
    PROVE  RetellsOn
<1>1. PICK x : x = proc[Purger]
    OBVIOUS
<1>2. x.pc = "prepare" => x.data.action \in PurgeActions
    BY <1>1, RunWorker
<1>3. ASSUME NEW A, A \cap PurgeActions = {} PROVE ~New(Purger, A)
    BY <1>1, <1>2, <1>3 DEF New, At
<1>4. ~(\/ PrepareTerm(Purger) \/ PrepareStart(Purger) \/ PrepareCancel(Purger)
        \/ PreparePolicy(Purger) \/ PrepareExtension(Purger) \/ PrepareRestriction(Purger)
        \/ PrepareRelease(Purger) \/ PrepareState(Purger))
    BY <1>3 DEF PrepareTerm, PrepareStart, PrepareCancel, PreparePolicy, PrepareExtension,
                PrepareRestriction, PrepareRelease, PrepareState, PurgeActions, TermActions
<1> QED
    BY <1>4, PurgeStagedRetells, RunRepeats, FinalizeRetells DEF Stages

-----------------------------------------------------------------------------

LEMMA BeginAppendRetells ==
    ASSUME NEW g, Executing(g), BeginAppend(Purger)
    PROVE  RetellsOn
<1>1. PICK x, i, w : x = proc[Purger] /\ i = x.op /\ w = g[org.seq]
    OBVIOUS
<1>2. /\ ProcRows /\ Purger \in Processes /\ IsProc(x) /\ Executes(x) /\ x.pc = "append"
      /\ i \in DOMAIN ops
    BY <1>1, RunWorker DEF BeginAppend, At, Driving, Decided
<1>3. UNCHANGED <<org, holds, log, ops>>
    BY DEF BeginAppend, orgVars, history
<1>4. Len(log) = org.seq /\ ops[i].status # "rejected"
    BY <1>1, <1>2 DEF Executes
<1>5. CASE Raise(Purger)
    BY <1>3, <1>5, RunRaises, RunRests
<1>6. CASE InLog(i) /\ Goto(Purger, "apply")
    BY <1>1, <1>2, <1>3, <1>6, RunGoes
<1>7. CASE ~InLog(i) /\ proc' = [proc EXCEPT ![Purger].pc = "head", ![Purger].seen = Len(log)]
    <2>1. PICK y, k : k = Len(log) /\ y = [x EXCEPT !.pc = "head", !.seen = k]
        OBVIOUS
    <2>2. y.pc = "head" /\ y.op = i
        BY <1>1, <1>2, <2>1 DEF IsProc, ProcFields
    <2>3. proc'[Purger] = y
        BY <1>1, <1>2, <1>7, <2>1 DEF ProcRows
    <2>4. i \in Pending
        <3>1. IsOp(ops[i]) /\ (ops[i].status = "applied" => InLog(i))
            BY <1>2, RebuildingNumbers DEF Executing, Rebuilding, Retold, Settled, OpsRows
        <3> QED
            BY <1>2, <1>4, <1>7, <3>1 DEF IsOp, Pending
    <2>5. Executes(y)
        BY <1>4, <1>7, <2>2, <2>4 DEF Executes
    <2>6. UNCHANGED restore.events
        BY <1>3, RunKeepsEvents
    <2>7. Executes(proc[Purger])'
        BY <1>3, <2>3, <2>5, <2>6 DEF Executes, InLog, Pending
    <2> QED
        BY <1>3, <2>7, RunRests
<1> QED
    BY <1>1, <1>5, <1>6, <1>7 DEF BeginAppend

\* The decision joins the history, and what was verified of it.
LEMMA HeadRetells ==
    ASSUME NEW g, Executing(g), At(Purger, "head"), log' = Append(log, proc[Purger].op),
           Goto(Purger, "receipt"), UNCHANGED <<org, holds, ops>>
    PROVE  RetellsOn
<1>1. PICK x, i, k : x = proc[Purger] /\ i = x.op /\ k = Len(log)
    OBVIOUS
<1>2. /\ ProcRows /\ Purger \in Processes /\ Executes(x) /\ x.pc = "head"
    BY <1>1, RunWorker DEF At
<1>3. i \in Pending /\ ~InLog(i) /\ k = org.seq /\ k \in Nat
    BY <1>1, <1>2, RebuildingNumbers DEF Executes, Executing
<1>4. /\ Len(log') = k + 1 /\ log'[k + 1] = i /\ \A n \in 1..k : log'[n] = log[n]
    <2>1. PICK D, l : D = DOMAIN restore.events \cup {i} /\ l = log
        OBVIOUS
    <2>2. l \in Seq(D) /\ i \in D /\ k = Len(l) /\ log' = Append(l, i)
        <3>1. PICK E : E = DOMAIN restore.events
            OBVIOUS
        <3>2. l \in Seq(E)
            BY <2>1, <3>1 DEF Executing, Rebuilding, RInv, Recovering, Verifications
        <3>3. l \in Seq(D)
            BY <2>1, <3>1, <3>2
        <3> QED
            BY <1>1, <2>1, <3>3
    <2> QED
        BY <2>1, <2>2, Appended
<1>5. PICK e : e = restore'.events
    OBVIOUS
<1>6. /\ DOMAIN restore.events = Accepted
      /\ e = [j \in Accepted' |-> IF j \in DOMAIN restore.events
                                  THEN restore.events[j] ELSE ops[j].data]
      /\ restore'.at = "purging"
    BY <1>5, RunFollows DEF Executing, Rebuilding, Retold
<1>7. /\ i \notin Accepted /\ i \in Accepted' /\ Accepted \subseteq Accepted'
    BY <1>1, <1>3, <1>4 DEF Accepted, InLog
<1>8. e[i] = ops[i].data /\ \A j \in Accepted : e[j] = restore.events[j]
    BY <1>6, <1>7
<1>9. DOMAIN e = Accepted' /\ e = [j \in Accepted' |-> e[j]]
    BY <1>6
<1>10. \A n \in 1..k : Deed(log[n])' = Deed(log[n])
    <2>1. ASSUME NEW n \in 1..k PROVE Deed(log[n])' = Deed(log[n])
        <3>1. log[n] \in Accepted /\ log'[n] = log[n]
            BY <1>1, <1>4 DEF Accepted
        <3> QED
            BY <1>5, <1>6, <1>7, <1>8, <1>9, <3>1 DEF Deed
    <2> QED
        BY <2>1
<1>11. PICK w, d : w = g[k] /\ d = ops[i].data
    OBVIOUS
<1>12. Reads(w, org, holds, ops) /\ Settled(k, ops)
    BY <1>3, <1>11 DEF Executing, Rebuilding, Retold
<1>13. Fitting(w, i, d)
    BY <1>3, <1>11, <1>12 DEF Reads, Pending
<1>14. Deed(i)' = d
    BY <1>5, <1>7, <1>8, <1>9, <1>11 DEF Deed
<1>15. PICK h : Tale(h)' /\ \A n \in 0..k : h[n] = g[n]
    <2>1. Tale(g)
        BY DEF Executing, Rebuilding, Retold
    <2> QED
        BY <1>1, <1>3, <1>4, <1>10, <1>11, <1>13, <1>14, <2>1, TaleGrows
<1>16. History!Accept
    <2>1. Shown(org, holds) = w.service
        BY <1>12 DEF Reads
    <2>2. Deed(log[k + 1])' = d
        BY <1>4, <1>14 DEF Deed
    <2>3. History!Admissible(Shown(org, holds), Deed(log[k + 1])')
        BY <1>13, <2>1, <2>2 DEF Fitting
    <2> QED
        BY <1>1, <1>3, <1>4, <1>10, <2>3, HistoryAccepts
<1>17. Settled(k, ops)'
    <2>1. \A j : InLog(j) => InLog(j)'
        BY <1>1, <1>3, <1>4 DEF InLog
    <2> QED
        BY <1>3, <1>4, <1>12, <2>1 DEF Settled
<1>18. Retold(h)'
    <2>1. h[k] = w
        BY <1>3, <1>11, <1>15
    <2>2. Reads(h[org.seq], org, holds, ops)' /\ Settled(org.seq, ops)'
        BY <1>3, <1>12, <1>17, <2>1 DEF Settled
    <2> QED
        BY <1>3, <1>4, <1>5, <1>9, <1>15, <2>2 DEF Retold
<1>19. Executes(proc[Purger])'
    <2>1. PICK y : Landed(Purger, y) /\ y.pc = "receipt" /\ y.op = i
        BY <1>1, <1>2, Going
    <2>2. proc'[Purger] = y
        BY <1>2, <2>1 DEF Landed, ProcRows
    <2>3. InLog(i)'
        BY <1>3, <1>4 DEF InLog
    <2>4. i \in Pending'
        BY <1>3 DEF Pending
    <2> QED
        BY <1>3, <1>4, <1>5, <1>8, <2>1, <2>2, <2>3, <2>4 DEF Executes
<1> QED
    BY <1>6, <1>16, <1>18, <1>19 DEF RetellsOn, Restoring

LEMMA AppendsRetell ==
    ASSUME NEW g, Executing(g), Appends(Purger)
    PROVE  RetellsOn
<1>1. CASE BeginAppend(Purger)
    BY <1>1, BeginAppendRetells
<1>2. CASE PutHead(Purger)
    <2>1. UNCHANGED <<org, holds, ops>> /\ At(Purger, "head")
        BY <1>2 DEF PutHead, orgVars
    <2>2. ~InLog(proc[Purger].op)
        BY <2>1, RunWorker DEF At, Executes
    <2>3. \/ log' = Append(log, proc[Purger].op) /\ Goto(Purger, "receipt")
          \/ UNCHANGED log /\ Raise(Purger)
        BY <1>2, <2>2 DEF PutHead
    <2> QED
        BY <2>1, <2>3, HeadRetells, RunRaises, RunRests
<1>3. CASE PutReceipt(Purger)
    <2>1. UNCHANGED <<org, holds, ops, log>> /\ At(Purger, "receipt") /\ Goto(Purger, "apply")
        BY <1>3 DEF PutReceipt, orgVars
    <2>2. PICK x : x = proc[Purger]
        OBVIOUS
    <2>3. ProcRows /\ Purger \in Processes /\ Executes(x) /\ x.pc = "receipt"
        BY <2>1, <2>2, RunWorker DEF At
    <2>4. PICK y : Landed(Purger, y) /\ y.pc = "apply" /\ y.op = x.op
        BY <2>1, <2>2, <2>3, Going
    <2>5. proc'[Purger] = y
        BY <2>3, <2>4 DEF Landed, ProcRows
    <2>6. Executes(y)
        BY <2>3, <2>4 DEF Executes
    <2>7. UNCHANGED restore.events
        BY <2>1, RunKeepsEvents
    <2>8. Executes(proc[Purger])'
        BY <2>1, <2>5, <2>6, <2>7 DEF Executes, InLog, Pending
    <2> QED
        BY <2>1, <2>8, RunRests
<1> QED
    BY <1>1, <1>2, <1>3 DEF Appends

-----------------------------------------------------------------------------

LEMMA RunApplies ==
    ASSUME NEW g, Executing(g), Applies(Purger)
    PROVE  RetellsOn
<1>1. PICK x, i, w : x = proc[Purger] /\ i = x.op /\ w = g[org.seq]
    OBVIOUS
<1>2. /\ ProcRows /\ Purger \in Processes /\ IsProc(x) /\ Executes(x) /\ x.pc = "apply"
      /\ i \in DOMAIN ops /\ x.data.action \in PurgeActions
    <2>1. x.pc = "apply"
        BY <1>1 DEF Applies, ApplyTerm, ApplyExpiry, ApplyStart, ApplyCancel, ApplyPolicy,
       ApplyExtension, ApplyRestriction, ApplyRelease, ApplyState, ApplyClaim,
       ApplyAuthorization, ApplyCompletion, ApplyFinal, AlreadyApplied, Stale, Projects, At
    <2> QED
        BY <1>1, <2>1, RunWorker DEF Driving, Decided
<1>3. Raise(Purger) \/ Done(Purger)
      \/ \E pc \in {"inventory", "execute", "progress"} : Goto(Purger, pc)
    <2>1. CASE After(Purger)
        BY <1>1, <1>2, <2>1 DEF After, PurgeActions
    <2> QED
        BY <2>1, AppliesEnd
<1>4. OpsRows /\ OrgShape /\ OneDecision /\ Len(log) \in Nat /\ org.seq \in Nat
      /\ org.seq <= Len(log)
    BY RebuildingNumbers DEF Executing
<1>5. Sound(w) /\ Reads(w, org, holds, ops) /\ Settled(org.seq, ops)
    BY <1>1, <1>4 DEF Executing, Rebuilding, Retold, Tale
<1>6. InLog(i)
    BY <1>1, <1>2 DEF Executes
<1>7. i \in Pending => /\ Len(log) = org.seq + 1 /\ log[Len(log)] = i
                       /\ ops[i].data = restore.events[i]
    <2>1. i \in Pending => Len(log) # org.seq
        <3>1. PICK n \in 1..Len(log) : log[n] = i
            BY <1>6 DEF InLog
        <3> QED
            BY <1>5, <3>1 DEF Settled, Pending
    <2> QED
        BY <1>1, <1>2, <2>1 DEF Executes
<1>8. i \notin Pending => Len(log) = org.seq
    BY <1>1, <1>2 DEF Executes
<1>9. CASE /\ i \in Pending /\ log' = log /\ ops' = [ops EXCEPT ![i].status = "applied"]
           /\ Reads(Onward(w, i, Data(Purger)), org', holds', ops') /\ org'.seq = org.seq + 1
    <2>1. PICK k : k = org.seq + 1
        OBVIOUS
    <2>2. restore'.events = restore.events /\ restore'.at = "purging"
        BY <1>9, RunKeepsEvents
    <2>3. Reads(Onward(g[org.seq], i, ops[i].data), org', holds', ops')
        BY <1>1, <1>9 DEF Data
    <2>4. Retold(g)' /\ History!Project
        <3>1. /\ Retold(g) /\ OpsRows /\ Len(log) \in Nat /\ org.seq \in Nat /\ k <= Len(log)
              /\ log[k] = i /\ ops[i].data = restore.events[i] /\ UNCHANGED log
              /\ restore'.events = restore.events /\ org'.seq = k
            BY <1>4, <1>7, <1>9, <2>1, <2>2 DEF Executing, Rebuilding
        <3> QED
            BY <1>9, <2>1, <2>3, <3>1, RetoldProjects
    <2>5. Len(log') = org'.seq
        BY <1>7, <1>9
    <2>6. \E y : Landed(Purger, y) /\ y.pc \in Resting
        <3>1. CASE Raise(Purger)
            BY <1>2, <3>1, Raising
        <3>2. CASE Done(Purger)
            BY <1>2, <3>2, Finishing DEF At
        <3>3. CASE \E pc \in {"inventory", "execute", "progress"} : Goto(Purger, pc)
            BY <1>2, <3>3, Going DEF Resting
        <3> QED
            BY <1>3, <3>1, <3>2, <3>3
    <2>7. PICK y : Landed(Purger, y) /\ y.pc \in Resting
        BY <2>6
    <2>8. proc'[Purger] = y
        BY <1>2, <2>7 DEF Landed, ProcRows
    <2>9. Executes(proc[Purger])'
        BY <2>5, <2>7, <2>8 DEF Executes, Resting
    <2> QED
        BY <2>2, <2>4, <2>9 DEF RetellsOn, Restoring
<1>10. CASE UNCHANGED <<org, holds, ops, log>>
    <2>1. CASE Raise(Purger) \/ Done(Purger)
        BY <1>10, <2>1, RunRaises, RunRests
    <2>2. CASE \E pc \in {"inventory", "execute", "progress"} : Goto(Purger, pc)
        <3>1. AlreadyApplied(Purger) \/ Raise(Purger) \/ \E A : Projects(Purger, A)
            BY DEF Applies, ApplyTerm, ApplyExpiry, ApplyStart, ApplyCancel, ApplyPolicy,
                   ApplyExtension, ApplyRestriction, ApplyRelease, ApplyState, ApplyClaim,
                   ApplyAuthorization, ApplyCompletion, ApplyFinal, Stale
        <3>2. CASE AlreadyApplied(Purger)
            <4>1. Len(log) = org.seq
                BY <1>1, <1>8, <3>2 DEF AlreadyApplied, Pending
            <4>2. PICK pc \in {"inventory", "execute", "progress"} : Goto(Purger, pc)
                BY <2>2
            <4>3. PICK y : Landed(Purger, y) /\ y.pc = pc
                BY <1>2, <4>2, Going
            <4>4. Executes(proc[Purger])'
                BY <1>10, <4>1, <4>3, RunAside DEF Resting
            <4> QED
                BY <1>10, <4>4, RunRests
        <3>3. CASE \E A : Projects(Purger, A)
            <4>0. i \in Pending /\ ops' = [ops EXCEPT ![i].status = "applied"]
                BY <1>1, <1>2, <3>3 DEF Projects, Pending
            <4>1. IsOp(ops[i])
                BY <1>2, <1>4 DEF OpsRows
            <4>2. ops'[i].status = "applied"
                <5>1. PICK o, y : o = ops[i] /\ y = [o EXCEPT !.status = "applied"]
                    OBVIOUS
                <5>2. y.status = "applied"
                    BY <4>1, <5>1 DEF IsOp, OpFields
                <5>3. ops'[i] = y
                    BY <1>2, <4>0, <5>1
                <5> QED
                    BY <5>2, <5>3
            <4> QED
                BY <1>10, <4>0, <4>2 DEF Pending
        <3> QED
            BY <1>10, <3>1, <3>2, <3>3, RunRaises, RunRests
    <2> QED
        BY <1>3, <2>1, <2>2
<1> QED
    BY <1>1, <1>2, <1>4, <1>5, <1>9, <1>10, AppliedTurns

LEMMA RunPurges ==
    ASSUME NEW g, Executing(g), Purges
    PROVE  RetellsOn
<1>1. UNCHANGED <<org, holds, ops, log>>
    BY PurgesStay
<1>2. PICK x, b : x = proc[Purger] /\ b = x.batch + 1
    OBVIOUS
<1>3. /\ ProcRows /\ Purger \in Processes /\ IsProc(x) /\ Executes(x)
      /\ Len(log) \in Nat
    BY <1>2, RunWorker, RebuildingNumbers DEF Executing
<1>4. CASE Done(Purger)
    BY <1>1, <1>4, RunRaises, RunRests
<1>5. CASE x.pc \in {"inventory", "next", "execute", "progress"}
    <2>1. Len(log) = org.seq
        BY <1>3, <1>5 DEF Executes
    <2>2. \/ Done(Purger) \/ Goto(Purger, "next") \/ Goto(Purger, "failing")
          \/ \E op, a : Begin(op, a)
          \/ proc' = [proc EXCEPT ![Purger].pc = "next", ![Purger].batch = b]
        BY <1>2 DEF Purges, Inventory, Authorize, Execute, Progress, RecordFailure
    <2>3. CASE \E pc \in {"next", "failing"} : Goto(Purger, pc)
        <3>1. PICK pc \in {"next", "failing"} : Goto(Purger, pc)
            BY <2>3
        <3>2. PICK y : Landed(Purger, y) /\ y.pc = pc
            BY <1>3, <3>1, Going
        <3>3. Executes(proc[Purger])'
            BY <1>1, <2>1, <3>2, RunAside DEF Resting
        <3> QED
            BY <1>1, <3>3, RunRests
    <2>4. CASE \E op, a : Begin(op, a)
        <3>1. PICK op, a : Begin(op, a)
            BY <2>4
        <3>2. PICK d : d = [Blank EXCEPT !.action = a, !.episode = run.episode]
            OBVIOUS
        <3>3. PICK y : y = [x EXCEPT !.pc = "prepare", !.op = op, !.seen = Len(log), !.data = d]
            OBVIOUS
        <3>4. y.pc = "prepare"
            BY <1>3, <3>3 DEF IsProc, ProcFields
        <3>5. proc' = [proc EXCEPT ![Purger].pc = "prepare", ![Purger].op = op,
                                   ![Purger].seen = Len(log), ![Purger].data = d]
            BY <3>1, <3>2 DEF Begin
        <3>6. proc'[Purger] = y
            BY <1>2, <1>3, <3>3, <3>5 DEF ProcRows
        <3>7. Executes(y)'
            BY <1>1, <2>1, <3>4 DEF Executes
        <3>8. Executes(proc[Purger])'
            BY <3>6, <3>7 DEF Executes
        <3> QED
            BY <1>1, <3>8, RunRests
    <2>5. CASE proc' = [proc EXCEPT ![Purger].pc = "next", ![Purger].batch = b]
        <3>1. PICK y : y = [x EXCEPT !.pc = "next", !.batch = b]
            OBVIOUS
        <3>2. y.pc = "next"
            BY <1>3, <3>1 DEF IsProc, ProcFields
        <3>3. proc'[Purger] = y
            BY <1>2, <1>3, <2>5, <3>1 DEF ProcRows
        <3>4. Executes(proc[Purger])'
            BY <1>1, <2>1, <3>2, <3>3 DEF Executes
        <3> QED
            BY <1>1, <3>4, RunRests
    <2> QED
        BY <1>4, <2>2, <2>3, <2>4, <2>5
<1>6. Done(Purger) \/ x.pc \in {"inventory", "next", "execute", "progress"}
    BY <1>2 DEF Purges, Inventory, Authorize, Execute, Progress, RecordFailure, At
<1> QED
    BY <1>4, <1>5, <1>6

\* The run that a restore resumes.
LEMMA ExecuteRunRetells ==
    ASSUME NEW g, Rebuilding(g), ExecuteRun
    PROVE  RetellsOn
<1>1. Executing(g)
    BY DEF Executing, ExecuteRun, Stage_
<1>2. Stages(Purger) \/ Appends(Purger) \/ Applies(Purger) \/ Purges
    BY Constants DEF ExecuteRun, Advance
<1> QED
    BY <1>1, <1>2, StagesRetell, AppendsRetell, RunApplies, RunPurges

-----------------------------------------------------------------------------
(* The whole story: the tale while the system lives, and while a restore    *)
(* rebuilds its database.                                                   *)

Story == /\ restore.at = "live" => LiveTale
         /\ restore.at # "live" => Restoring /\ \E g : Retold(g)

LEMMA LiveStoryGoesOn ==
    ASSUME RInv, Story, restore.at = "live", Live \/ Backup \/ UNCHANGED allVars
    PROVE  Story' /\ [History!HistoryNext]_(History!historyVars)
<1>1. PICK g : Present(g)
    BY DEF RInv, Story, LiveTale, Present
<1>3. CarriesOn
    <2>1. CASE Live
        BY <1>1, <2>1, NextCarriesOn DEF Live, restoreVars
    <2>2. CASE Backup
        BY <1>1, <2>2, BackupCarriesOn
    <2>3. CASE UNCHANGED allVars
        BY <1>1, <2>3, StandingCarriesOn
    <2> QED
        BY <2>1, <2>2, <2>3
<1>4. restore'.at = "live"
    BY DEF Live, Backup, restoreVars, allVars
<1> QED
    BY <1>3, <1>4, HistoryStutters DEF CarriesOn, Story, History!HistoryNext

LEMMA DisasterGoesOn ==
    ASSUME RInv, Story, Disaster
    PROVE  Story' /\ [History!HistoryNext]_(History!historyVars)
<1>1. restore.at = "live" /\ RestoreRow
    BY DEF Disaster, Stage_, RInv, RestoreRow
<1>2. PICK g : Present(g)
    BY <1>1 DEF RInv, Story, LiveTale, Present
<1>3. restore'.at = "history"
    <2>1. PICK e : e = Events(Accepted)
        OBVIOUS
    <2>2. restore' = [restore EXCEPT !.at = "history", !.disasters = 0, !.events = e]
        BY <2>1 DEF Disaster
    <2> QED
        BY <1>1, <2>2 DEF RestoreRow, RestoreFields
<1> QED
    BY <1>2, <1>3, DisasterRollsBack DEF Story, History!HistoryNext

LEMMA RestoringGoesOn ==
    ASSUME RInv, Story, restore.at # "live", [RestoreNext]_allVars
    PROVE  (\E h : Retold(h)') /\ Restoring' /\ (Mute \/ History!Accept \/ History!Project)
<1>1. PICK g : Rebuilding(g)
    BY DEF Story, Rebuilding
<1>2. CASE UNCHANGED allVars
    <2>1. UNCHANGED <<org, holds, ops, log, restore, proc>>
        BY <1>2 DEF allVars, vars, restoreVars
    <2>2. Retold(g)' /\ Mute
        BY <1>1, <2>1, RetoldRests DEF Rebuilding
    <2>3. Restoring'
        BY <1>1, <2>1 DEF Rebuilding, Restoring, AtEvent, Event, Executes, At, InLog, Pending
    <2> QED
        BY <2>2, <2>3
<1>3. CASE RestoreNext
    <2>1. ~Live /\ ~Backup /\ ~Disaster
        BY DEF Live, Backup, Disaster, Stage_
    <2>2. CASE Rerun
        BY <1>1, <2>2, RerunRests
    <2>3. CASE RepairInterruptedReceipt \/ ReconstructHead
        BY <1>1, <2>3, HistoryRepairRests
    <2>4. CASE Replays \/ ResumeRun \/ ExecuteRun \/ RunEnds \/ NoFence
               \/ ReplayRemainingMarkers \/ ReconcileObjects
        <3>1. RetellsOn
            BY <1>1, <2>4, EnsureOperationRetells, MarkersBeforePurgeRetell, ApplyFunctionRetells,
               ProjectRetells, ProjectedRetells, ReplayMarkersRetell, ResumeRunRetells,
               ExecuteRunRetells, CommandEndsRetell DEF Replays
        <3> QED
            BY <3>1 DEF RetellsOn
    <2> QED
        BY <1>3, <2>1, <2>2, <2>3, <2>4 DEF RestoreNext
<1> QED
    BY <1>2, <1>3

LEMMA RestoringLasts ==
    ASSUME RInv, restore.at # "live", [RestoreNext]_allVars
    PROVE  restore'.at # "live"
<1>1. RestoreRow
    BY DEF RInv, RestoreRow
<1>2. CASE UNCHANGED restore
    BY <1>2
<1>3. CASE \E a : a # "live" /\ GoTo(a)
    BY <1>1, <1>3, GoesTo
<1>4. CASE \E a, m : a # "live" /\ restore' = [restore EXCEPT !.at = a, !.n = m]
    BY <1>1, <1>4 DEF RestoreRow, RestoreFields
<1>5. CASE \E m : restore' = [restore EXCEPT !.n = m]
    BY <1>1, <1>5 DEF RestoreRow, RestoreFields
<1>6. CASE \E e : restore' = [restore EXCEPT !.events = e]
    BY <1>1, <1>6 DEF RestoreRow, RestoreFields
<1>7. CASE Rerun
    BY <1>1, <1>7 DEF Rerun, RestoreRow, RestoreFields
<1>8. CASE RestoreNext /\ ~Rerun
    <2>1. ~Live /\ ~Backup /\ ~Disaster
        BY DEF Live, Backup, Disaster, Stage_
    <2>2. EnsureOperation => \/ \E a \in {"held", "markers"} : GoTo(a)
                             \/ \E m : restore' = [restore EXCEPT !.n = m]
                             \/ restore' = [restore EXCEPT !.at = "held"]
        BY DEF EnsureOperation, Hold
    <2>3. RepairInterruptedReceipt \/ ReconstructHead \/ MarkersBeforePurge \/ ApplySimple
          \/ ReplayPurgeEvent \/ ReplayMarkers \/ ResumeRun \/ RunEnds \/ NoFence
          \/ ReplayRemainingMarkers \/ ReconcileObjects
          => \E a \in {"head", "events", "held", "project", "applying", "run", "fence", "purging",
                        "rest", "objects", "done"} : GoTo(a)
        BY DEF RepairInterruptedReceipt, ReconstructHead, MarkersBeforePurge, ApplySimple,
           ReplayPurgeEvent, ReplayMarkers, ResumeRun, RunEnds, NoFence, ReplayRemainingMarkers,
           ReconcileObjects, Hold
    <2>4. Project => UNCHANGED restore
        BY DEF Project, restoreVars
    <2>5. Projected => GoTo("held") \/ \E m : restore' = [restore EXCEPT !.at = "events", !.n = m]
        BY DEF Projected, Hold
    <2>6. ExecuteRun => \E e : restore' = [restore EXCEPT !.events = e]
        BY DEF ExecuteRun
    <2> QED
        BY <1>2, <1>3, <1>4, <1>5, <1>6, <1>8, <2>1, <2>2, <2>3, <2>4, <2>5, <2>6
        DEF RestoreNext, Replays, GoTo
<1> QED
    BY <1>2, <1>7, <1>8 DEF allVars, restoreVars

\* What happens after the disaster happens in the rebuilt database.
LEMMA StoryGoesOn ==
    ASSUME RInv, Story, [RestoreNext]_allVars
    PROVE  Story' /\ [History!HistoryNext]_(History!historyVars)
<1>1. CASE restore.at = "live"
    <2>1. Live \/ Backup \/ Disaster \/ UNCHANGED allVars
        BY <1>1 DEF RestoreNext, Replays, Rerun, RepairInterruptedReceipt, ReconstructHead,
           EnsureOperation, MarkersBeforePurge, ApplySimple, ReplayPurgeEvent, Project, Projected,
           ReplayMarkers, ResumeRun, ExecuteRun, RunEnds, NoFence, ReplayRemainingMarkers,
           ReconcileObjects, Stage_
    <2> QED
        BY <1>1, <2>1, LiveStoryGoesOn, DisasterGoesOn
<1>2. CASE restore.at # "live"
    <2>1. /\ (\E h : Retold(h)') /\ Restoring' /\ (Mute \/ History!Accept \/ History!Project)
        BY <1>2, RestoringGoesOn
    <2>2. restore'.at # "live"
        BY <1>2, RestoringLasts
    <2> QED
        BY <2>1, <2>2, HistoryStutters DEF Story, History!HistoryNext
<1> QED
    BY <1>1, <1>2

-----------------------------------------------------------------------------
(* Where the story begins. *)

\* No decision, or the first term, projected; nothing else.
Begun == /\ restore.at = "live" /\ saved = None /\ DOMAIN restore.events = {}
         /\ proc = [p \in Processes |-> Idle]
         /\ holds = [r \in {} |-> "active"] /\ DOMAIN requests = {}

LEMMA StartedBegun ==
    ASSUME RestoreInit, "episode" \notin Setups
    PROVE  Begun /\ (Fresh \/ InTerm)
<1>1. PICK n, e : /\ restore = [at |-> "live", disasters |-> n, reruns |-> 0, n |-> 1, events |-> e]
                  /\ e = Events({})
    BY DEF RestoreInit
<1>2. restore.at = "live" /\ DOMAIN restore.events = {}
    BY <1>1 DEF Events
<1>3. Fresh \/ InTerm
    BY DEF RestoreInit, Init
<1>4. holds = [r \in {} |-> "active"] /\ DOMAIN requests = {}
    BY <1>3 DEF Fresh, InTerm
<1> QED
    BY <1>2, <1>3, <1>4 DEF Begun, RestoreInit, Init

LEMMA BegunLives ==
    ASSUME Begun, NEW g
    PROVE  Living(g)
<1>1. ASSUME NEW p \in Processes PROVE Aim(proc[p])
    BY DEF Begun, Aim, Idle
<1> QED
    BY <1>1 DEF Begun, Living, Aims

LEMMA FreshStory ==
    ASSUME Begun, Fresh
    PROVE  Story /\ History!HistoryInit
<1>1. /\ org = NoTerm /\ log = <<>> /\ DOMAIN ops = {}
    BY DEF Fresh
<1>2. Len(log) = 0 /\ org.seq = 0 /\ org.term = None
    BY <1>1 DEF NoTerm
<1>3. PICK g : g = [n \in {0} |-> Outset]
    OBVIOUS
<1>4. g[0] = Outset
    BY <1>3
<1>5. Tale(g)
    <2>1. \A n \in 0..0 : n = 0
        OBVIOUS
    <2>2. \A n \in 1..0 : FALSE
        OBVIOUS
    <2> QED
        BY <1>2, <1>4, <2>1, <2>2, SoundOutset DEF Tale
<1>6. {r \in DOMAIN holds : holds[r] = "active"} = {}
    BY DEF Begun
<1>7. Shown(org, holds) = History!Unstarted
    BY <1>1, <1>6 DEF Shown, NoTerm, History!Unstarted
<1>8. Reads(g[org.seq], org, holds, ops)
    BY <1>1, <1>2, <1>4, <1>7 DEF Reads, Outset
<1>9. Story
    BY <1>5, <1>8, BegunLives DEF Begun, Story, LiveTale
<1>10. Told = <<>>
    BY <1>2 DEF Told
<1>11. History!HistoryInit
    BY <1>2, <1>7, <1>10 DEF History!HistoryInit, Told, Deed, Shown
<1> QED
    BY <1>9, <1>11

LEMMA InTermStory ==
    ASSUME Begun, InTerm
    PROVE  Story /\ History!HistoryInit
<1>1. PICK end \in Ends, q \in Periods :
        /\ org = [NoTerm EXCEPT !.seq = 1, !.term = Genesis, !.ends = end]
        /\ ops = [i \in {Genesis} |-> Row(Confirmed(end, q), "applied", 0)]
        /\ log = <<Genesis>>
    BY DEF InTerm
<1>2. PICK d : d = Confirmed(end, q)
    OBVIOUS
<1>3. d.action = "confirm_term" /\ d.ends = end
    BY <1>2 DEF Confirmed, Blank
<1>4. DOMAIN ops = {Genesis} /\ ops[Genesis].status = "applied" /\ ops[Genesis].data = d
    BY <1>1, <1>2 DEF Row
<1>5. Len(log) = 1 /\ log[1] = Genesis
    BY <1>1
<1>6. /\ org.seq = 1 /\ org.term = Genesis /\ org.status = "active" /\ org.episode = None
      /\ org.ends = end /\ org.eligible = 0
    BY <1>1 DEF NoTerm
<1>7. Deed(Genesis) = d
    BY <1>4 DEF Deed, Begun
<1>8. PICK v : v = Onward(Outset, Genesis, d)
    OBVIOUS
<1>9. PICK g : g = [n \in {0, 1} |-> IF n = 0 THEN Outset ELSE v]
    OBVIOUS
<1>10. g[0] = Outset /\ g[1] = v
    BY <1>9
<1>11. Fitting(Outset, Genesis, d)
    BY <1>3, TermFits DEF Outset, History!Unstarted, TermActions
<1>12. Sound(v)
    BY <1>8, <1>11, SoundOutset, SoundOnward
<1>13. Tale(g)
    <2>1. \A n \in 0..1 : n = 0 \/ n = 1
        OBVIOUS
    <2>2. \A n \in 1..1 : n = 1 /\ n - 1 = 0
        OBVIOUS
    <2>3. ASSUME NEW n \in 1..Len(log)
          PROVE  /\ g[n] = Onward(g[n - 1], log[n], Deed(log[n]))
                 /\ Fitting(g[n - 1], log[n], Deed(log[n]))
        <3>1. n = 1 /\ n - 1 = 0
            BY <1>5, <2>2
        <3>2. g[n] = v /\ g[n - 1] = Outset /\ log[n] = Genesis /\ Deed(log[n]) = d
            BY <1>5, <1>7, <1>10, <3>1
        <3> QED
            BY <1>8, <1>11, <3>2
    <2> QED
        BY <1>5, <1>10, <1>12, <2>1, <2>3, SoundOutset DEF Tale
<1>14. PICK s, t : s = Outset.service /\ t = History!Effect(s, d)
    OBVIOUS
<1>15. s = [f \in ServiceFields |-> s[f]] /\ s.held = {} /\ s = History!Unstarted
    BY <1>14 DEF Outset, History!Unstarted, ServiceFields
<1>16. /\ t = [f \in ServiceFields |-> t[f]]
       /\ t.status = "active" /\ t.episode = None /\ t.ends = d.ends /\ t.eligible = 0
       /\ t.held = {}
    <2>1. d.action \in TermActions
        BY <1>3 DEF TermActions
    <2>2. /\ t = [f \in ServiceFields |-> t[f]]
          /\ t.status = "active" /\ t.episode = None /\ t.ends = d.ends /\ t.eligible = 0
          /\ t.held = s.held
        BY <1>14, <1>15, <2>1, OnTerm
    <2> QED
        BY <1>15, <2>2
<1>17. {r \in DOMAIN holds : holds[r] = "active"} = {}
    BY DEF Begun
<1>18. Shown(org, holds) = t
    BY <1>3, <1>6, <1>16, <1>17, ShownIs
<1>19. v.service = t /\ v.term = Genesis /\ v.ends = d.ends
    BY <1>3, <1>8, <1>14 DEF Onward, TermActions
<1>20. Reads(g[org.seq], org, holds, ops)
    <2>1. Reads(v, org, holds, ops)
        BY <1>4, <1>6, <1>18, <1>19 DEF Reads
    <2> QED
        BY <1>6, <1>10, <2>1
<1>21. Story
    BY <1>13, <1>20, BegunLives DEF Begun, Story, LiveTale
<1>22. PICK u : u = Told
    OBVIOUS
<1>23. Len(u) = 1 /\ u[1] = d /\ u # <<>>
    BY <1>5, <1>7, <1>22 DEF Told
<1>24. History!HistoryInit
    <2>1. /\ Len(u) = 1 /\ u[1].action = "confirm_term" /\ org.seq = Len(u)
          /\ Shown(org, holds) = History!Effect(History!Unstarted, u[1])
        BY <1>3, <1>6, <1>14, <1>15, <1>18, <1>23
    <2> QED
        BY <1>22, <1>23, <2>1 DEF History!HistoryInit, Told, Deed, Shown
<1> QED
    BY <1>21, <1>24

(* The lifecycle implements its history.  An organization starts with no    *)
(* term or in its first one, as create_org leaves it; from there every      *)
(* decision is accepted alone, only when the rules of offboarding admit it  *)
(* - none authorizes deletion while anything is held - and is projected     *)
(* once and in order, wherever a process dies; a disaster rolls the         *)
(* database back to what it once showed, and the restore projects the same  *)
(* decisions to the same effect.                                            *)
THEOREM TheHistoryIsImplemented ==
    ASSUME "episode" \notin Setups
    PROVE  RestoreSpec => ImplementsHistory
<1>1. RestoreInit => Story /\ History!HistoryInit
    BY StartedBegun, FreshStory, InTermStory
<1>2. RInv /\ Story /\ [RestoreNext]_allVars =>
          Story' /\ [History!HistoryNext]_(History!historyVars)
    BY StoryGoesOn
<1> QED
    BY <1>1, <1>2, RestoreInvariant, PTL DEF RestoreSpec, ImplementsHistory, History!HistorySpec
=============================================================================
