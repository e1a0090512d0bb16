------------------------ MODULE RecordGuard_proofs ------------------------
(***************************************************************************)
(* For any number of takes, frames, redos and trips: a request left to the *)
(* holder of the recorder's lock is served (RequestServed), every take on  *)
(* disk is counted once (CountedOnce), page and leader follow the          *)
(* collision (CollisionShown), a session stays in somebody's hands and can *)
(* always be ended (SessionEnds), and, when a reset takes time, no         *)
(* interrupted take is committed (HonestTakes). First what each operation  *)
(* makes of the recorder, then the invariant, one action at a time.        *)
(***************************************************************************)
EXTENDS RecordGuard, TLAPS

-----------------------------------------------------------------------------
(* The recorder alone.                                                     *)

States == {"none", "warmup", "run", "save", "reset", "finish", "stop"}
Recorders ==
    [st : States, n : Nat, hot : BOOLEAN, saving : BOOLEAN, due : BOOLEAN, drops : BOOLEAN,
     done : BOOLEAN, redos : Nat, count : Nat, commits : Nat, bad : BOOLEAN, over : BOOLEAN]

(* A latched save is counted with its commit, is due only while it is      *)
(* latched, and a STOP is completed only with the dataset finalized.       *)
Honest(r) == r.commits = r.count + (IF r.saving /\ r.due THEN 1 ELSE 0)
Good(r) ==
    /\ r \in Recorders
    /\ Honest(r)
    /\ r.due => r.saving /\ r.st \in {"save", "finish", "stop"}
    /\ r.done => r.over
    /\ r.st = "none" => ~r.over

(* What a step may make of a recorder: the session stays, a finalized      *)
(* dataset too, and only a hot take is recorded as bad.                    *)
Follows(r, x) ==
    /\ Good(x)
    /\ x.st # "none" /\ (r.over => x.over)
    /\ x.hot => r.hot
    /\ x.bad => r.bad \/ r.hot

LEMMA FollowsTrans ==
    ASSUME NEW r, NEW x, NEW y, Follows(r, x), Follows(x, y) PROVE Follows(r, y)
BY DEF Follows

LEMMA RewoundFields ==
    ASSUME NEW r \in Recorders, NEW st \in States
    PROVE  LET x == Rewound(r, st)
           IN  /\ x \in Recorders
               /\ x.st = st /\ x.n = 0 /\ ~x.hot /\ ~x.saving /\ ~x.due /\ ~x.done
               /\ x.drops = r.drops /\ x.redos = r.redos /\ x.count = r.count
               /\ x.commits = r.commits /\ x.bad = r.bad /\ x.over = r.over
BY DEF Rewound, EpisodeReset, Recorders

LEMMA CountedFields ==
    ASSUME NEW r \in Recorders
    PROVE  LET x == Counted(r)
           IN  /\ x \in Recorders /\ x = [r EXCEPT !.count = r.count + 1]
BY DEF Counted, Recorders

LEMMA ReRecordGood ==
    ASSUME NEW r, Good(r), r.st # "none"
    PROVE  /\ Follows(r, ReRecord(r))
           /\ InFlight(r) => ~ReRecord(r).hot
           /\ ReRecord(r).st # "run"
           /\ ReRecord(r).bad => r.bad
BY RewoundFields, CountedFields DEF ReRecord, Good, Honest, Follows, InFlight, States, Recorders,
     Counted

LEMMA FinishGood ==
    ASSUME NEW r, Good(r), r.st # "none", NEW young \in BOOLEAN
    PROVE  /\ Follows(r, Finish(r, young))
           /\ Finish(r, young).st \in {"finish", "stop"} /\ Finish(r, young).done = r.done
           /\ Finish(r, young).bad => r.bad
BY DEF Finish, Good, Honest, Follows, InFlight, Recorders, States

LEMMA StopGood ==
    ASSUME NEW r, Good(r), r.st # "none"
    PROVE  /\ Follows(r, Stop(r))
           /\ Stop(r).st = "stop" /\ Stop(r).done = r.done /\ Stop(r).over = r.over
           /\ Stop(r).bad => r.bad
BY DEF Stop, Good, Honest, Follows, Recorders, States

LEMMA EarlySaveGood ==
    ASSUME NEW r, Good(r), r.st # "none", NEW x \in EarlySave(r)
    PROVE  Follows(r, x)
BY DEF EarlySave, Good, Honest, Follows, Recorders, States

LEMMA AddFrameGood ==
    ASSUME NEW r, Good(r), r.st = "run", NEW late \in BOOLEAN
    PROVE  /\ Good(AddFrame(r, late)) /\ AddFrame(r, late).st # "none"
           /\ (r.over => AddFrame(r, late).over)
           /\ AddFrame(r, late).bad => r.bad
           /\ AddFrame(r, late).hot => r.hot \/ late
<1> DEFINE x == AddFrame(r, late)
           to == IF r.n + 1 >= Frames THEN "save" ELSE "run"
<1>1. to \in {"save", "run"} /\ r.n + 1 \in Nat /\ (r.hot \/ late) \in BOOLEAN /\ r \in Recorders
  BY DEF Good, Recorders
<1>2. x = [r EXCEPT !.n = r.n + 1, !.hot = r.hot \/ late, !.st = to]
  BY <1>1 DEF AddFrame, Recorders, Good
<1> HIDE DEF x, to
<1>3. /\ x \in Recorders /\ x.st = to /\ x.hot = (r.hot \/ late)
      /\ x.saving = r.saving /\ x.due = r.due /\ x.done = r.done /\ x.count = r.count
      /\ x.commits = r.commits /\ x.bad = r.bad /\ x.over = r.over
  BY <1>1, <1>2 DEF Recorders, States
<1>4. ~r.due
  BY DEF Good
<1> QED
  BY <1>1, <1>3, <1>4 DEF Good, Honest, x

LEMMA CommittedGood ==
    ASSUME NEW r, Good(r), r.st \in {"save", "finish", "stop"}, ~r.saving
    PROVE  /\ Follows(r, Committed(r))
           /\ Committed(r).st = r.st /\ Committed(r).saving /\ Committed(r).done = r.done
<1> DEFINE x == Committed(r)
           full == r.n > 0
           commits == r.commits + (IF r.n > 0 THEN 1 ELSE 0)
<1>1. full \in BOOLEAN /\ commits \in Nat /\ (r.bad \/ r.hot) \in BOOLEAN /\ r \in Recorders
  BY DEF Good, Recorders
<1>2. x = [r EXCEPT !.n = 0, !.hot = FALSE, !.saving = TRUE, !.due = full, !.redos = 0,
                    !.commits = commits, !.bad = r.bad \/ r.hot]
  BY <1>1 DEF Committed, EpisodeReset, Recorders
<1> HIDE DEF x
<1>3. /\ x \in Recorders /\ x.st = r.st /\ ~x.hot /\ x.saving /\ x.due = full /\ x.done = r.done
      /\ x.count = r.count /\ x.commits = commits /\ x.bad = (r.bad \/ r.hot) /\ x.over = r.over
  BY <1>1, <1>2 DEF Recorders, States
<1>4. r.commits = r.count /\ r.count \in Nat
  BY DEF Good, Honest, Recorders
<1>5. Honest(x)
  BY <1>1, <1>3, <1>4 DEF Honest
<1> QED
  BY <1>1, <1>3, <1>5 DEF Good, Follows, x

LEMMA DiscardedGood ==
    ASSUME NEW r, Good(r), r.st \in {"save", "finish", "stop"}, ~r.saving, NEW d \in Discarded(r)
    PROVE  Follows(r, d) /\ ~d.done /\ ~d.due /\ d.st \in {"reset", "finish"}
<1>1. d \in {Redone(r), Lost(r)}
  BY DEF Discarded
<1>2. CASE d = Redone(r)
  <2> DEFINE y == Rewound(r, "reset")
  <2>1. /\ y \in Recorders /\ y.st = "reset" /\ ~y.hot /\ ~y.saving /\ ~y.due /\ ~y.done
        /\ y.count = r.count /\ y.commits = r.commits /\ y.bad = r.bad /\ y.over = r.over
        /\ y.redos + 1 \in Nat
    BY RewoundFields DEF Good, Recorders, States
  <2>2. d = [y EXCEPT !.redos = y.redos + 1]
    BY <1>2 DEF Redone
  <2> HIDE DEF y
  <2>3. /\ d \in Recorders /\ d.st = "reset" /\ ~d.hot /\ ~d.saving /\ ~d.due /\ ~d.done
        /\ d.count = y.count /\ d.commits = y.commits /\ d.bad = y.bad /\ d.over = y.over
    BY <2>1, <2>2 DEF Recorders
  <2> QED BY <2>1, <2>3 DEF Good, Honest, Follows
<1>3. CASE d = Lost(r)
  <2> DEFINE y == Rewound(r, "finish")
  <2>1. /\ y \in Recorders /\ y.st = "finish" /\ ~y.hot /\ ~y.saving /\ ~y.due /\ ~y.done
        /\ y.count = r.count /\ y.commits = r.commits /\ y.bad = r.bad /\ y.over = r.over
    BY RewoundFields DEF Good, Recorders, States
  <2>2. d = [y EXCEPT !.drops = FALSE, !.saving = TRUE]
    BY <1>3 DEF Lost
  <2> HIDE DEF y
  <2>3. /\ d \in Recorders /\ d.st = "finish" /\ ~d.hot /\ ~d.due /\ ~d.done
        /\ d.count = y.count /\ d.commits = y.commits /\ d.bad = y.bad /\ d.over = y.over
    BY <2>1, <2>2 DEF Recorders
  <2> QED BY <2>1, <2>3 DEF Good, Honest, Follows
<1> QED
  BY <1>1, <1>2, <1>3

LEMMA EndsAnywayGood ==
    ASSUME NEW r, Good(r), r.st # "none", ~r.due, NEW st \in {"finish", "stop"}
    PROVE  /\ Follows(r, EndsAnyway(r, st))
           /\ EndsAnyway(r, st).st = st /\ EndsAnyway(r, st).saving /\ EndsAnyway(r, st).done = r.done
BY DEF EndsAnyway, Good, Honest, Follows, Recorders, States

LEMMA ClosedGood ==
    ASSUME NEW r, Good(r), r.st \in {"save", "finish", "stop"}, r.saving
    PROVE  LET x == Closed(r)
           IN  /\ Follows(r, x)
               /\ x.st = r.st /\ ~x.saving /\ ~x.due /\ x.done = r.done /\ x.over = r.over
<1> DEFINE y == IF r.due THEN Counted(r) ELSE r
           x == Closed(r)
<1>1. /\ y \in Recorders /\ y.st = r.st /\ y.done = r.done /\ y.over = r.over /\ y.bad = r.bad
      /\ y.commits = r.commits /\ y.count = r.count + (IF r.due THEN 1 ELSE 0)
  BY CountedFields DEF Good, Recorders
<1>2. x = [y EXCEPT !.n = 0, !.hot = FALSE, !.saving = FALSE, !.due = FALSE]
  BY <1>1 DEF Closed, EpisodeReset, Recorders
<1> HIDE DEF x, y
<1>3. /\ x \in Recorders /\ x.st = y.st /\ ~x.hot /\ ~x.saving /\ ~x.due /\ x.done = y.done
      /\ x.count = y.count /\ x.commits = y.commits /\ x.bad = y.bad /\ x.over = y.over
  BY <1>1, <1>2 DEF Recorders
<1>4. r.commits = r.count + (IF r.due THEN 1 ELSE 0) /\ r.bad \in BOOLEAN
  BY DEF Good, Honest, Recorders
<1>5. x.commits = x.count
  BY <1>1, <1>3, <1>4
<1> QED
  BY <1>1, <1>3, <1>5 DEF Good, Honest, Follows, x, Recorders

LEMMA FinalizedGood ==
    ASSUME NEW r, Good(r), r.st # "none"
    PROVE  /\ Follows(r, Finalized(r)) /\ Finalized(r).over /\ Finalized(r).st = r.st
           /\ Follows(r, [Finalized(r) EXCEPT !.done = TRUE])
           /\ [Finalized(r) EXCEPT !.done = TRUE].over
BY DEF Finalized, Good, Honest, Follows, Recorders, States

(* SAVE, STOP and FINISH, one record() call each.                          *)
LEMMA SaveStepGood ==
    ASSUME NEW r, Good(r), r.st = "save", NEW x \in SaveStep(r)
    PROVE  Follows(r, x) /\ x.st # "run"
<1>1. CASE ~r.saving
  <2>1. x = Committed(r) \/ x \in Discarded(r)
    BY <1>1 DEF SaveStep
  <2> QED BY <1>1, <2>1, CommittedGood, DiscardedGood
<1>2. CASE r.saving
  <2> DEFINE y == Closed(r)
             to == IF Enough(y) THEN "finish" ELSE "reset"
  <2>1. x = [y EXCEPT !.st = to] /\ to \in {"finish", "reset"}
    BY <1>2 DEF SaveStep
  <2>2. Follows(r, y) /\ ~y.saving /\ ~y.due
    BY <1>2, ClosedGood
  <2> HIDE DEF y, to
  <2>3. Follows(y, x) /\ x.st = to
    BY <2>1, <2>2 DEF Follows, Good, Honest, Recorders, States
  <2> QED BY <2>1, <2>2, <2>3, FollowsTrans
<1> QED
  BY <1>1, <1>2

(* An end is over, or has saved and ends in the next call.                 *)
Near(r) == r.over \/ (r.st \in {"finish", "stop"} /\ r.saving /\ ~r.done)

LEMMA StopStepGood ==
    ASSUME NEW r, Good(r), r.st = "stop", NEW x \in StopStep(r)
    PROVE  /\ Follows(r, x) /\ x.st = "stop"
           /\ r.saving /\ ~r.done => x.over
           /\ Near(x)
<1>1. CASE r.done
  BY <1>1 DEF StopStep, Good, Follows, Near
<1>2. CASE ~r.done /\ r.saving
  <2>1. x = [Finalized(Closed(r)) EXCEPT !.done = TRUE]
    BY <1>2 DEF StopStep
  <2>2. Follows(r, Closed(r)) /\ Good(Closed(r)) /\ Closed(r).st = "stop"
    BY <1>2, ClosedGood DEF Follows
  <2>3. Follows(Closed(r), x) /\ x.over /\ x.st = "stop"
    BY <2>1, <2>2, FinalizedGood DEF Finalized, Good, Recorders
  <2> QED BY <2>2, <2>3, FollowsTrans DEF Near
<1>3. CASE ~r.done /\ ~r.saving
  <2>1. x = Committed(r) \/ \E d \in Discarded(r) : x = EndsAnyway(d, "stop")
    BY <1>3 DEF StopStep
  <2>2. CASE x = Committed(r)
    BY <1>3, <2>2, CommittedGood DEF Near
  <2>3. ASSUME NEW d \in Discarded(r), x = EndsAnyway(d, "stop")
        PROVE  Follows(r, x) /\ x.st = "stop" /\ Near(x)
    <3>1. Follows(r, d) /\ Good(d) /\ ~d.done /\ d.st # "none" /\ ~d.due
      BY <1>3, <2>3, DiscardedGood DEF Follows
    <3>2. Follows(d, x) /\ x.st = "stop" /\ x.saving /\ ~x.done
      BY <2>3, <3>1, EndsAnywayGood
    <3> QED BY <3>1, <3>2, FollowsTrans DEF Near
  <2> QED BY <1>3, <2>1, <2>2, <2>3
<1> QED
  BY <1>1, <1>2, <1>3

LEMMA FinishStepGood ==
    ASSUME NEW r, Good(r), r.st = "finish", NEW x \in FinishStep(r)
    PROVE  /\ Follows(r, x) /\ x.st = "finish"
           /\ ~r.saving => x.saving
           /\ r.done \/ ~x.done
<1>1. CASE r.saving
  BY <1>1, ClosedGood DEF FinishStep
<1>2. CASE ~r.saving /\ r.drops
  <2>1. x = [EpisodeReset(r) EXCEPT !.drops = FALSE, !.saving = TRUE]
    BY <1>2 DEF FinishStep
  <2> QED BY <1>2, <2>1 DEF EpisodeReset, Follows, Good, Honest, Recorders, States
<1>3. CASE ~r.saving /\ ~r.drops
  <2>1. x = Committed(r) \/ \E d \in Discarded(r) : x = EndsAnyway(d, "finish")
    BY <1>3 DEF FinishStep
  <2>2. CASE x = Committed(r)
    BY <1>3, <2>2, CommittedGood
  <2>3. ASSUME NEW d \in Discarded(r), x = EndsAnyway(d, "finish")
        PROVE  Follows(r, x) /\ x.st = "finish" /\ x.saving /\ ~x.done
    <3>1. Follows(r, d) /\ Good(d) /\ ~d.done /\ d.st # "none" /\ ~d.due
      BY <1>3, <2>3, DiscardedGood DEF Follows
    <3>2. Follows(d, x) /\ x.st = "finish" /\ x.saving /\ ~x.done
      BY <2>3, <3>1, EndsAnywayGood
    <3> QED BY <3>1, <3>2, FollowsTrans
  <2> QED BY <1>3, <2>1, <2>2, <2>3
<1> QED
  BY <1>1, <1>2, <1>3

(* One record() call that adds no frame: what it returns as completed is   *)
(* finalized, and it begins a run only from a warm-up or a reset.          *)
LEMMA RecordedGood ==
    ASSUME NEW r, Good(r), r.st \notin {"none", "run"}, NEW x \in Recorded(r)
    PROVE  /\ Follows(r, x[1])
           /\ x[2] => x[1].over
           /\ x[1].st = "run" => r.st = "warmup" \/ (r.st = "reset" /\ (Instant \/ rec.st = "reset"))
           /\ r.st \in {"finish", "stop"} => x[1].st = r.st
           /\ r.st \in {"finish", "stop"} /\ ~r.done => Near(x[1])
           /\ r.st \in {"finish", "stop"} /\ Near(r) => x[1].over
<1>1. CASE r.st \in {"warmup", "reset"}
  <2> DEFINE y == [r EXCEPT !.st = "run"]
             free == r.st = "warmup" \/ (r.st = "reset" /\ (Instant \/ rec.st = "reset"))
  <2>1. x = <<r, FALSE>> \/ (x = <<y, FALSE>> /\ free)
    BY <1>1 DEF Recorded
  <2>2. Follows(r, y)
    BY <1>1 DEF Follows, Good, Honest, Recorders, States
  <2>3. Follows(r, r)
    BY <1>1 DEF Follows, Good
  <2> HIDE DEF y
  <2> HIDE DEF free
  <2>4. x = <<r, FALSE>> => x[1] = r /\ x[2] = FALSE
    OBVIOUS
  <2>5. x = <<y, FALSE>> => x[1] = y /\ x[2] = FALSE
    OBVIOUS
  <2>6. x[2] = FALSE /\ (x[1] = r \/ (x[1] = y /\ free))
    BY <2>1, <2>4, <2>5, Zenon
  <2> QED BY <1>1, <2>2, <2>3, <2>6 DEF free
<1>2. CASE r.st = "save"
  <2>1. PICK y \in SaveStep(r) : x = Return(y, FALSE)
    BY <1>2 DEF Recorded
  <2>2. Follows(r, y) /\ y.st # "run" /\ Good(y) /\ y.st # "none"
    BY <1>2, SaveStepGood DEF Follows
  <2>3. x = <<y, FALSE>> \/ x = <<Finalized(y), TRUE>>
    BY <2>1 DEF Return
  <2>4. CASE x = <<y, FALSE>>
    BY <1>2, <2>2, <2>4
  <2>5. CASE x = <<Finalized(y), TRUE>>
    BY <1>2, <2>2, <2>5, FinalizedGood, FollowsTrans
  <2> QED BY <2>3, <2>4, <2>5
<1>3. CASE r.st = "finish"
  <2>1. PICK y \in FinishStep(r) : x = Return(y, r.saving)
    BY <1>3 DEF Recorded
  <2>2. Follows(r, y) /\ y.st = "finish" /\ Good(y) /\ (~r.saving => y.saving) /\ (r.done \/ ~y.done)
    BY <1>3, <2>1, FinishStepGood DEF Follows
  <2>3. \/ x = <<y, FALSE>> /\ ~r.saving
        \/ x = <<Finalized(y), TRUE>>
    <3>1. CASE r.saving
      BY <2>1, <3>1 DEF Return
    <3>2. CASE ~r.saving
      <4>1. CASE Enough(y)
        BY <2>1, <4>1 DEF Return
      <4>2. CASE ~Enough(y)
        BY <2>1, <3>2, <4>2 DEF Return
      <4> QED BY <4>1, <4>2
    <3> QED BY <3>1, <3>2
  <2>4. CASE x = <<y, FALSE>> /\ ~r.saving
    <3>1. x[1] = y /\ x[2] = FALSE
      BY <2>4
    <3>2. Near(r) => r.over
      BY <2>4 DEF Near
    <3>3. y.saving
      BY <2>2, <2>4
    <3>4. ~r.done => Near(y)
      BY <2>2, <3>3 DEF Near
    <3>5. Near(r) => y.over
      BY <2>2, <3>2 DEF Follows
    <3> QED BY <1>3, <2>2, <3>1, <3>4, <3>5
  <2>5. CASE x = <<Finalized(y), TRUE>>
    <3>1. x[1] = Finalized(y) /\ Follows(y, x[1]) /\ x[1].over /\ x[1].st = "finish"
      BY <2>2, <2>5, FinalizedGood
    <3> QED BY <1>3, <2>2, <3>1, FollowsTrans DEF Near
  <2> QED BY <2>3, <2>4, <2>5
<1>4. CASE r.st = "stop"
  <2>1. PICK y \in StopStep(r) : x = <<y, r.saving /\ ~r.done>>
    BY <1>4 DEF Recorded
  <2>2. Follows(r, y) /\ y.st = "stop" /\ (r.saving /\ ~r.done => y.over) /\ Near(y)
    BY <1>4, <2>1, StopStepGood
  <2>3. x[1] = y /\ (x[2] <=> r.saving /\ ~r.done)
    BY <2>1
  <2> QED BY <1>4, <2>2, <2>3 DEF Near, Follows
<1> QED
  BY <1>1, <1>2, <1>3, <1>4 DEF Good, Recorders, States

(* The requests that wait: a discard leaves no hot take of a run in        *)
(* flight, and no request makes a run.                                     *)
LEMMA DrainedGood ==
    ASSUME NEW r, Good(r), r.st # "none", NEW discard \in BOOLEAN,
           NEW end \in {"none", "finish", "stop"}, NEW young \in BOOLEAN
    PROVE  LET x == Drained(r, discard, end, young)
           IN  /\ Follows(r, x)
               /\ discard = TRUE /\ InFlight(r) => ~x.hot
               /\ x.st \in {"run", "warmup"} => x = r /\ discard = FALSE
               /\ discard = TRUE => x.st \in {"reset", "finish", "stop"}
               /\ x.bad => r.bad
<1> DEFINE y == AfterDiscard(r, discard)
           x == AfterEnd(y, end, young)
<1>1. /\ Follows(r, y) /\ (discard /\ InFlight(r) => ~y.hot)
      /\ y.st \in {"run", "warmup"} => y = r /\ ~discard
      /\ discard => y.st \in {"reset", "finish", "stop"}
      /\ y.bad => r.bad
  <2>1. CASE discard
    <3>1. y = ReRecord(r)
      BY <2>1 DEF AfterDiscard
    <3>2. ReRecord(r).st \in {"reset", "finish", "stop"}
      BY RewoundFields, CountedFields DEF ReRecord, Good, States, Recorders
    <3> QED BY <2>1, <3>1, <3>2, ReRecordGood
  <2>2. CASE ~discard
    BY <2>2 DEF AfterDiscard, Good, Follows
  <2> QED BY <2>1, <2>2
<1>2. Good(y) /\ y.st # "none"
  BY <1>1 DEF Follows
<1> HIDE DEF y
<1>3. x = y \/ (x = Finish(y, young) /\ x.st \in {"finish", "stop"}) \/ (x = Stop(y) /\ x.st = "stop")
  BY <1>2, FinishGood, StopGood DEF AfterEnd
<1>4. CASE x = y
  BY <1>1, <1>4 DEF Drained, y
<1>5. CASE x = Finish(y, young) /\ x.st \in {"finish", "stop"}
  <2>1. Follows(y, x)
    BY <1>2, <1>5, FinishGood
  <2>2. (x.hot => y.hot) /\ (x.bad => y.bad)
    BY <1>2, <1>5, <2>1, FinishGood DEF Follows
  <2> QED BY <1>1, <1>5, <2>1, <2>2, FollowsTrans DEF Drained, y
<1>6. CASE x = Stop(y) /\ x.st = "stop"
  <2>1. Follows(y, x)
    BY <1>2, <1>6, StopGood
  <2>2. (x.hot => y.hot) /\ (x.bad => y.bad)
    BY <1>2, <1>6, <2>1, StopGood DEF Follows
  <2> QED BY <1>1, <1>6, <2>1, <2>2, FollowsTrans DEF Drained, y
<1> QED
  BY <1>3, <1>4, <1>5, <1>6

LEMMA AfterErrorGood ==
    ASSUME NEW r, Good(r), r.st # "none", NEW x \in AfterError(r)
    PROVE  Follows(r, x) /\ x.over
<1> DEFINE c == IF r.saving /\ r.due THEN Counted(r) ELSE r
           y == Rewound(c, "stop")
           ended == [y EXCEPT !.drops = FALSE, !.done = TRUE]
<1>1. /\ c \in Recorders /\ c.bad = r.bad /\ c.over = r.over /\ c.commits = r.commits
      /\ c.count = r.count + (IF r.saving /\ r.due THEN 1 ELSE 0)
  BY CountedFields DEF Good, Recorders
<1>2. x = Finalized(ended) \/ (x = Finalized(r))
  BY DEF AfterError
<1> HIDE DEF c
<1>3. /\ y \in Recorders /\ y.st = "stop" /\ ~y.hot /\ ~y.saving /\ ~y.due
      /\ y.bad = r.bad /\ y.commits = r.commits /\ y.count = c.count
  BY <1>1, RewoundFields DEF States
<1>4. y.count = y.commits
  BY <1>1, <1>3 DEF Good, Honest
<1> HIDE DEF y
<1>5. CASE x = Finalized(ended)
  <2>1. x = [y EXCEPT !.drops = FALSE, !.done = TRUE, !.over = TRUE]
    BY <1>3, <1>5 DEF Finalized, Recorders
  <2>2. /\ x \in Recorders /\ x.st = "stop" /\ ~x.hot /\ ~x.saving /\ ~x.due /\ x.over
        /\ x.bad = y.bad /\ x.commits = y.commits /\ x.count = y.count
    BY <1>3, <2>1 DEF Recorders
  <2>3. x.commits = x.count /\ x.count \in Nat
    BY <1>4, <2>2 DEF Recorders
  <2>4. Good(x)
    BY <2>2, <2>3 DEF Good, Honest
  <2>5. x.bad => r.bad
    BY <1>3, <2>2
  <2> QED BY <2>2, <2>4, <2>5 DEF Follows
<1> QED
  BY <1>2, <1>5, FinalizedGood

(* At most four record() calls end a session: two suffice.                 *)
Ends(r, x) ==
    /\ Follows(r, x[1]) /\ x[1].st \in {"finish", "stop"} /\ Near(x[1])
    /\ x[2] => x[1].over

LEMMA MoreEnds ==
    ASSUME NEW r, NEW S, \A x \in S : Ends(r, x)
    PROVE  \A x \in More(S) : Ends(r, x) /\ x[1].over
<1> SUFFICES ASSUME NEW x \in S, NEW y \in (IF x[2] THEN {x} ELSE Recorded(x[1]))
             PROVE  Ends(r, y) /\ y[1].over
  BY DEF More
<1>1. CASE x[2]
  BY <1>1 DEF Ends
<1>2. CASE ~x[2]
  <2>1. /\ y \in Recorded(x[1]) /\ Follows(r, x[1]) /\ Good(x[1])
        /\ x[1].st \in {"finish", "stop"} /\ Near(x[1])
    BY <1>2 DEF Ends, Follows
  <2>2. Follows(x[1], y[1]) /\ y[1].over /\ y[1].st = x[1].st
    BY <2>1, RecordedGood
  <2>3. Follows(r, y[1])
    BY <2>1, <2>2, FollowsTrans
  <2>4. y[1].st \in {"finish", "stop"} /\ Near(y[1])
    BY <2>1, <2>2 DEF Near
  <2> QED BY <2>2, <2>3, <2>4 DEF Ends
<1> QED
  BY <1>1, <1>2

LEMMA EndNowOver ==
    ASSUME NEW r, Good(r), r.st # "none", NEW z \in EndNow(r)
    PROVE  Follows(r, z) /\ z.over
<1>1. PICK young \in BOOLEAN : z \in {x[1] : x \in More(More(More(Recorded(Finish(r, young)))))}
  BY DEF EndNow
<1> DEFINE f == Finish(r, young)
<1>2. Follows(r, f) /\ Good(f) /\ f.st \in {"finish", "stop"} /\ f.done = r.done
  BY FinishGood DEF Follows
<1>3. PICK p \in More(More(More(Recorded(f)))) : z = p[1]
  BY <1>1
<1> HIDE DEF f
<1>4. \A x \in Recorded(f) : Ends(r, x)
  <2> SUFFICES ASSUME NEW x \in Recorded(f) PROVE Ends(r, x)
    OBVIOUS
  <2>1. Follows(f, x[1]) /\ x[1].st = f.st /\ (x[2] => x[1].over)
    BY <1>2, RecordedGood
  <2>2. Near(x[1])
    <3>1. CASE f.done
      BY <1>2, <2>1, <3>1 DEF Near, Follows, Good
    <3>2. CASE ~f.done
      BY <1>2, <3>2, RecordedGood
    <3> QED BY <3>1, <3>2
  <2> QED BY <1>2, <2>1, <2>2, FollowsTrans DEF Ends
<1>5. \A x \in More(Recorded(f)) : Ends(r, x)
  BY <1>4, MoreEnds
<1>6. \A x \in More(More(Recorded(f))) : Ends(r, x)
  BY <1>5, MoreEnds
<1>7. \A x \in More(More(More(Recorded(f)))) : Ends(r, x) /\ x[1].over
  BY <1>6, MoreEnds
<1> QED
  BY <1>3, <1>7 DEF Ends

-----------------------------------------------------------------------------
(***************************************************************************)
(* The inductive invariant. Base holds for every value of the constants:   *)
(* the types, who holds the two locks, what a session's start and end mean *)
(* for its tick, and how far a trip and a resync can be apart. Calm says   *)
(* what the collision rules while no trip fell into a window; Sure adds    *)
(* what keeps a halted take from being committed.                          *)
(***************************************************************************)
TickLabels == {"idle", "enter", "step", "slot", "add", "stop", "drain", "unlock", "recheck",
               "publish", "ready"}
MainLabels == {"idle", "claim", "init", "try", "drain", "unlock", "recheck", "settle",
               "release", "unfreeze", "resume", "clear"}
Mid == {"halt", "try", "drain", "unlock", "recheck", "status"}
GuardLabels == Mid \cup {"idle", "assert", "lower"}
Held == {"step", "slot", "add", "stop", "drain", "unlock"}
Labels == TickLabels \cup MainLabels \cup GuardLabels

Flags ==
    /\ discardReq \in BOOLEAN /\ on \in BOOLEAN /\ active \in BOOLEAN /\ pending \in BOOLEAN
    /\ homed \in BOOLEAN /\ interrupted \in BOOLEAN /\ ending \in BOOLEAN /\ flag \in BOOLEAN
    /\ crossed \in BOOLEAN
Kinds ==
    /\ endReq \in {"none", "finish", "stop"}
    /\ lock \in Threads \cup {Free} /\ flagLock \in {"main", "guard", Free}
    /\ tick \in [own : BOOLEAN, out : {"return", "status", "ready"}]
    /\ resync \in {"none", "due", "over"} /\ shown \in {"collision", "record", "ready"}
Places ==
    /\ pc \in [Threads -> Labels]
    /\ pc["tick"] \in TickLabels /\ pc["main"] \in MainLabels /\ pc["guard"] \in GuardLabels
Typed == Good(rec) /\ Flags /\ Kinds /\ Places

\* Whoever is between the lock's two ends holds it, and nobody else does.
Locked ==
    /\ \A p \in Threads : lock = p <=> pc[p] \in Held
    /\ flagLock = "guard" <=> pc["guard"] \in {"assert", "lower"}
    /\ flagLock = "main" <=> pc["main"] = "unfreeze"

\* Before its start has made the session there is nothing to record; a tick that reports its
\* end has finalized the dataset.
Begun ==
    /\ rec.st = "none" => /\ ~discardReq /\ endReq = "none" /\ ~ending /\ pc["tick"] = "idle"
                          /\ on \/ interrupted => pc["main"] = "init"
    /\ pc["main"] \in {"claim", "init"} => rec.st = "none"
    /\ pc["main"] = "init" => on \/ interrupted
    /\ tick.out = "ready" \/ pc["tick"] \in {"stop", "ready"} => rec.over

\* A trip is pending from its latch to its last statement; a recovery holds the collision
\* until its release, and no trip is latched so long.
Tripped ==
    /\ pc["guard"] \in Mid => pending /\ active
    /\ pending /\ active => pc["guard"] \in Mid
    /\ pc["guard"] = "assert" => active
    /\ pc["guard"] = "lower" => ~active
Recovering ==
    /\ resync = "due" => active
    /\ resync = "none" => ~ending
    /\ pc["main"] \in {"settle", "release", "unfreeze", "resume", "clear"} => resync = "over"
    /\ resync = "over" => pc["main"] \notin {"idle", "claim", "init", "try"}
    /\ resync = "over" /\ pc["main"] \notin {"unfreeze", "resume", "clear"} => active /\ ~pending
    /\ pc["main"] = "settle" => interrupted \/ ending

Base == Typed /\ Locked /\ Begun /\ Tripped /\ Recovering /\ RequestIsServed

\* What has been halted: the session, the leader, and the page that says so.
Frozen ==
    /\ pc["main"] \in Windows => ~active
    /\ active /\ pc["guard"] # "halt" => ~on /\ flag
    /\ active /\ pc["guard"] \notin Mid => shown = "collision"
\* The session on its way through a recovery.
Over == rec.over \/ rec.st = "none"
Kept ==
    /\ Over \/ on \/ interrupted \/ ending
    /\ resync = "over" /\ pc["main"] \notin {"settle", "clear"} => interrupted \/ Over
    /\ pc["main"] = "clear" => on \/ Over
Lowered == ~active /\ pc["main"] # "unfreeze" => ~flag
Calm == Lowered /\ (~crossed => Frozen /\ Kept)

\* A halted take: its discard waits, and the session with it, until whoever is in the recorder
\* has looked. A tick that is still in its step has a session or a trip's recovery around it.
AddLabels == {"step", "slot", "add"}
Unsettled == active /\ (interrupted \/ ending) /\ (resync = "over" => pc["main"] = "settle")
Hot == rec.hot => discardReq /\ InFlight(rec) /\ ~on /\ Unsettled
Stopped ==
    /\ pc["main"] = "settle" /\ discardReq => pc["tick"] \in AddLabels \cup {"stop", "drain"}
    /\ pc["tick"] = "add" => rec.st = "run"
    /\ pc["tick"] \in AddLabels /\ active /\ pc["guard"] # "halt" => discardReq \/ rec.st # "run"
    /\ pc["tick"] \in AddLabels /\ ~on => Unsettled /\ pc["guard"] # "halt"
Sure == ~crossed => ~rec.bad /\ Hot /\ Stopped

-----------------------------------------------------------------------------
(* What a step makes of the recorder: unless START makes the session, it   *)
(* stays as good, begun and over as it was.                                *)
Onward ==
    Good(rec') /\ (rec'.st = "none" <=> rec.st = "none") /\ (rec.over => rec'.over)

LEMMA FollowsOn ==
    ASSUME Follows(rec, rec'), rec.st # "none" PROVE Onward
BY DEF Follows, Onward

LEMMA DrainedOn ==
    ASSUME Typed, Begun, NEW young \in BOOLEAN
    PROVE  LET x == Drained(rec, discardReq, endReq, young)
           IN  /\ Good(x) /\ (x.st = "none" <=> rec.st = "none") /\ (rec.over => x.over)
               /\ rec.st # "none" => Follows(rec, x)
<1>1. CASE rec.st = "none"
  BY <1>1 DEF Typed, Begun, Drained, AfterDiscard, AfterEnd
<1>2. CASE rec.st # "none"
  <2>1. Follows(rec, Drained(rec, discardReq, endReq, young))
    BY <1>2, DrainedGood DEF Typed, Flags, Kinds
  <2> QED BY <1>2, <2>1 DEF Follows
<1> QED
  BY <1>1, <1>2

LEMMA RecordCallOn ==
    ASSUME Typed, Begun, rec.st # "none", RecordCall
    PROVE  /\ Onward /\ discardReq' = FALSE /\ endReq' = "none"
           /\ tick' \in [own : BOOLEAN, out : {"return", "status", "ready"}]
           /\ tick'.out = "ready" => rec'.over
<1>1. PICK young \in BOOLEAN :
        \E x \in IF Drained(rec, discardReq, endReq, young).st = "run"
                 THEN {<<AddFrame(Drained(rec, discardReq, endReq, young), Halted), FALSE>>}
                 ELSE Recorded(Drained(rec, discardReq, endReq, young)) :
          /\ rec' = x[1]
          /\ discardReq' = FALSE /\ endReq' = "none"
          /\ tick' = [tick EXCEPT !.out = IF x[2] \/ @ = "ready" THEN "ready" ELSE "status"]
  BY DEF RecordCall
<1> DEFINE r == Drained(rec, discardReq, endReq, young)
<1>2. Good(r) /\ r.st # "none" /\ (rec.over => r.over)
  BY DrainedOn
<1>3. PICK x \in IF r.st = "run" THEN {<<AddFrame(r, Halted), FALSE>>} ELSE Recorded(r) :
          /\ rec' = x[1]
          /\ discardReq' = FALSE /\ endReq' = "none"
          /\ tick' = [tick EXCEPT !.out = IF x[2] \/ @ = "ready" THEN "ready" ELSE "status"]
  BY <1>1
<1> HIDE DEF r
<1>4. /\ Good(x[1]) /\ x[1].st # "none" /\ (r.over => x[1].over)
      /\ x[2] => x[1].over
  <2>1. CASE r.st = "run"
    <3>1. x = <<AddFrame(r, Halted), FALSE>> /\ Halted \in BOOLEAN
      BY <1>3, <2>1 DEF Halted
    <3>2. x[1] = AddFrame(r, Halted) /\ x[2] = FALSE
      BY <3>1
    <3> QED BY <1>2, <2>1, <3>1, <3>2, AddFrameGood
  <2>2. CASE r.st # "run"
    BY <1>2, <1>3, <2>2, RecordedGood DEF Follows
  <2> QED BY <2>1, <2>2
<1>5. Onward
  BY <1>2, <1>3, <1>4 DEF Onward
<1>6. /\ tick' \in [own : BOOLEAN, out : {"return", "status", "ready"}]
      /\ tick'.out = "ready" => x[2] \/ tick.out = "ready"
  BY <1>3 DEF Typed, Kinds
<1>7. tick'.out = "ready" => rec'.over
  BY <1>3, <1>4, <1>5, <1>6 DEF Begun, Onward
<1> QED
  BY <1>3, <1>5, <1>6, <1>7

LEMMA DrainOn ==
    ASSUME Typed, Begun, NEW p \in Threads, Drain(p) PROVE Onward
BY DrainedOn DEF Drain, Onward

LEMMA TickLockOn ==
    ASSUME Typed, Begun, TickLock
    PROVE  Onward /\ (rec' = rec \/ (Owns /\ Follows(rec, rec')))
<1>1. rec.st # "none" /\ Good(rec)
  BY DEF TickLock, Typed, Begun
<1>2. CASE Owns /\ rec' \in Inputs(rec)
  <2>1. PICK x \in Inputs(rec) : rec' = x
    BY <1>2
  <2>2. \/ x = rec \/ x = ReRecord(rec) \/ x \in EarlySave(rec)
        \/ \E y \in BOOLEAN : x = Finish(rec, y)
    BY DEF Inputs
  <2>3. Follows(rec, x)
    BY <1>1, <2>2, ReRecordGood, EarlySaveGood, FinishGood DEF Follows
  <2> QED BY <1>1, <1>2, <2>1, <2>3, FollowsOn
<1>3. CASE rec' = rec
  BY <1>1, <1>3 DEF Onward
<1> QED
  BY <1>2, <1>3 DEF TickLock

LEMMA TickSlotOn ==
    ASSUME Typed, Begun, TickSlot PROVE Onward
BY DrainedOn DEF TickSlot, Onward

LEMMA TickFailsOn ==
    ASSUME Typed, Begun, TickFails 
    PROVE  /\ Onward /\ (pc'["tick"] = "stop" => rec'.over)
           /\ rec' = rec \/ (Owns /\ Follows(rec, rec'))
<1>1. rec.st # "none" /\ Good(rec) /\ pc \in [Threads -> Labels]
  BY DEF TickFails, Typed, Places, Begun
<1>2. CASE Owns /\ rec' \in AfterError(rec)
  <2>1. Follows(rec, rec') /\ rec'.over
    BY <1>1, <1>2, AfterErrorGood
  <2> QED BY <1>1, <1>2, <2>1, FollowsOn
<1>3. CASE rec' = rec /\ Goto("tick", "drain")
  BY <1>1, <1>3 DEF Onward, Goto, Threads
<1> QED
  BY <1>2, <1>3 DEF TickFails

LEMMA HaltOn ==
    ASSUME Typed, Halt PROVE Onward
<1>1. rec' = rec \/ rec' = [rec EXCEPT !.hot = InFlight(rec)]
  BY DEF Halt
<1>2. Good(rec) /\ InFlight(rec) \in BOOLEAN
  BY DEF Typed, InFlight
<1>3. CASE rec' = [rec EXCEPT !.hot = InFlight(rec)]
  BY <1>2, <1>3 DEF Onward, Good, Honest, Recorders
<1> QED
  BY <1>1, <1>2, <1>3 DEF Onward

LEMMA CommandOn ==
    ASSUME Typed, Begun, Command PROVE Onward /\ Follows(rec, rec')
<1>1. rec.st # "none" /\ Good(rec)
  BY DEF Command, Typed, Begun
<1>2. PICK x \in Commands : rec' = x
  BY DEF Command
<1>3. x = rec \/ x = ReRecord(rec) \/ x \in EarlySave(rec)
  BY DEF Commands, WireReRecord
<1>4. Follows(rec, x)
  BY <1>1, <1>3, ReRecordGood, EarlySaveGood DEF Follows
<1> QED
  BY <1>1, <1>2, <1>4, FollowsOn

LEMMA SettleOn ==
    ASSUME Typed, Begun, Recovering, Settle
    PROVE  Onward /\ (interrupted \/ rec'.over) /\ (rec' = rec \/ Follows(rec, rec'))
<1>1. rec.st # "none" /\ Good(rec)
  BY DEF Settle, Typed, Begun, Recovering
<1>2. CASE rec' = rec /\ interrupted
  BY <1>1, <1>2 DEF Onward
<1>3. CASE rec' \in EndNow(rec)
  <2>1. Follows(rec, rec') /\ rec'.over
    BY <1>1, <1>3, EndNowOver
  <2> QED BY <1>1, <2>1, FollowsOn
<1> QED
  BY <1>2, <1>3 DEF Settle

LEMMA FreshGood ==
    /\ Good(Fresh) /\ ~Fresh.hot /\ ~Fresh.bad /\ Fresh.st = "warmup" /\ ~Fresh.over
    /\ Good(NoSession) /\ NoSession.st = "none" /\ ~NoSession.over
<1>1. NoSession \in Recorders /\ Honest(NoSession)
  BY DEF NoSession, Recorders, States, Honest
<1>2. /\ NoSession.st = "none" /\ NoSession.over = FALSE /\ NoSession.hot = FALSE
      /\ NoSession.bad = FALSE /\ NoSession.due = FALSE /\ NoSession.done = FALSE
  BY DEF NoSession
<1> HIDE DEF NoSession
<1>3. /\ Fresh \in Recorders /\ Fresh.st = "warmup" /\ Fresh.over = FALSE /\ Fresh.hot = FALSE
      /\ Fresh.bad = FALSE /\ Fresh.due = FALSE /\ Fresh.done = FALSE
      /\ Fresh.count = NoSession.count /\ Fresh.commits = NoSession.commits
      /\ Fresh.saving = NoSession.saving
  BY <1>1, <1>2 DEF Fresh, Recorders, States
<1>4. Honest(Fresh)
  BY <1>1, <1>2, <1>3 DEF Honest
<1> QED
  BY <1>1, <1>2, <1>3, <1>4 DEF Good

LEMMA BaseInit == Init => Base
<1> SUFFICES ASSUME Init PROVE Base
  OBVIOUS
<1> USE DEF Init
<1>1. Good(rec)
  BY FreshGood
<1>2. Flags /\ Kinds
  BY DEF Flags, Kinds, Idle
<1>3. Places
  BY DEF Places, Labels, TickLabels, MainLabels, GuardLabels, Mid, Threads
<1>4. Locked
  BY RecordGuardAssumption DEF Locked, Held, Threads
<1>5. Begun
  BY FreshGood DEF Begun, Idle, Threads
<1>6. Tripped /\ Recovering
  BY DEF Tripped, Recovering, Threads, Mid
<1>7. RequestIsServed
  BY DEF RequestIsServed, Waiting
<1> QED
  BY <1>1, <1>2, <1>3, <1>4, <1>5, <1>6, <1>7 DEF Base, Typed

(* One action at a time: each names itself and leaves the rest.            *)
LEMMA OnwardStep ==
    ASSUME Typed, Begun, Recovering, Next PROVE Onward \/ StartInit
<1>1. Good(rec)
  BY DEF Typed
<1>2. CASE UNCHANGED rec
  BY <1>1, <1>2 DEF Onward
<1>3. CASE TickRecords \/ TickAdds
  <2>1. rec.st # "none"
    BY <1>3 DEF TickRecords, TickAdds, Begun
  <2> QED BY <1>3, <2>1, RecordCallOn DEF TickRecords, TickAdds
<1>4. CASE \E p \in Threads : LockStep(p)
  BY <1>2, <1>4, DrainOn DEF LockStep, Try, Unlock, Recheck
<1>5. CASE TickLock \/ TickSlot \/ TickFails \/ Halt \/ Command \/ Settle
  BY <1>5, TickLockOn, TickSlotOn, TickFailsOn, HaltOn, CommandOn, SettleOn
<1>6. CASE TickEnter \/ TickStops \/ TickPublishes \/ TickReady
  BY <1>2, <1>6 DEF TickEnter, TickStops, TickPublishes, TickReady, recorderVars
<1>7. CASE Latch \/ Watch \/ Perform \/ TripShown \/ WatchPublishes
  BY <1>2, <1>7 DEF Latch, Watch, Perform, TripShown, WatchPublishes, recorderVars
<1>8. CASE StartCheck \/ End \/ HomeFollower \/ Resume \/ ForceResume \/ ResyncFires
  BY <1>2, <1>8 DEF StartCheck, End, HomeFollower, Resume, ForceResume, ResyncFires, recorderVars
<1>9. CASE StartClaim \/ Release \/ Unfreeze \/ ResumeSession \/ Clear
  BY <1>2, <1>9 DEF StartClaim, Release, Unfreeze, ResumeSession, Clear, recorderVars
<1> QED
  BY <1>3, <1>4, <1>5, <1>6, <1>7, <1>8, <1>9 DEF Next, TickStep, GuardStep, Student, MainStep

(* Each conjunct in turn, one action at a time.                            *)
LEMMA PlacesStep ==
    ASSUME Places, Next PROVE Places'
<1> USE RecordGuardAssumption DEF Goto, Threads, Places, Labels, TickLabels, MainLabels,
     GuardLabels, Mid,
        recorderVars, guardVars, resumeVars, topicVars
<1>1. CASE TickEnter
  BY <1>1 DEF TickEnter
<1>2. CASE TickLock
  BY <1>2 DEF TickLock, Owns
<1>3. CASE TickRecords
  BY <1>3 DEF TickRecords
<1>4. CASE TickSlot
  BY <1>4 DEF TickSlot
<1>5. CASE TickAdds
  BY <1>5 DEF TickAdds
<1>6. CASE TickFails
  BY <1>6 DEF TickFails
<1>7. CASE TickStops
  BY <1>7 DEF TickStops, Ready
<1>8. CASE TickPublishes
  BY <1>8 DEF TickPublishes, Idle, Publishes
<1>9. CASE TickReady
  BY <1>9 DEF TickReady, Ready, Idle
<1>10. CASE Latch
  BY <1>10 DEF Latch
<1>11. CASE Watch
  BY <1>11 DEF Watch, FlagLockFree
<1>12. CASE Perform
  BY <1>12 DEF Perform
<1>13. CASE Halt
  BY <1>13 DEF Halt
<1>14. CASE TripShown
  BY <1>14 DEF TripShown
<1>15. CASE WatchPublishes
  BY <1>15 DEF WatchPublishes
<1>16. CASE StartCheck
  BY <1>16 DEF StartCheck
<1>17. CASE Command
  BY <1>17 DEF Command
<1>18. CASE End
  BY <1>18 DEF End
<1>19. CASE HomeFollower
  BY <1>19 DEF HomeFollower
<1>20. CASE Resume
  BY <1>20 DEF Resume
<1>21. CASE ForceResume
  BY <1>21 DEF ForceResume, EndsInterrupted
<1>22. CASE ResyncFires
  BY <1>22 DEF ResyncFires
<1>23. CASE StartClaim
  BY <1>23 DEF StartClaim
<1>24. CASE StartInit
  BY <1>24 DEF StartInit
<1>25. CASE Settle
  BY <1>25 DEF Settle
<1>26. CASE Release
  BY <1>26 DEF Release
<1>27. CASE Unfreeze
  BY <1>27 DEF Unfreeze
<1>28. CASE ResumeSession
  BY <1>28 DEF ResumeSession
<1>29. CASE Clear
  BY <1>29 DEF Clear
<1>30. ASSUME NEW p \in Threads, Try(p) PROVE Places'
  BY <1>30 DEF Try, After
<1>31. ASSUME NEW p \in Threads, Drain(p) PROVE Places'
  BY <1>31 DEF Drain
<1>32. ASSUME NEW p \in Threads, Unlock(p) PROVE Places'
  BY <1>32 DEF Unlock
<1>33. ASSUME NEW p \in Threads, Recheck(p) PROVE Places'
  BY <1>33 DEF Recheck, After, LooksAgain
<1> QED
  BY <1>1, <1>2, <1>3, <1>4, <1>5, <1>6, <1>7, <1>8, <1>9, <1>10, <1>11, <1>12, <1>13, <1>14,
       <1>15, <1>16, <1>17, <1>18, <1>19, <1>20, <1>21, <1>22, <1>23, <1>24, <1>25, <1>26, <1>27,
       <1>28, <1>29, <1>30, <1>31, <1>32, <1>33
     DEF Next, LockStep, TickStep, GuardStep, Student, MainStep

LEMMA LockedStep ==
    ASSUME Typed, Locked, Next PROVE Locked'
<1> USE RecordGuardAssumption DEF Goto, Threads, Locked, Typed, Kinds, Places, Held,
        recorderVars, guardVars, resumeVars, topicVars
<1>1. CASE TickEnter
  BY <1>1 DEF TickEnter
<1>2. CASE TickLock
  BY <1>2 DEF TickLock, Owns
<1>3. CASE TickRecords
  BY <1>3 DEF TickRecords
<1>4. CASE TickSlot
  BY <1>4 DEF TickSlot
<1>5. CASE TickAdds
  BY <1>5 DEF TickAdds
<1>6. CASE TickFails
  BY <1>6 DEF TickFails
<1>7. CASE TickStops
  BY <1>7 DEF TickStops, Ready
<1>8. CASE TickPublishes
  BY <1>8 DEF TickPublishes, Idle, Publishes
<1>9. CASE TickReady
  BY <1>9 DEF TickReady, Ready, Idle
<1>10. CASE Latch
  BY <1>10 DEF Latch
<1>11. CASE Watch
  BY <1>11 DEF Watch, FlagLockFree
<1>12. CASE Perform
  BY <1>12 DEF Perform
<1>13. CASE Halt
  BY <1>13 DEF Halt
<1>14. CASE TripShown
  BY <1>14 DEF TripShown
<1>15. CASE WatchPublishes
  BY <1>15 DEF WatchPublishes
<1>16. CASE StartCheck
  BY <1>16 DEF StartCheck
<1>17. CASE Command
  BY <1>17 DEF Command
<1>18. CASE End
  BY <1>18 DEF End
<1>19. CASE HomeFollower
  BY <1>19 DEF HomeFollower
<1>20. CASE Resume
  BY <1>20 DEF Resume
<1>21. CASE ForceResume
  BY <1>21 DEF ForceResume, EndsInterrupted
<1>22. CASE ResyncFires
  BY <1>22 DEF ResyncFires
<1>23. CASE StartClaim
  BY <1>23 DEF StartClaim
<1>24. CASE StartInit
  BY <1>24 DEF StartInit
<1>25. CASE Settle
  BY <1>25 DEF Settle
<1>26. CASE Release
  BY <1>26 DEF Release
<1>27. CASE Unfreeze
  BY <1>27 DEF Unfreeze
<1>28. CASE ResumeSession
  BY <1>28 DEF ResumeSession
<1>29. CASE Clear
  BY <1>29 DEF Clear
<1>30. ASSUME NEW p \in Threads, Try(p) PROVE Locked'
  BY <1>30 DEF Try, After
<1>31. ASSUME NEW p \in Threads, Drain(p) PROVE Locked'
  BY <1>31 DEF Drain
<1>32. ASSUME NEW p \in Threads, Unlock(p) PROVE Locked'
  BY <1>32 DEF Unlock
<1>33. ASSUME NEW p \in Threads, Recheck(p) PROVE Locked'
  BY <1>33 DEF Recheck, After, LooksAgain
<1> QED
  BY <1>1, <1>2, <1>3, <1>4, <1>5, <1>6, <1>7, <1>8, <1>9, <1>10, <1>11, <1>12, <1>13, <1>14,
       <1>15, <1>16, <1>17, <1>18, <1>19, <1>20, <1>21, <1>22, <1>23, <1>24, <1>25, <1>26, <1>27,
       <1>28, <1>29, <1>30, <1>31, <1>32, <1>33
     DEF Next, LockStep, TickStep, GuardStep, Student, MainStep

LEMMA TrippedStep ==
    ASSUME Typed, Locked, Tripped, Recovering, Next PROVE Tripped'
<1> USE RecordGuardAssumption DEF Goto, Threads, Tripped, Recovering, Locked, Typed, Places,
     Kinds, Mid,
        recorderVars, guardVars, resumeVars, topicVars
<1>1. CASE TickEnter
  BY <1>1 DEF TickEnter
<1>2. CASE TickLock
  BY <1>2 DEF TickLock, Owns
<1>3. CASE TickRecords
  BY <1>3 DEF TickRecords
<1>4. CASE TickSlot
  BY <1>4 DEF TickSlot
<1>5. CASE TickAdds
  BY <1>5 DEF TickAdds
<1>6. CASE TickFails
  BY <1>6 DEF TickFails
<1>7. CASE TickStops
  BY <1>7 DEF TickStops, Ready
<1>8. CASE TickPublishes
  BY <1>8 DEF TickPublishes, Idle, Publishes
<1>9. CASE TickReady
  BY <1>9 DEF TickReady, Ready, Idle
<1>10. CASE Latch
  BY <1>10 DEF Latch
<1>11. CASE Watch
  BY <1>11 DEF Watch, FlagLockFree
<1>12. CASE Perform
  BY <1>12 DEF Perform
<1>13. CASE Halt
  BY <1>13 DEF Halt
<1>14. CASE TripShown
  BY <1>14 DEF TripShown
<1>15. CASE WatchPublishes
  BY <1>15 DEF WatchPublishes
<1>16. CASE StartCheck
  BY <1>16 DEF StartCheck
<1>17. CASE Command
  BY <1>17 DEF Command
<1>18. CASE End
  BY <1>18 DEF End
<1>19. CASE HomeFollower
  BY <1>19 DEF HomeFollower
<1>20. CASE Resume
  BY <1>20 DEF Resume
<1>21. CASE ForceResume
  BY <1>21 DEF ForceResume, EndsInterrupted
<1>22. CASE ResyncFires
  BY <1>22 DEF ResyncFires
<1>23. CASE StartClaim
  BY <1>23 DEF StartClaim
<1>24. CASE StartInit
  BY <1>24 DEF StartInit
<1>25. CASE Settle
  BY <1>25 DEF Settle
<1>26. CASE Release
  BY <1>26 DEF Release
<1>27. CASE Unfreeze
  BY <1>27 DEF Unfreeze
<1>28. CASE ResumeSession
  BY <1>28 DEF ResumeSession
<1>29. CASE Clear
  BY <1>29 DEF Clear
<1>30. ASSUME NEW p \in Threads, Try(p) PROVE Tripped'
  BY <1>30 DEF Try, After
<1>31. ASSUME NEW p \in Threads, Drain(p) PROVE Tripped'
  BY <1>31 DEF Drain
<1>32. ASSUME NEW p \in Threads, Unlock(p) PROVE Tripped'
  BY <1>32 DEF Unlock
<1>33. ASSUME NEW p \in Threads, Recheck(p) PROVE Tripped'
  BY <1>33 DEF Recheck, After, LooksAgain
<1> QED
  BY <1>1, <1>2, <1>3, <1>4, <1>5, <1>6, <1>7, <1>8, <1>9, <1>10, <1>11, <1>12, <1>13, <1>14,
       <1>15, <1>16, <1>17, <1>18, <1>19, <1>20, <1>21, <1>22, <1>23, <1>24, <1>25, <1>26, <1>27,
       <1>28, <1>29, <1>30, <1>31, <1>32, <1>33
     DEF Next, LockStep, TickStep, GuardStep, Student, MainStep

LEMMA RecoveringStep ==
    ASSUME Typed, Tripped, Recovering, Next PROVE Recovering'
<1> USE RecordGuardAssumption DEF Goto, Threads, Tripped, Recovering, Typed, Places, Kinds, Mid,
        recorderVars, guardVars, resumeVars, topicVars
<1>1. CASE TickEnter
  BY <1>1 DEF TickEnter
<1>2. CASE TickLock
  BY <1>2 DEF TickLock, Owns
<1>3. CASE TickRecords
  BY <1>3 DEF TickRecords
<1>4. CASE TickSlot
  BY <1>4 DEF TickSlot
<1>5. CASE TickAdds
  BY <1>5 DEF TickAdds
<1>6. CASE TickFails
  BY <1>6 DEF TickFails
<1>7. CASE TickStops
  BY <1>7 DEF TickStops, Ready
<1>8. CASE TickPublishes
  BY <1>8 DEF TickPublishes, Idle, Publishes
<1>9. CASE TickReady
  BY <1>9 DEF TickReady, Ready, Idle
<1>10. CASE Latch
  BY <1>10 DEF Latch
<1>11. CASE Watch
  BY <1>11 DEF Watch, FlagLockFree
<1>12. CASE Perform
  BY <1>12 DEF Perform
<1>13. CASE Halt
  BY <1>13 DEF Halt
<1>14. CASE TripShown
  BY <1>14 DEF TripShown
<1>15. CASE WatchPublishes
  BY <1>15 DEF WatchPublishes
<1>16. CASE StartCheck
  BY <1>16 DEF StartCheck
<1>17. CASE Command
  BY <1>17 DEF Command
<1>18. CASE End
  BY <1>18 DEF End
<1>19. CASE HomeFollower
  BY <1>19 DEF HomeFollower
<1>20. CASE Resume
  BY <1>20 DEF Resume
<1>21. CASE ForceResume
  BY <1>21 DEF ForceResume, EndsInterrupted
<1>22. CASE ResyncFires
  BY <1>22 DEF ResyncFires
<1>23. CASE StartClaim
  BY <1>23 DEF StartClaim
<1>24. CASE StartInit
  BY <1>24 DEF StartInit
<1>25. CASE Settle
  BY <1>25 DEF Settle
<1>26. CASE Release
  BY <1>26 DEF Release
<1>27. CASE Unfreeze
  BY <1>27 DEF Unfreeze
<1>28. CASE ResumeSession
  BY <1>28 DEF ResumeSession
<1>29. CASE Clear
  BY <1>29 DEF Clear
<1>30. ASSUME NEW p \in Threads, Try(p) PROVE Recovering'
  BY <1>30 DEF Try, After
<1>31. ASSUME NEW p \in Threads, Drain(p) PROVE Recovering'
  BY <1>31 DEF Drain
<1>32. ASSUME NEW p \in Threads, Unlock(p) PROVE Recovering'
  BY <1>32 DEF Unlock
<1>33. ASSUME NEW p \in Threads, Recheck(p) PROVE Recovering'
  BY <1>33 DEF Recheck, After, LooksAgain
<1> QED
  BY <1>1, <1>2, <1>3, <1>4, <1>5, <1>6, <1>7, <1>8, <1>9, <1>10, <1>11, <1>12, <1>13, <1>14,
       <1>15, <1>16, <1>17, <1>18, <1>19, <1>20, <1>21, <1>22, <1>23, <1>24, <1>25, <1>26, <1>27,
       <1>28, <1>29, <1>30, <1>31, <1>32, <1>33
     DEF Next, LockStep, TickStep, GuardStep, Student, MainStep

LEMMA ServedStep ==
    ASSUME Typed, Locked, RequestIsServed, Next PROVE RequestIsServed'
<1> USE RecordGuardAssumption DEF Goto, Threads, RequestIsServed, Locked, Typed, Places, Kinds,
     Held, Waiting, RecordCall,
        recorderVars, guardVars, resumeVars, topicVars
<1>1. CASE TickEnter
  BY <1>1 DEF TickEnter
<1>2. CASE TickLock
  BY <1>2 DEF TickLock, Owns
<1>3. CASE TickRecords
  BY <1>3 DEF TickRecords
<1>4. CASE TickSlot
  BY <1>4 DEF TickSlot
<1>5. CASE TickAdds
  BY <1>5 DEF TickAdds
<1>6. CASE TickFails
  BY <1>6 DEF TickFails
<1>7. CASE TickStops
  BY <1>7 DEF TickStops, Ready
<1>8. CASE TickPublishes
  BY <1>8 DEF TickPublishes, Idle, Publishes
<1>9. CASE TickReady
  BY <1>9 DEF TickReady, Ready, Idle
<1>10. CASE Latch
  BY <1>10 DEF Latch
<1>11. CASE Watch
  BY <1>11 DEF Watch, FlagLockFree
<1>12. CASE Perform
  BY <1>12 DEF Perform
<1>13. CASE Halt
  BY <1>13 DEF Halt
<1>14. CASE TripShown
  BY <1>14 DEF TripShown
<1>15. CASE WatchPublishes
  BY <1>15 DEF WatchPublishes
<1>16. CASE StartCheck
  BY <1>16 DEF StartCheck
<1>17. CASE Command
  BY <1>17 DEF Command
<1>18. CASE End
  BY <1>18 DEF End
<1>19. CASE HomeFollower
  BY <1>19 DEF HomeFollower
<1>20. CASE Resume
  BY <1>20 DEF Resume
<1>21. CASE ForceResume
  BY <1>21 DEF ForceResume, EndsInterrupted
<1>22. CASE ResyncFires
  BY <1>22 DEF ResyncFires
<1>23. CASE StartClaim
  BY <1>23 DEF StartClaim
<1>24. CASE StartInit
  BY <1>24 DEF StartInit
<1>25. CASE Settle
  BY <1>25 DEF Settle
<1>26. CASE Release
  BY <1>26 DEF Release
<1>27. CASE Unfreeze
  BY <1>27 DEF Unfreeze
<1>28. CASE ResumeSession
  BY <1>28 DEF ResumeSession
<1>29. CASE Clear
  BY <1>29 DEF Clear
<1>30. ASSUME NEW p \in Threads, Try(p) PROVE RequestIsServed'
  BY <1>30 DEF Try, After
<1>31. ASSUME NEW p \in Threads, Drain(p) PROVE RequestIsServed'
  BY <1>31 DEF Drain
<1>32. ASSUME NEW p \in Threads, Unlock(p) PROVE RequestIsServed'
  BY <1>32 DEF Unlock
<1>33. ASSUME NEW p \in Threads, Recheck(p) PROVE RequestIsServed'
  BY <1>33 DEF Recheck, After, LooksAgain
<1> QED
  BY <1>1, <1>2, <1>3, <1>4, <1>5, <1>6, <1>7, <1>8, <1>9, <1>10, <1>11, <1>12, <1>13, <1>14,
       <1>15, <1>16, <1>17, <1>18, <1>19, <1>20, <1>21, <1>22, <1>23, <1>24, <1>25, <1>26, <1>27,
       <1>28, <1>29, <1>30, <1>31, <1>32, <1>33
     DEF Next, LockStep, TickStep, GuardStep, Student, MainStep

LEMMA FlagsStep ==
    ASSUME Typed, Begun, Next PROVE Flags'
<1>a. TickRecords \/ TickAdds => RecordCall /\ rec.st # "none"
  BY DEF TickRecords, TickAdds, Begun
<1>b. TickRecords \/ TickAdds =>
        /\ discardReq' = FALSE /\ endReq' = "none"
        /\ tick' \in [own : BOOLEAN, out : {"return", "status", "ready"}]
  BY <1>a, RecordCallOn
<1> USE RecordGuardAssumption DEF Goto, Threads, Flags, Typed,
        recorderVars, guardVars, resumeVars, topicVars
<1>1. CASE TickEnter
  BY <1>1, Zenon DEF TickEnter
<1>2. CASE TickLock
  BY <1>2, Zenon DEF TickLock, Owns
<1>3. CASE TickRecords
  BY <1>3, Zenon, <1>b DEF TickRecords
<1>4. CASE TickSlot
  BY <1>4, Zenon DEF TickSlot
<1>5. CASE TickAdds
  BY <1>5, Zenon, <1>b DEF TickAdds
<1>6. CASE TickFails
  BY <1>6, Zenon DEF TickFails
<1>7. CASE TickStops
  BY <1>7, Zenon DEF TickStops, Ready
<1>8. CASE TickPublishes
  BY <1>8, Zenon DEF TickPublishes, Idle, Publishes
<1>9. CASE TickReady
  BY <1>9, Zenon DEF TickReady, Ready, Idle
<1>10. CASE Latch
  BY <1>10, Zenon DEF Latch
<1>11. CASE Watch
  BY <1>11, Zenon DEF Watch, FlagLockFree
<1>12. CASE Perform
  BY <1>12, Zenon DEF Perform
<1>13. CASE Halt
  BY <1>13, Zenon DEF Halt
<1>14. CASE TripShown
  BY <1>14, Zenon DEF TripShown
<1>15. CASE WatchPublishes
  BY <1>15, Zenon DEF WatchPublishes
<1>16. CASE StartCheck
  BY <1>16, Zenon DEF StartCheck
<1>17. CASE Command
  BY <1>17, Zenon DEF Command
<1>18. CASE End
  BY <1>18, Zenon DEF End
<1>19. CASE HomeFollower
  BY <1>19, Zenon DEF HomeFollower
<1>20. CASE Resume
  BY <1>20, Zenon DEF Resume
<1>21. CASE ForceResume
  BY <1>21, Zenon DEF ForceResume, EndsInterrupted
<1>22. CASE ResyncFires
  BY <1>22, Zenon DEF ResyncFires
<1>23. CASE StartClaim
  BY <1>23, Zenon DEF StartClaim
<1>24. CASE StartInit
  BY <1>24, Zenon DEF StartInit
<1>25. CASE Settle
  BY <1>25, Zenon DEF Settle
<1>26. CASE Release
  BY <1>26, Zenon DEF Release
<1>27. CASE Unfreeze
  BY <1>27, Zenon DEF Unfreeze
<1>28. CASE ResumeSession
  BY <1>28, Zenon DEF ResumeSession
<1>29. CASE Clear
  BY <1>29, Zenon DEF Clear
<1>30. ASSUME NEW p \in Threads, Try(p) PROVE Flags'
  BY <1>30, Zenon DEF Try, After
<1>31. ASSUME NEW p \in Threads, Drain(p) PROVE Flags'
  BY <1>31, Zenon DEF Drain
<1>32. ASSUME NEW p \in Threads, Unlock(p) PROVE Flags'
  BY <1>32, Zenon DEF Unlock
<1>33. ASSUME NEW p \in Threads, Recheck(p) PROVE Flags'
  BY <1>33, Zenon DEF Recheck, After, LooksAgain
<1> QED
  BY <1>1, <1>2, <1>3, <1>4, <1>5, <1>6, <1>7, <1>8, <1>9, <1>10, <1>11, <1>12, <1>13, <1>14,
       <1>15, <1>16, <1>17, <1>18, <1>19, <1>20, <1>21, <1>22, <1>23, <1>24, <1>25, <1>26, <1>27,
       <1>28, <1>29, <1>30, <1>31, <1>32, <1>33
     DEF Next, LockStep, TickStep, GuardStep, Student, MainStep

LEMMA KindsStep ==
    ASSUME Typed, Locked, Begun, Next PROVE Kinds'
<1>a. TickRecords \/ TickAdds => RecordCall /\ rec.st # "none"
  BY DEF TickRecords, TickAdds, Begun
<1>b. TickRecords \/ TickAdds =>
        /\ discardReq' = FALSE /\ endReq' = "none"
        /\ tick' \in [own : BOOLEAN, out : {"return", "status", "ready"}]
  BY <1>a, RecordCallOn
<1> USE RecordGuardAssumption DEF Goto, Threads, Kinds, Typed,
        recorderVars, guardVars, resumeVars, topicVars
<1>1. CASE TickEnter
  BY <1>1 DEF TickEnter
<1>2. CASE TickLock
  BY <1>2 DEF TickLock, Owns
<1>3. CASE TickRecords
  BY <1>3, <1>b DEF TickRecords
<1>4. CASE TickSlot
  BY <1>4 DEF TickSlot
<1>5. CASE TickAdds
  BY <1>5, <1>b DEF TickAdds
<1>6. CASE TickFails
  BY <1>6 DEF TickFails
<1>7. CASE TickStops
  BY <1>7 DEF TickStops, Ready
<1>8. CASE TickPublishes
  BY <1>8 DEF TickPublishes, Idle, Publishes
<1>9. CASE TickReady
  BY <1>9 DEF TickReady, Ready, Idle
<1>10. CASE Latch
  BY <1>10 DEF Latch
<1>11. CASE Watch
  BY <1>11 DEF Watch, FlagLockFree
<1>12. CASE Perform
  BY <1>12 DEF Perform
<1>13. CASE Halt
  BY <1>13 DEF Halt
<1>14. CASE TripShown
  BY <1>14 DEF TripShown
<1>15. CASE WatchPublishes
  BY <1>15 DEF WatchPublishes
<1>16. CASE StartCheck
  BY <1>16 DEF StartCheck
<1>17. CASE Command
  BY <1>17 DEF Command
<1>18. CASE End
  BY <1>18 DEF End
<1>19. CASE HomeFollower
  BY <1>19 DEF HomeFollower
<1>20. CASE Resume
  BY <1>20 DEF Resume
<1>21. CASE ForceResume
  BY <1>21 DEF ForceResume, EndsInterrupted
<1>22. CASE ResyncFires
  BY <1>22 DEF ResyncFires
<1>23. CASE StartClaim
  BY <1>23 DEF StartClaim
<1>24. CASE StartInit
  BY <1>24 DEF StartInit
<1>25. CASE Settle
  BY <1>25 DEF Settle
<1>26. CASE Release
  BY <1>26 DEF Release
<1>27. CASE Unfreeze
  BY <1>27 DEF Unfreeze
<1>28. CASE ResumeSession
  BY <1>28 DEF ResumeSession
<1>29. CASE Clear
  BY <1>29 DEF Clear
<1>30. ASSUME NEW p \in Threads, Try(p) PROVE Kinds'
  BY <1>30 DEF Try, After
<1>31. ASSUME NEW p \in Threads, Drain(p) PROVE Kinds'
  BY <1>31 DEF Drain
<1>32. ASSUME NEW p \in Threads, Unlock(p) PROVE Kinds'
  BY <1>32 DEF Unlock
<1>33. ASSUME NEW p \in Threads, Recheck(p) PROVE Kinds'
  BY <1>33 DEF Recheck, After, LooksAgain
<1> QED
  BY <1>1, <1>2, <1>3, <1>4, <1>5, <1>6, <1>7, <1>8, <1>9, <1>10, <1>11, <1>12, <1>13, <1>14,
       <1>15, <1>16, <1>17, <1>18, <1>19, <1>20, <1>21, <1>22, <1>23, <1>24, <1>25, <1>26, <1>27,
       <1>28, <1>29, <1>30, <1>31, <1>32, <1>33
     DEF Next, LockStep, TickStep, GuardStep, Student, MainStep

LEMMA BegunStep ==
    ASSUME Typed, Begun, Recovering, Tripped, Next PROVE Begun'
<1> USE RecordGuardAssumption DEF Goto, Threads, Begun, Typed, Places, Kinds, Recovering, Tripped,
        recorderVars, guardVars, resumeVars, topicVars
<1>1. CASE TickEnter
  BY <1>1 DEF TickEnter
<1>2. CASE TickLock
  BY <1>2, TickLockOn DEF Onward, Owns, Follows, TickLock
<1>3. CASE TickRecords
  BY <1>3, RecordCallOn DEF Onward, Owns, Follows, TickRecords
<1>4. CASE TickSlot
  BY <1>4, TickSlotOn DEF Onward, Owns, Follows, TickSlot
<1>5. CASE TickAdds
  BY <1>5, RecordCallOn DEF Onward, Owns, Follows, TickAdds
<1>6. CASE TickFails
  BY <1>6, TickFailsOn DEF Onward, Owns, Follows, TickFails
<1>7. CASE TickStops
  BY <1>7 DEF TickStops, Ready
<1>8. CASE TickPublishes
  BY <1>8 DEF TickPublishes, Idle, Publishes
<1>9. CASE TickReady
  BY <1>9 DEF TickReady, Ready, Idle
<1>10. CASE Latch
  BY <1>10 DEF Latch
<1>11. CASE Watch
  BY <1>11 DEF Watch, FlagLockFree
<1>12. CASE Perform
  BY <1>12 DEF Perform
<1>13. CASE Halt
  BY <1>13, HaltOn DEF Onward, Owns, Follows, Halt
<1>14. CASE TripShown
  BY <1>14 DEF TripShown
<1>15. CASE WatchPublishes
  BY <1>15 DEF WatchPublishes
<1>16. CASE StartCheck
  BY <1>16 DEF StartCheck
<1>17. CASE Command
  BY <1>17, CommandOn DEF Onward, Owns, Follows, Command
<1>18. CASE End
  BY <1>18 DEF End
<1>19. CASE HomeFollower
  BY <1>19 DEF HomeFollower
<1>20. CASE Resume
  BY <1>20 DEF Resume
<1>21. CASE ForceResume
  BY <1>21 DEF ForceResume, EndsInterrupted
<1>22. CASE ResyncFires
  BY <1>22 DEF ResyncFires
<1>23. CASE StartClaim
  BY <1>23 DEF StartClaim
<1>24. CASE StartInit
  BY <1>24, FreshGood DEF StartInit, Good
<1>25. CASE Settle
  BY <1>25, SettleOn DEF Onward, Owns, Follows, Settle
<1>26. CASE Release
  BY <1>26 DEF Release
<1>27. CASE Unfreeze
  BY <1>27 DEF Unfreeze
<1>28. CASE ResumeSession
  BY <1>28 DEF ResumeSession
<1>29. CASE Clear
  BY <1>29 DEF Clear
<1>30. ASSUME NEW p \in Threads, Try(p) PROVE Begun'
  BY <1>30 DEF Try, After
<1>31. ASSUME NEW p \in Threads, Drain(p) PROVE Begun'
  BY <1>31, DrainOn DEF Onward, Owns, Follows, Drain
<1>32. ASSUME NEW p \in Threads, Unlock(p) PROVE Begun'
  BY <1>32 DEF Unlock
<1>33. ASSUME NEW p \in Threads, Recheck(p) PROVE Begun'
  BY <1>33 DEF Recheck, After, LooksAgain
<1> QED
  BY <1>1, <1>2, <1>3, <1>4, <1>5, <1>6, <1>7, <1>8, <1>9, <1>10, <1>11, <1>12, <1>13, <1>14,
       <1>15, <1>16, <1>17, <1>18, <1>19, <1>20, <1>21, <1>22, <1>23, <1>24, <1>25, <1>26, <1>27,
       <1>28, <1>29, <1>30, <1>31, <1>32, <1>33
     DEF Next, LockStep, TickStep, GuardStep, Student, MainStep

LEMMA BaseStep == Base /\ [Next]_vars => Base'
<1> SUFFICES ASSUME Base, [Next]_vars PROVE Base'
  OBVIOUS
<1>1. Typed /\ Locked /\ Begun /\ Tripped /\ Recovering /\ RequestIsServed
  BY DEF Base
<1>2. CASE Next
  <2>1. Good(rec')
    <3>1. CASE StartInit
      BY <3>1, FreshGood DEF StartInit
    <3>2. CASE Onward
      BY <3>2 DEF Onward
    <3> QED BY <1>1, <1>2, <3>1, <3>2, OnwardStep
  <2>2. Flags' /\ Kinds' /\ Places'
    BY <1>1, <1>2, FlagsStep, KindsStep, PlacesStep DEF Typed
  <2>3. Typed'
    BY <2>1, <2>2 DEF Typed
  <2>4. Locked' /\ Begun' /\ Tripped' /\ Recovering' /\ RequestIsServed'
    BY <1>1, <1>2, LockedStep, BegunStep, TrippedStep, RecoveringStep, ServedStep
  <2> QED BY <2>3, <2>4 DEF Base
<1>3. CASE UNCHANGED vars
  <2> USE <1>3 DEF vars, recorderVars, guardVars, resumeVars, topicVars
  <2>1. Typed'
    BY <1>1 DEF Typed, Flags, Kinds, Places
  <2>2. Locked' /\ Begun'
    BY <1>1 DEF Locked, Begun
  <2>3. Tripped' /\ Recovering' /\ RequestIsServed'
    BY <1>1 DEF Tripped, Recovering, RequestIsServed, Waiting
  <2> QED BY <2>1, <2>2, <2>3 DEF Base
<1> QED
  BY <1>2, <1>3

(* What the collision rules, step by step.                                 *)
LEMMA LoweredStep ==
    ASSUME Typed, Locked, Tripped, Recovering, Lowered, Next PROVE Lowered'
<1> USE RecordGuardAssumption DEF Goto, Threads, Lowered, Typed, Places, Flags, Locked, Tripped,
     Recovering, Mid,
        recorderVars, guardVars, resumeVars, topicVars
<1>1. CASE TickEnter
  BY <1>1 DEF TickEnter
<1>2. CASE TickLock
  BY <1>2 DEF TickLock, Owns
<1>3. CASE TickRecords
  BY <1>3 DEF TickRecords
<1>4. CASE TickSlot
  BY <1>4 DEF TickSlot
<1>5. CASE TickAdds
  BY <1>5 DEF TickAdds
<1>6. CASE TickFails
  BY <1>6 DEF TickFails
<1>7. CASE TickStops
  BY <1>7 DEF TickStops, Ready
<1>8. CASE TickPublishes
  BY <1>8 DEF TickPublishes, Idle, Publishes
<1>9. CASE TickReady
  BY <1>9 DEF TickReady, Ready, Idle
<1>10. CASE Latch
  BY <1>10 DEF Latch
<1>11. CASE Watch
  BY <1>11 DEF Watch, FlagLockFree
<1>12. CASE Perform
  BY <1>12 DEF Perform
<1>13. CASE Halt
  BY <1>13 DEF Halt
<1>14. CASE TripShown
  BY <1>14 DEF TripShown
<1>15. CASE WatchPublishes
  BY <1>15 DEF WatchPublishes
<1>16. CASE StartCheck
  BY <1>16 DEF StartCheck
<1>17. CASE Command
  BY <1>17 DEF Command
<1>18. CASE End
  BY <1>18 DEF End
<1>19. CASE HomeFollower
  BY <1>19 DEF HomeFollower
<1>20. CASE Resume
  BY <1>20 DEF Resume
<1>21. CASE ForceResume
  BY <1>21 DEF ForceResume, EndsInterrupted
<1>22. CASE ResyncFires
  BY <1>22 DEF ResyncFires
<1>23. CASE StartClaim
  BY <1>23 DEF StartClaim
<1>24. CASE StartInit
  BY <1>24 DEF StartInit, Good
<1>25. CASE Settle
  BY <1>25 DEF Settle
<1>26. CASE Release
  BY <1>26 DEF Release
<1>27. CASE Unfreeze
  BY <1>27 DEF Unfreeze
<1>28. CASE ResumeSession
  BY <1>28 DEF ResumeSession
<1>29. CASE Clear
  BY <1>29 DEF Clear
<1>30. ASSUME NEW p \in Threads, Try(p) PROVE Lowered'
  BY <1>30 DEF Try, After
<1>31. ASSUME NEW p \in Threads, Drain(p) PROVE Lowered'
  BY <1>31 DEF Drain
<1>32. ASSUME NEW p \in Threads, Unlock(p) PROVE Lowered'
  BY <1>32 DEF Unlock
<1>33. ASSUME NEW p \in Threads, Recheck(p) PROVE Lowered'
  BY <1>33 DEF Recheck, After, LooksAgain
<1> QED
  BY <1>1, <1>2, <1>3, <1>4, <1>5, <1>6, <1>7, <1>8, <1>9, <1>10, <1>11, <1>12, <1>13, <1>14,
       <1>15, <1>16, <1>17, <1>18, <1>19, <1>20, <1>21, <1>22, <1>23, <1>24, <1>25, <1>26, <1>27,
       <1>28, <1>29, <1>30, <1>31, <1>32, <1>33
     DEF Next, LockStep, TickStep, GuardStep, Student, MainStep

LEMMA FrozenStep ==
    ASSUME Base, ~crossed, ~crossed', Frozen, Next PROVE Frozen'
<1>a. Typed /\ Locked /\ Begun /\ Recovering /\ Tripped /\ RequestIsServed
  BY DEF Base
<1> USE RecordGuardAssumption DEF Goto, Threads, Frozen, Windows, Typed, Places, Flags, Locked,
     Begun, Tripped, Recovering, Mid, Owns,
        recorderVars, guardVars, resumeVars, topicVars
<1>1. CASE TickEnter
  BY <1>1, <1>a DEF TickEnter
<1>2. CASE TickLock
  BY <1>2, <1>a DEF TickLock, Owns
<1>3. CASE TickRecords
  BY <1>3, <1>a DEF TickRecords
<1>4. CASE TickSlot
  BY <1>4, <1>a DEF TickSlot
<1>5. CASE TickAdds
  BY <1>5, <1>a DEF TickAdds
<1>6. CASE TickFails
  BY <1>6, <1>a DEF TickFails
<1>7. CASE TickStops
  BY <1>7, <1>a DEF TickStops, Ready
<1>8. CASE TickPublishes
  BY <1>8, <1>a DEF TickPublishes, Idle, Publishes
<1>9. CASE TickReady
  BY <1>9, <1>a DEF TickReady, Ready, Idle
<1>10. CASE Latch
  BY <1>10, <1>a DEF Latch
<1>11. CASE Watch
  BY <1>11, <1>a DEF Watch, FlagLockFree
<1>12. CASE Perform
  BY <1>12, <1>a DEF Perform
<1>13. CASE Halt
  BY <1>13, <1>a DEF Halt
<1>14. CASE TripShown
  BY <1>14, <1>a DEF TripShown
<1>15. CASE WatchPublishes
  BY <1>15, <1>a DEF WatchPublishes
<1>16. CASE StartCheck
  BY <1>16, <1>a DEF StartCheck
<1>17. CASE Command
  BY <1>17, <1>a DEF Command
<1>18. CASE End
  BY <1>18, <1>a DEF End
<1>19. CASE HomeFollower
  BY <1>19, <1>a DEF HomeFollower
<1>20. CASE Resume
  BY <1>20, <1>a DEF Resume
<1>21. CASE ForceResume
  BY <1>21, <1>a DEF ForceResume, EndsInterrupted
<1>22. CASE ResyncFires
  BY <1>22, <1>a DEF ResyncFires
<1>23. CASE StartClaim
  BY <1>23, <1>a DEF StartClaim
<1>24. CASE StartInit
  BY <1>24, <1>a DEF StartInit, Good
<1>25. CASE Settle
  BY <1>25, <1>a DEF Settle
<1>26. CASE Release
  BY <1>26, <1>a DEF Release
<1>27. CASE Unfreeze
  BY <1>27, <1>a DEF Unfreeze
<1>28. CASE ResumeSession
  BY <1>28, <1>a DEF ResumeSession
<1>29. CASE Clear
  BY <1>29, <1>a DEF Clear
<1>30. ASSUME NEW p \in Threads, Try(p) PROVE Frozen'
  BY <1>30, <1>a DEF Try, After
<1>31. ASSUME NEW p \in Threads, Drain(p) PROVE Frozen'
  BY <1>31, <1>a DEF Drain
<1>32. ASSUME NEW p \in Threads, Unlock(p) PROVE Frozen'
  BY <1>32, <1>a DEF Unlock
<1>33. ASSUME NEW p \in Threads, Recheck(p) PROVE Frozen'
  BY <1>33, <1>a DEF Recheck, After, LooksAgain
<1> QED
  BY <1>1, <1>2, <1>3, <1>4, <1>5, <1>6, <1>7, <1>8, <1>9, <1>10, <1>11, <1>12, <1>13, <1>14,
       <1>15, <1>16, <1>17, <1>18, <1>19, <1>20, <1>21, <1>22, <1>23, <1>24, <1>25, <1>26, <1>27,
       <1>28, <1>29, <1>30, <1>31, <1>32, <1>33
     DEF Next, LockStep, TickStep, GuardStep, Student, MainStep

LEMMA KeptStep ==
    ASSUME Base, ~crossed, ~crossed', Frozen, Kept, Next PROVE Kept'
<1>a. Typed /\ Locked /\ Begun /\ Recovering /\ Tripped /\ RequestIsServed
  BY DEF Base
<1> USE RecordGuardAssumption DEF Goto, Threads, Kept, Over, Frozen, Windows, Typed, Places,
     Flags, Locked, Begun, Tripped, Recovering, Mid, Owns,
        recorderVars, guardVars, resumeVars, topicVars
<1>1. CASE TickEnter
  BY <1>1, <1>a DEF TickEnter
<1>2. CASE TickLock
  BY <1>2, <1>a, TickLockOn DEF Onward, Owns, Follows, TickLock
<1>3. CASE TickRecords
  BY <1>3, <1>a, RecordCallOn DEF Onward, Owns, Follows, TickRecords
<1>4. CASE TickSlot
  BY <1>4, <1>a, TickSlotOn DEF Onward, Owns, Follows, TickSlot
<1>5. CASE TickAdds
  BY <1>5, <1>a, RecordCallOn DEF Onward, Owns, Follows, TickAdds
<1>6. CASE TickFails
  BY <1>6, <1>a, TickFailsOn DEF Onward, Owns, Follows, TickFails
<1>7. CASE TickStops
  BY <1>7, <1>a DEF TickStops, Ready
<1>8. CASE TickPublishes
  BY <1>8, <1>a DEF TickPublishes, Idle, Publishes
<1>9. CASE TickReady
  BY <1>9, <1>a DEF TickReady, Ready, Idle
<1>10. CASE Latch
  BY <1>10, <1>a DEF Latch
<1>11. CASE Watch
  BY <1>11, <1>a DEF Watch, FlagLockFree
<1>12. CASE Perform
  BY <1>12, <1>a DEF Perform
<1>13. CASE Halt
  BY <1>13, <1>a, HaltOn DEF Onward, Owns, Follows, Halt
<1>14. CASE TripShown
  BY <1>14, <1>a DEF TripShown
<1>15. CASE WatchPublishes
  BY <1>15, <1>a DEF WatchPublishes
<1>16. CASE StartCheck
  BY <1>16, <1>a DEF StartCheck
<1>17. CASE Command
  BY <1>17, <1>a, CommandOn DEF Onward, Owns, Follows, Command
<1>18. CASE End
  BY <1>18, <1>a DEF End
<1>19. CASE HomeFollower
  BY <1>19, <1>a DEF HomeFollower
<1>20. CASE Resume
  BY <1>20, <1>a DEF Resume
<1>21. CASE ForceResume
  BY <1>21, <1>a DEF ForceResume, EndsInterrupted
<1>22. CASE ResyncFires
  BY <1>22, <1>a DEF ResyncFires
<1>23. CASE StartClaim
  BY <1>23, <1>a DEF StartClaim
<1>24. CASE StartInit
  BY <1>24, <1>a, FreshGood DEF StartInit, Good
<1>25. CASE Settle
  BY <1>25, <1>a, SettleOn DEF Onward, Owns, Follows, Settle
<1>26. CASE Release
  BY <1>26, <1>a DEF Release
<1>27. CASE Unfreeze
  BY <1>27, <1>a DEF Unfreeze
<1>28. CASE ResumeSession
  BY <1>28, <1>a DEF ResumeSession
<1>29. CASE Clear
  BY <1>29, <1>a DEF Clear
<1>30. ASSUME NEW p \in Threads, Try(p) PROVE Kept'
  BY <1>30, <1>a DEF Try, After
<1>31. ASSUME NEW p \in Threads, Drain(p) PROVE Kept'
  BY <1>31, <1>a, DrainOn DEF Onward, Owns, Follows, Drain
<1>32. ASSUME NEW p \in Threads, Unlock(p) PROVE Kept'
  BY <1>32, <1>a DEF Unlock
<1>33. ASSUME NEW p \in Threads, Recheck(p) PROVE Kept'
  BY <1>33, <1>a DEF Recheck, After, LooksAgain
<1> QED
  BY <1>1, <1>2, <1>3, <1>4, <1>5, <1>6, <1>7, <1>8, <1>9, <1>10, <1>11, <1>12, <1>13, <1>14,
       <1>15, <1>16, <1>17, <1>18, <1>19, <1>20, <1>21, <1>22, <1>23, <1>24, <1>25, <1>26, <1>27,
       <1>28, <1>29, <1>30, <1>31, <1>32, <1>33
     DEF Next, LockStep, TickStep, GuardStep, Student, MainStep

(* The takes: no step commits a halted one.                                *)
Cool == ~rec.bad /\ Hot
LEMMA DrainedCool ==
    ASSUME Typed, Begun, Hot, NEW young \in BOOLEAN
    PROVE  LET x == Drained(rec, discardReq, endReq, young)
           IN  /\ Good(x) /\ ~x.hot /\ (x.bad => rec.bad) /\ (x.st = "none" <=> rec.st = "none")
               /\ x.st \in {"run", "warmup"} => x = rec /\ ~discardReq
<1>1. CASE rec.st = "none"
  BY <1>1 DEF Typed, Begun, Drained, AfterDiscard, AfterEnd, Hot, InFlight
<1>2. CASE rec.st # "none"
  <2> DEFINE x == Drained(rec, discardReq, endReq, young)
  <2>0. Good(rec) /\ discardReq \in BOOLEAN /\ endReq \in {"none", "finish", "stop"}
    BY DEF Typed, Flags, Kinds
  <2>1. /\ Follows(rec, x) /\ (discardReq = TRUE /\ InFlight(rec) => ~x.hot)
        /\ x.st \in {"run", "warmup"} => x = rec /\ discardReq = FALSE
        /\ x.bad => rec.bad
    BY <1>2, <2>0, DrainedGood
  <2> HIDE DEF x
  <2>2. ~x.hot
    <3>1. CASE rec.hot
      BY <2>1, <3>1 DEF Hot
    <3>2. CASE ~rec.hot
      BY <2>1, <3>2 DEF Follows
    <3> QED BY <3>1, <3>2
  <2> QED BY <1>2, <2>1, <2>2 DEF Follows, x
<1> QED
  BY <1>1, <1>2

LEMMA RecordCallCool ==
    ASSUME Typed, Begun, Hot, rec.st # "none", RecordCall, ~Instant,
           Halted /\ ~discardReq => rec.st # "run"
    PROVE  /\ ~rec'.hot /\ (rec'.bad => rec.bad) /\ discardReq' = FALSE
           /\ rec.st = "run" /\ rec'.st = "run" => ~discardReq
<1>1. PICK young \in BOOLEAN :
        \E x \in IF Drained(rec, discardReq, endReq, young).st = "run"
                 THEN {<<AddFrame(Drained(rec, discardReq, endReq, young), Halted), FALSE>>}
                 ELSE Recorded(Drained(rec, discardReq, endReq, young)) :
          rec' = x[1] /\ discardReq' = FALSE
  BY DEF RecordCall
<1> DEFINE r == Drained(rec, discardReq, endReq, young)
<1>2. /\ Good(r) /\ ~r.hot /\ (r.bad => rec.bad) /\ r.st # "none"
      /\ r.st \in {"run", "warmup"} => r = rec /\ ~discardReq
  BY DrainedCool
<1>3. PICK x \in IF r.st = "run" THEN {<<AddFrame(r, Halted), FALSE>>} ELSE Recorded(r) :
          rec' = x[1] /\ discardReq' = FALSE
  BY <1>1
<1> HIDE DEF r
<1>4. CASE r.st = "run"
  <2>1. x = <<AddFrame(r, Halted), FALSE>> /\ Halted = FALSE
    BY <1>2, <1>3, <1>4 DEF Halted
  <2>2. x[1] = AddFrame(r, FALSE)
    BY <2>1
  <2>3. ~AddFrame(r, FALSE).hot /\ (AddFrame(r, FALSE).bad => r.bad)
    BY <1>2, <1>4, AddFrameGood
  <2> QED BY <1>2, <1>3, <1>4, <2>2, <2>3
<1>5. CASE r.st # "run"
  <2>1. /\ Follows(r, x[1])
        /\ x[1].st = "run" => r.st = "warmup" \/ (r.st = "reset" /\ (Instant \/ rec.st = "reset"))
    BY <1>2, <1>3, <1>5, RecordedGood
  <2>2. ~x[1].hot /\ (x[1].bad => rec.bad)
    BY <1>2, <2>1 DEF Follows
  <2> QED BY <1>2, <1>3, <2>1, <2>2
<1> QED
  BY <1>4, <1>5

LEMMA HaltHeat ==
    ASSUME Typed, Halt
    PROVE  /\ rec'.bad = rec.bad /\ rec'.st = rec.st
           /\ rec'.hot => rec.hot \/ (on /\ InFlight(rec))
           /\ InFlight(rec') <=> InFlight(rec)
<1>1. rec' = rec \/ (on /\ rec' = [rec EXCEPT !.hot = InFlight(rec)])
  BY DEF Halt
<1>2. rec \in Recorders /\ InFlight(rec) \in BOOLEAN
  BY DEF Typed, Good, InFlight
<1>3. CASE on /\ rec' = [rec EXCEPT !.hot = InFlight(rec)]
  <2>1. rec'.bad = rec.bad /\ rec'.st = rec.st /\ rec'.saving = rec.saving /\ rec'.hot = InFlight(rec)
    BY <1>2, <1>3 DEF Recorders
  <2> QED BY <1>3, <2>1 DEF InFlight
<1> QED
  BY <1>1, <1>3

LEMMA HotStep ==
    ASSUME Base, ~crossed, ~crossed', Frozen, ~Instant, ~rec.bad, Hot, Stopped, Next
    PROVE  ~rec'.bad /\ Hot'
<1>a. Typed /\ Locked /\ Begun /\ Recovering /\ Tripped /\ RequestIsServed
  BY DEF Base
<1>b. Good(rec)
  BY <1>a DEF Typed
<1>c. TickRecords \/ TickAdds => ~rec'.hot /\ (rec'.bad => rec.bad) /\ discardReq' = FALSE
        /\ (rec.st = "run" /\ rec'.st = "run" => ~discardReq)
  <2>1. TickRecords \/ TickAdds => RecordCall /\ rec.st # "none"
    BY <1>a DEF TickRecords, TickAdds, Begun
  <2>2. (TickRecords \/ TickAdds) /\ Halted /\ ~discardReq => rec.st # "run"
    BY DEF TickRecords, TickAdds, Halted, Stopped, AddLabels
  <2> QED BY <1>a, <2>1, <2>2, RecordCallCool
<1> USE RecordGuardAssumption DEF Goto, Threads, Hot, Stopped, Unsettled, AddLabels, InFlight,
     Frozen, Windows, Typed, Places, Flags, Locked, Begun, Tripped, Recovering, Mid, Held,
        recorderVars, guardVars, resumeVars, topicVars
<1>1. CASE TickEnter
  BY <1>1, <1>a DEF TickEnter
<1>2. CASE TickLock
  BY <1>2, <1>a, TickLockOn DEF Onward, Owns, Follows, TickLock
<1>3. CASE TickRecords
  BY <1>3, <1>a, <1>c DEF TickRecords
<1>4. CASE TickSlot
  BY <1>4, <1>a, DrainedCool DEF TickSlot, TakesSlot
<1>5. CASE TickAdds
  BY <1>5, <1>a, <1>c DEF TickAdds
<1>6. CASE TickFails
  BY <1>6, <1>a, TickFailsOn DEF Onward, Owns, Follows, TickFails
<1>7. CASE TickStops
  BY <1>7, <1>a DEF TickStops, Ready
<1>8. CASE TickPublishes
  BY <1>8, <1>a DEF TickPublishes, Idle, Publishes
<1>9. CASE TickReady
  BY <1>9, <1>a DEF TickReady, Ready, Idle
<1>10. CASE Latch
  BY <1>10, <1>a DEF Latch
<1>11. CASE Watch
  BY <1>11, <1>a DEF Watch, FlagLockFree
<1>12. CASE Perform
  BY <1>12, <1>a DEF Perform
<1>13. CASE Halt
  BY <1>13, <1>a, HaltHeat DEF Halt
<1>14. CASE TripShown
  BY <1>14, <1>a DEF TripShown
<1>15. CASE WatchPublishes
  BY <1>15, <1>a DEF WatchPublishes
<1>16. CASE StartCheck
  BY <1>16, <1>a DEF StartCheck
<1>17. CASE Command
  BY <1>17, <1>a, CommandOn DEF Onward, Owns, Follows, Command
<1>18. CASE End
  BY <1>18, <1>a DEF End
<1>19. CASE HomeFollower
  BY <1>19, <1>a DEF HomeFollower
<1>20. CASE Resume
  BY <1>20, <1>a DEF Resume
<1>21. CASE ForceResume
  BY <1>21, <1>a DEF ForceResume, EndsInterrupted
<1>22. CASE ResyncFires
  BY <1>22, <1>a DEF ResyncFires, RequestIsServed, Waiting, Kinds
<1>23. CASE StartClaim
  BY <1>23, <1>a DEF StartClaim
<1>24. CASE StartInit
  BY <1>24, <1>a, FreshGood DEF StartInit, Good
<1>25. CASE Settle
  BY <1>25, <1>a, SettleOn DEF Onward, Owns, Follows, Settle
<1>26. CASE Release
  BY <1>26, <1>a DEF Release
<1>27. CASE Unfreeze
  BY <1>27, <1>a DEF Unfreeze
<1>28. CASE ResumeSession
  BY <1>28, <1>a DEF ResumeSession
<1>29. CASE Clear
  BY <1>29, <1>a DEF Clear
<1>30. ASSUME NEW p \in Threads, Try(p) PROVE ~rec'.bad /\ Hot'
  BY <1>30, <1>a DEF Try, After
<1>31. ASSUME NEW p \in Threads, Drain(p) PROVE ~rec'.bad /\ Hot'
  BY <1>31, <1>a, DrainedCool DEF Drain
<1>32. ASSUME NEW p \in Threads, Unlock(p) PROVE ~rec'.bad /\ Hot'
  BY <1>32, <1>a DEF Unlock
<1>33. ASSUME NEW p \in Threads, Recheck(p) PROVE ~rec'.bad /\ Hot'
  BY <1>33, <1>a DEF Recheck, After, LooksAgain
<1> QED
  BY <1>1, <1>2, <1>3, <1>4, <1>5, <1>6, <1>7, <1>8, <1>9, <1>10, <1>11, <1>12, <1>13, <1>14,
       <1>15, <1>16, <1>17, <1>18, <1>19, <1>20, <1>21, <1>22, <1>23, <1>24, <1>25, <1>26, <1>27,
       <1>28, <1>29, <1>30, <1>31, <1>32, <1>33
     DEF Next, LockStep, TickStep, GuardStep, Student, MainStep

LEMMA StoppedStep ==
    ASSUME Base, ~crossed, ~crossed', Frozen, ~Instant, ~rec.bad, Hot, Stopped, Next PROVE Stopped'
<1>a. Typed /\ Locked /\ Begun /\ Recovering /\ Tripped /\ RequestIsServed
  BY DEF Base
<1>b. Good(rec)
  BY <1>a DEF Typed
<1>c. TickRecords \/ TickAdds => ~rec'.hot /\ (rec'.bad => rec.bad) /\ discardReq' = FALSE
        /\ (rec.st = "run" /\ rec'.st = "run" => ~discardReq)
  <2>1. TickRecords \/ TickAdds => RecordCall /\ rec.st # "none"
    BY <1>a DEF TickRecords, TickAdds, Begun
  <2>2. (TickRecords \/ TickAdds) /\ Halted /\ ~discardReq => rec.st # "run"
    BY DEF TickRecords, TickAdds, Halted, Stopped, AddLabels
  <2> QED BY <1>a, <2>1, <2>2, RecordCallCool
<1> USE RecordGuardAssumption DEF Goto, Threads, Hot, Stopped, Unsettled, AddLabels, InFlight,
     Frozen, Windows, Typed, Places, Flags, Locked, Begun, Tripped, Recovering, Mid, Held,
        recorderVars, guardVars, resumeVars, topicVars
<1>1. CASE TickEnter
  BY <1>1, <1>a DEF TickEnter
<1>2. CASE TickLock
  BY <1>2, <1>a, TickLockOn DEF Onward, Owns, Follows, TickLock
<1>3. CASE TickRecords
  BY <1>3, <1>a, <1>c DEF TickRecords
<1>4. CASE TickSlot
  BY <1>4, <1>a, DrainedCool DEF TickSlot, TakesSlot
<1>5. CASE TickAdds
  BY <1>5, <1>a, <1>c DEF TickAdds
<1>6. CASE TickFails
  BY <1>6, <1>a, TickFailsOn DEF Onward, Owns, Follows, TickFails
<1>7. CASE TickStops
  BY <1>7, <1>a DEF TickStops, Ready
<1>8. CASE TickPublishes
  BY <1>8, <1>a DEF TickPublishes, Idle, Publishes
<1>9. CASE TickReady
  BY <1>9, <1>a DEF TickReady, Ready, Idle
<1>10. CASE Latch
  BY <1>10, <1>a DEF Latch
<1>11. CASE Watch
  BY <1>11, <1>a DEF Watch, FlagLockFree
<1>12. CASE Perform
  BY <1>12, <1>a DEF Perform
<1>13. CASE Halt
  BY <1>13, <1>a, HaltHeat DEF Halt
<1>14. CASE TripShown
  BY <1>14, <1>a DEF TripShown
<1>15. CASE WatchPublishes
  BY <1>15, <1>a DEF WatchPublishes
<1>16. CASE StartCheck
  BY <1>16, <1>a DEF StartCheck
<1>17. CASE Command
  BY <1>17, <1>a, CommandOn DEF Onward, Owns, Follows, Command
<1>18. CASE End
  BY <1>18, <1>a DEF End
<1>19. CASE HomeFollower
  BY <1>19, <1>a DEF HomeFollower
<1>20. CASE Resume
  BY <1>20, <1>a DEF Resume
<1>21. CASE ForceResume
  BY <1>21, <1>a DEF ForceResume, EndsInterrupted
<1>22. CASE ResyncFires
  <2>1. /\ pc["tick"] \notin {"try", "recheck"} /\ pc["main"] = "idle"
        /\ pc["guard"] \in {"idle", "assert", "lower"}
    BY <1>22, <1>a DEF ResyncFires, TickLabels
  <2>2. discardReq => lock \in {"tick", "main", "guard"}
    BY <1>a, <2>1 DEF RequestIsServed, Waiting, Kinds
  <2>3. discardReq => pc["tick"] \in AddLabels \cup {"stop", "drain"}
    BY <1>22, <1>a, <2>1, <2>2 DEF ResyncFires
  <2> QED BY <1>22, <1>a, <2>3 DEF ResyncFires
<1>23. CASE StartClaim
  BY <1>23, <1>a DEF StartClaim
<1>24. CASE StartInit
  BY <1>24, <1>a, FreshGood DEF StartInit, Good
<1>25. CASE Settle
  BY <1>25, <1>a, SettleOn DEF Onward, Owns, Follows, Settle
<1>26. CASE Release
  BY <1>26, <1>a DEF Release
<1>27. CASE Unfreeze
  BY <1>27, <1>a DEF Unfreeze
<1>28. CASE ResumeSession
  BY <1>28, <1>a DEF ResumeSession
<1>29. CASE Clear
  BY <1>29, <1>a DEF Clear
<1>30. ASSUME NEW p \in Threads, Try(p) PROVE Stopped'
  BY <1>30, <1>a DEF Try, After
<1>31. ASSUME NEW p \in Threads, Drain(p) PROVE Stopped'
  BY <1>31, <1>a, DrainedCool DEF Drain
<1>32. ASSUME NEW p \in Threads, Unlock(p) PROVE Stopped'
  BY <1>32, <1>a DEF Unlock
<1>33. ASSUME NEW p \in Threads, Recheck(p) PROVE Stopped'
  BY <1>33, <1>a DEF Recheck, After, LooksAgain
<1> QED
  BY <1>1, <1>2, <1>3, <1>4, <1>5, <1>6, <1>7, <1>8, <1>9, <1>10, <1>11, <1>12, <1>13, <1>14,
       <1>15, <1>16, <1>17, <1>18, <1>19, <1>20, <1>21, <1>22, <1>23, <1>24, <1>25, <1>26, <1>27,
       <1>28, <1>29, <1>30, <1>31, <1>32, <1>33
     DEF Next, LockStep, TickStep, GuardStep, Student, MainStep

LEMMA CrossedStays == Typed /\ Next /\ crossed => crossed'
<1> SUFFICES ASSUME Typed, crossed, Next PROVE crossed'
  OBVIOUS
<1> USE DEF Goto, guardVars
<1>1. CASE \E p \in Threads : LockStep(p)
  BY <1>1 DEF LockStep, Try, Drain, Unlock, Recheck
<1>2. CASE TickEnter \/ TickStep \/ TickFails
  BY <1>2 DEF TickEnter, TickStep, TickFails, TickLock, TickRecords, TickSlot, TickAdds, TickStops,
              TickPublishes, TickReady
<1>3. CASE Latch \/ Watch \/ GuardStep
  BY <1>3 DEF Latch, Watch, GuardStep, Perform, Halt, TripShown, WatchPublishes
<1>4. CASE Student \/ ResyncFires
  BY <1>4 DEF Student, StartCheck, Command, End, HomeFollower, Resume, ForceResume, ResyncFires
<1>5. CASE MainStep
  BY <1>5 DEF MainStep, StartClaim, StartInit, Settle, Release, Unfreeze, ResumeSession, Clear
<1> QED
  BY <1>1, <1>2, <1>3, <1>4, <1>5 DEF Next

-----------------------------------------------------------------------------
(* The invariant of the whole, and what it says.                           *)
IInv == Base /\ Calm /\ (~Instant => Sure)

LEMMA IInvInit == Init => IInv
<1> SUFFICES ASSUME Init PROVE IInv
  OBVIOUS
<1>1. Base
  BY BaseInit
<1>2. /\ rec.st = "none" /\ ~rec.hot /\ ~rec.bad
      /\ ~active /\ ~flag /\ pc["main"] = "idle" /\ pc["tick"] = "idle" /\ resync = "none"
  BY DEF Init, NoSession, Threads
<1>3. Calm
  BY <1>2 DEF Calm, Lowered, Frozen, Kept, Over, Windows
<1>4. Sure
  BY <1>2 DEF Sure, Hot, Stopped, AddLabels
<1> QED
  BY <1>1, <1>3, <1>4 DEF IInv

LEMMA IInvStep == IInv /\ [Next]_vars => IInv'
<1> SUFFICES ASSUME IInv, [Next]_vars PROVE IInv'
  OBVIOUS
<1>1. Base' /\ Typed /\ Locked /\ Tripped /\ Recovering
  BY BaseStep DEF IInv, Base
<1>2. CASE Next
  <2>1. crossed => crossed'
    BY <1>1, <1>2, CrossedStays
  <2>2. Lowered'
    BY <1>1, <1>2, LoweredStep DEF IInv, Calm
  <2>3. ~crossed' => Frozen' /\ Kept'
    BY <1>2, <2>1, FrozenStep, KeptStep DEF IInv, Calm
  <2>4. ~Instant /\ ~crossed' => ~rec'.bad /\ Hot' /\ Stopped'
    BY <1>2, <2>1, HotStep, StoppedStep DEF IInv, Calm, Sure
  <2> QED BY <1>1, <2>2, <2>3, <2>4 DEF IInv, Calm, Sure
<1>3. CASE UNCHANGED vars
  <2> USE <1>3 DEF vars, recorderVars, guardVars, resumeVars, topicVars
  <2>1. Calm'
    BY DEF IInv, Calm, Lowered, Frozen, Kept, Over
  <2>2. ~Instant => Sure'
    BY DEF IInv, Sure, Hot, Stopped, Unsettled, InFlight
  <2> QED BY <1>1, <2>1, <2>2 DEF IInv
<1> QED
  BY <1>2, <1>3

(* Every reachable state is as the threads' steps assume it.              *)
THEOREM Invariant == Spec => []IInv
<1>1. Init => IInv
  BY IInvInit
<1>2. IInv /\ [Next]_vars => IInv'
  BY IInvStep
<1> QED
  BY <1>1, <1>2, PTL DEF Spec

(* A discard or an end that had to be left to the holder of the recorder   *)
(* lock is never left behind (_release_and_drain): inductive as it stands. *)
THEOREM RequestServed == Spec => []RequestIsServed
<1>1. IInv => RequestIsServed
  BY DEF IInv, Base
<1> QED
  BY <1>1, Invariant, PTL

(* Every take on disk is counted once, whatever the order of trips,        *)
(* repeats, FINISH, STOP, errors and the end of a recovery.                *)
THEOREM CountedOnce == Spec => []CountHonest
<1>1. IInv => CountHonest
  BY DEF IInv, Base, Typed, Good, Honest, CountHonest
<1> QED
  BY <1>1, Invariant, PTL

(* The page and the leader follow the collision (_publish_record_status,   *)
(* _collision_watchdog_cb, _on_resync_complete).                           *)
THEOREM CollisionShown == Spec => []CollisionIsShown
<1>1. IInv => CollisionStaysShown
  BY DEF IInv, Calm, Frozen, Mid, CollisionStaysShown
<1>2. IInv => FlagFollows
  BY DEF IInv, Calm, Frozen, Lowered, FlagFollows
<1>3. IInv => CollisionIsShown
  BY <1>1, <1>2 DEF CollisionIsShown
<1> QED
  BY <1>3, Invariant, PTL

(* A session stays in somebody's hands, and from every state two record()  *)
(* calls after FINISH or STOP finalize its dataset (end_session_now makes  *)
(* at most four).                                                          *)
THEOREM SessionEnds == Spec => []SessionCanEnd
<1>1. IInv => SessionIsHeld
  BY DEF IInv, Calm, Kept, Over, SessionIsHeld
<1>2. IInv => EndIsNear
  <2> SUFFICES ASSUME IInv, rec.st # "none", NEW r \in EndNow(rec) \cup EndNow(Stop(rec))
               PROVE  r.over
    BY DEF EndIsNear
  <2>1. Good(rec) /\ Good(Stop(rec)) /\ Stop(rec).st # "none"
    BY StopGood DEF IInv, Base, Typed, Follows
  <2> QED BY <2>1, EndNowOver
<1>3. IInv => SessionCanEnd
  BY <1>1, <1>2 DEF SessionCanEnd
<1> QED
  BY <1>3, Invariant, PTL

(* With a reset that takes time, no take that a trip interrupted is ever   *)
(* committed, nor a frame after the trip, and every take is counted once.  *)
THEOREM HonestTakes ==
    ASSUME ~Instant PROVE Spec => []TakesAreHonest
<1>1. IInv => InterruptedIsDiscarded
  BY DEF IInv, Sure, InterruptedIsDiscarded
<1>2. IInv => CountHonest
  BY DEF IInv, Base, Typed, Good, Honest, CountHonest
<1>3. IInv => TakesAreHonest
  BY <1>1, <1>2 DEF TakesAreHonest
<1> QED
  BY <1>3, Invariant, PTL
=============================================================================
