---------------------- MODULE RevocationChannelProofs -----------------------
(* What the revocation channel promises its consumers, for any set of tags    *)
(* and any number of lists, runs, failures and retries.                       *)
EXTENDS RevocationChannel, TLAPS

\* The steps of a run that has its checkout.
WithCheckout == Steps \ {"approval", "checkout"}

\* The concurrency group: at most one run is at work.
OneAtWork == \A t, u \in Tags : run[t] \in Steps /\ run[u] \in Steps => t = u

\* The run at work read its list from main after the channel changed last.
HolderIsNewest == \A t \in Tags : run[t] \in WithCheckout => newest <= list[t]

\* Only what main had has been published.
NewestIsOfMain == newest <= main

\* A consumer moves between what it has accepted and what the channel has held.
ConsumerIsBehind ==
    /\ accepted <= newest
    /\ fetched # None => accepted <= fetched /\ fetched <= newest

ChannelInv ==
    TypeOK /\ OneAtWork /\ HolderIsNewest /\ NewestIsOfMain /\ ChannelNeverGoesBack /\ ConsumerIsBehind

\* What a run that replaces the assets has done is in the channel.
UploadedIsThere ==
    \A t \in Tags : run[t] = "upload" =>
        /\ \A a \in Assets : <<"delete", a>> \in todo[t] => <<"upload", a>> \in todo[t]
        /\ <<"upload", "json">> \notin todo[t] => json = list[t]
        /\ <<"upload", "bundle">> \notin todo[t] => bundle = SignedBy(t)

PairInv == UploadedIsThere /\ SuccessLeavesAPair

-----------------------------------------------------------------------------
\* Every step keeps the types, whoever takes it.
LEMMA TypeStep ==
    ASSUME TypeOK, [Next]_vars
    PROVE  TypeOK'
<1> USE ChannelAssumption DEF TypeOK, Lists, Assets, Steps, workVars, channelVars, clientVars
<1>1. CASE Merge
  BY <1>1 DEF Merge
<1>2. CASE Fetch
  BY <1>2 DEF Fetch
<1>3. CASE Accept
  BY <1>3 DEF Accept
<1>4. ASSUME NEW n \in Lists, Expires(n) PROVE TypeOK'
  BY <1>4 DEF Expires
<1>5. ASSUME NEW t \in Tags, Rerun(t) PROVE TypeOK'
  BY <1>5 DEF Rerun, Queue
<1>6. ASSUME NEW t \in Tags, NEW where \in {"main", "elsewhere"}, PushTag(t, where) PROVE TypeOK'
  BY <1>6 DEF PushTag, Queue
<1>7. ASSUME NEW t \in Tags, Start(t) \/ Approve(t) \/ Fail(t) PROVE TypeOK'
  BY <1>7 DEF Start, Approve, Fail, Goes
<1>8. ASSUME NEW t \in Tags, Checkout(t) PROVE TypeOK'
  BY <1>8 DEF Checkout, Goes
<1>9. ASSUME NEW t \in Tags, CheckAncestry(t) \/ Validate(t) \/ Sign(t) PROVE TypeOK'
  BY <1>9 DEF CheckAncestry, Validate, Sign, Goes
<1>10. ASSUME NEW t \in Tags, View(t) PROVE TypeOK'
  BY <1>10 DEF View, Goes
<1>11. ASSUME NEW t \in Tags, Create(t) PROVE TypeOK'
  BY <1>11 DEF Create, Goes, SignedBy, Newer
<1>12. ASSUME NEW t \in Tags, NEW a \in Assets, Delete(t, a) PROVE TypeOK'
  BY <1>12 DEF Delete
<1>13. ASSUME NEW t \in Tags, NEW a \in Assets, Upload(t, a) PROVE TypeOK'
  BY <1>13 DEF Upload, Goes, SignedBy, Newer, Remaining
<1>14. CASE UNCHANGED vars
  BY <1>14 DEF vars
<1>15. QED
  BY <1>1, <1>2, <1>3, <1>4, <1>5, <1>6, <1>7, <1>8, <1>9, <1>10, <1>11, <1>12, <1>13, <1>14
  DEF Next, Job

\* The group is taken by a run that starts and by nobody before it is left.
LEMMA GroupStep ==
    ASSUME TypeOK, OneAtWork, [Next]_vars
    PROVE  OneAtWork'
<1> USE DEF TypeOK, OneAtWork, Steps, workVars, channelVars, clientVars
<1>1. CASE Merge \/ Fetch \/ Accept \/ \E n \in Lists : Expires(n)
  BY <1>1 DEF Merge, Fetch, Accept, Expires
<1>2. ASSUME NEW t \in Tags, Queue(t) PROVE OneAtWork'
  BY <1>2 DEF Queue
<1>3. ASSUME NEW t \in Tags, Start(t) PROVE OneAtWork'
  BY <1>3 DEF Start, Free, Goes
<1>4. ASSUME NEW t \in Tags, NEW from \in Steps, NEW to, Goes(t, from, to) PROVE OneAtWork'
  BY <1>4 DEF Goes
<1>5. ASSUME NEW t \in Tags, NEW a \in Assets, Delete(t, a) PROVE OneAtWork'
  BY <1>5 DEF Delete
<1>6. CASE UNCHANGED vars
  BY <1>6 DEF vars
<1>7. ASSUME NEW t \in Tags, Job(t) PROVE OneAtWork'
  <2>1. CASE Start(t)
    BY <1>3, <2>1
  <2>2. CASE Approve(t) \/ Checkout(t) \/ CheckAncestry(t) \/ Validate(t) \/ Sign(t)
    BY <1>4, <2>2 DEF Approve, Checkout, CheckAncestry, Validate, Sign
  <2>3. CASE View(t) \/ Create(t) \/ Fail(t)
    BY <1>4, <2>3 DEF View, Create, Fail
  <2>4. ASSUME NEW a \in Assets, Upload(t, a) PROVE OneAtWork'
    BY <1>4, <2>4 DEF Upload
  <2>5. QED
    BY <1>5, <1>7, <2>1, <2>2, <2>3, <2>4 DEF Job
<1>8. QED
  BY <1>1, <1>2, <1>6, <1>7 DEF Next, Rerun, PushTag

\* What each step keeps of the order accepted, fetched, channel, checkout, main.
LEMMA OrderStep ==
    ASSUME ChannelInv, [Next]_vars
    PROVE  HolderIsNewest' /\ NewestIsOfMain' /\ ChannelNeverGoesBack' /\ ConsumerIsBehind'
<1> DEFINE Ordered == HolderIsNewest /\ NewestIsOfMain /\ ChannelNeverGoesBack /\ ConsumerIsBehind
<1> USE ChannelAssumption
    DEF ChannelInv, HolderIsNewest, NewestIsOfMain, ChannelNeverGoesBack, ConsumerIsBehind,
        WithCheckout, Lists, Steps, workVars, channelVars, clientVars
<1>1. CASE Merge
  BY <1>1 DEF Merge, TypeOK
<1>2. CASE Fetch
  BY <1>2 DEF Fetch, TypeOK
<1>3. CASE Accept
  BY <1>3 DEF Accept, TypeOK
<1>4. ASSUME NEW n \in Lists, Expires(n) PROVE Ordered'
  BY <1>4 DEF Expires, TypeOK
<1>5. ASSUME NEW t \in Tags, Queue(t) PROVE Ordered'
  BY <1>5 DEF Queue, TypeOK
<1>6. ASSUME NEW t \in Tags, Start(t) \/ Approve(t) \/ Fail(t) PROVE Ordered'
  BY <1>6 DEF Start, Approve, Fail, Goes, TypeOK
<1>7. ASSUME NEW t \in Tags, Checkout(t) PROVE Ordered'
  BY <1>7 DEF Checkout, Goes, TypeOK
<1>8. ASSUME NEW t \in Tags, CheckAncestry(t) \/ Validate(t) \/ Sign(t) \/ View(t) PROVE Ordered'
  BY <1>8 DEF CheckAncestry, Validate, Sign, View, Goes, TypeOK
<1>9. ASSUME NEW t \in Tags, Create(t) PROVE Ordered'
  BY <1>9 DEF Create, Goes, Newer, TypeOK, OneAtWork
<1>10. ASSUME NEW t \in Tags, NEW a \in Assets, Delete(t, a) PROVE Ordered'
  BY <1>10 DEF Delete, TypeOK
<1>11. ASSUME NEW t \in Tags, Upload(t, "json") PROVE Ordered'
  BY <1>11 DEF Upload, Goes, Newer, TypeOK, OneAtWork
<1>12. ASSUME NEW t \in Tags, Upload(t, "bundle") PROVE Ordered'
  BY <1>12 DEF Upload, Goes, TypeOK
<1>13. CASE UNCHANGED vars
  BY <1>13 DEF vars
<1>14. QED
  BY <1>1, <1>2, <1>3, <1>4, <1>5, <1>6, <1>7, <1>8, <1>9, <1>10, <1>11, <1>12, <1>13
  DEF Next, Job, Rerun, PushTag, Assets

\* The invariant holds at first and after every step.
LEMMA ChannelInductive ==
    /\ Init => ChannelInv
    /\ ChannelInv /\ [Next]_vars => ChannelInv'
<1>1. Init => ChannelInv
  BY ChannelAssumption
  DEF Init, ChannelInv, TypeOK, OneAtWork, HolderIsNewest, NewestIsOfMain, ChannelNeverGoesBack,
      ConsumerIsBehind, WithCheckout, Steps, Lists, Assets
<1>2. ChannelInv /\ [Next]_vars => ChannelInv'
  BY TypeStep, GroupStep, OrderStep DEF ChannelInv
<1>3. QED
  BY <1>1, <1>2

\* A run that replaces the assets keeps what it has uploaded, and when nothing
\* is left to upload the two assets are its pair. It needs the group: another
\* run at work could delete an asset in between.
LEMMA PairStep ==
    ASSUME ChannelInv, PairInv, [Next]_vars
    PROVE  PairInv'
<1> USE DEF ChannelInv, TypeOK, PairInv, UploadedIsThere, SuccessLeavesAPair, SignedBy,
            Steps, Assets, workVars, channelVars, clientVars
<1>1. CASE Merge \/ Fetch \/ Accept \/ \E n \in Lists : Expires(n)
  BY <1>1 DEF Merge, Fetch, Accept, Expires
<1>2. ASSUME NEW t \in Tags, Queue(t) PROVE PairInv'
  BY <1>2 DEF Queue
<1>3. ASSUME NEW t \in Tags, Start(t) \/ Approve(t) \/ Fail(t) PROVE PairInv'
  BY <1>3 DEF Start, Approve, Fail, Goes
<1>4. ASSUME NEW t \in Tags, Checkout(t) PROVE PairInv'
  BY <1>4 DEF Checkout, Goes
<1>5. ASSUME NEW t \in Tags, CheckAncestry(t) \/ Validate(t) \/ Sign(t) PROVE PairInv'
  BY <1>5 DEF CheckAncestry, Validate, Sign, Goes
<1>6. ASSUME NEW t \in Tags, View(t) PROVE PairInv'
  BY <1>6 DEF View, Goes
<1>7. ASSUME NEW t \in Tags, Create(t) PROVE PairInv'
  BY <1>7 DEF Create, Goes, OneAtWork
<1>8. ASSUME NEW t \in Tags, NEW a \in Assets, Delete(t, a) PROVE PairInv'
  BY <1>8 DEF Delete, OneAtWork
<1>9. ASSUME NEW t \in Tags, NEW a \in Assets, Upload(t, a) PROVE PairInv'
  BY <1>9 DEF Upload, Goes, Remaining, OneAtWork
<1>10. CASE UNCHANGED vars
  BY <1>10 DEF vars
<1>11. QED
  BY <1>1, <1>2, <1>3, <1>4, <1>5, <1>6, <1>7, <1>8, <1>9, <1>10
  DEF Next, Job, Rerun, PushTag

-----------------------------------------------------------------------------
\* The variables of the channel keep their types for any number of tags, runs
\* and lists.
THEOREM TypeCorrect == Spec => []TypeOK
<1>1. ChannelInv => TypeOK
  BY DEF ChannelInv
<1>2. QED
  BY ChannelInductive, <1>1, PTL DEF Spec

\* However many tags are pushed, approved late, cancelled in the queue, fail
\* half-way and are run again, the channel holds the newest list it ever held
\* or none: revocations.yml reads the list from main inside its group.
THEOREM ChannelIsMonotone == Spec => []ChannelNeverGoesBack
<1>1. ChannelInv => ChannelNeverGoesBack
  BY DEF ChannelInv
<1>2. QED
  BY ChannelInductive, <1>1, PTL DEF Spec

\* A consumer never accepts a list older than the one it has, although it
\* fetches the pair in two requests while the workflow is replacing it.
THEOREM ConsumerIsMonotone == Spec => ConsumerNeverGoesBack
<1>1. ChannelInv /\ [Next]_vars => [accepted' >= accepted]_accepted
  <2> SUFFICES ASSUME ChannelInv, Next, accepted' # accepted
               PROVE  accepted' >= accepted
    BY DEF vars
  <2>1. Accept
    BY DEF Next, Job, Rerun, PushTag, Queue, Goes, Merge, Fetch, Expires, Start, Approve, Fail,
           Checkout, CheckAncestry, Validate, Sign, View, Create, Delete, Upload, clientVars
  <2>2. QED
    BY <2>1, ChannelAssumption DEF Accept, ChannelInv, ConsumerIsBehind, TypeOK, Lists
<1>2. QED
  BY ChannelInductive, <1>1, PTL DEF Spec, ConsumerNeverGoesBack

\* When the run that changed the channel last has succeeded, the two assets are
\* main's list and its signature under that run's tag: an upload that an
\* earlier run left half-done is overwritten whole.
THEOREM SuccessIsWhole == Spec => []SuccessLeavesAPair
<1>1. Init => PairInv
  BY DEF Init, PairInv, UploadedIsThere, SuccessLeavesAPair
<1>2. ChannelInv /\ PairInv /\ [Next]_vars => PairInv'
  BY PairStep
<1>3. PairInv => SuccessLeavesAPair
  BY DEF PairInv
<1>4. QED
  BY ChannelInductive, <1>1, <1>2, <1>3, PTL DEF Spec
=============================================================================
