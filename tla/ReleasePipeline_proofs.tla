------------------------ MODULE ReleasePipeline_proofs ------------------------
(***************************************************************************)
(* What the release workflows guarantee for any versions, builds, history  *)
(* of main and number of interventions by people.                          *)
(*                                                                         *)
(* A tag, once set, and a commit, once pushed, never change; that is what  *)
(* carries a check of one step over to the step that relies on it.         *)
(* ReleaseInv says what a build that may be published has passed, and      *)
(* RunInv what a run knows between its tag and its dispatch.               *)
(***************************************************************************)
EXTENDS ReleasePipeline, TLAPS

Commit == [version : Versions, literal : {"agrees", "differs", "no_literal"}, files : Nat]
Releases == [tag : Versions, dist : Dists \cup {NoDist}, phase : {"build", "publish"}]
Published == [commit : Nat, dist : Dists]

TypeInv ==
    /\ main \in Seq(Commit)
    /\ \A c \in 1..Len(main) : main[c].files \in 1..c
    /\ tags \in [Versions -> 0..Len(main)]
    /\ pending \in 0..Len(main) /\ running \in 0..Len(main)
    /\ running # 0 => pending # running
    /\ step \in {"none", "find", "tag", "dispatch"} /\ (step = "none" <=> running = 0)
    /\ green \subseteq 1..Len(main)
    /\ releases \subseteq Releases /\ \A r \in releases : tags[r.tag] # 0
    /\ index \in [Versions -> Published \cup {NotPublished}]
    /\ manual \in 0..MaxManual

\* What may be published under a version was built from its tag and checked.
Checked(v) ==
    /\ tags[v] # 0
    /\ main[tags[v]].version = v /\ main[tags[v]].literal = "agrees"

ReleaseInv ==
    /\ \A r \in releases : r.phase = "publish" =>
          r.dist \in Dists /\ CheckDist(r.dist) /\ Checked(r.tag)
    /\ \A v \in Versions : index[v] # NotPublished =>
          index[v].commit = tags[v] /\ Checked(v) /\ CheckDist(index[v].dist)

Tagged(c) ==
    /\ tags[main[c].version] # 0
    /\ main[tags[main[c].version]].files = main[c].files

RunInv ==
    /\ step = "dispatch" => Tagged(running)
    /\ \A c \in green : Tagged(c)

IInv == TypeInv /\ ReleaseInv /\ RunInv

LEMMA Initial == Init => IInv
<1> SUFFICES ASSUME Init PROVE IInv
  OBVIOUS
<1>1. main = << >> /\ main \in Seq(Commit) /\ Len(main) = 0
  BY DEF Init
<1> QED BY <1>1, ReleaseAssumption DEF Init, IInv, TypeInv, ReleaseInv, RunInv

LEMMA CommitType ==
  ASSUME main \in Seq(Commit), NEW c \in 1..Len(main)
  PROVE  main[c] \in Commit /\ main[c].version \in Versions /\ main[c].files \in Nat
<1>1. main[c] \in Commit
  OBVIOUS
<1> QED BY <1>1 DEF Commit

\* Nothing that is tagged or committed is changed by any step.
History ==
    /\ \A c \in 1..Len(main) : c \in 1..Len(main') /\ main'[c] = main[c]
    /\ \A v \in Versions : tags[v] # 0 => tags'[v] = tags[v]

LEMMA TaggedStays ==
  ASSUME TypeInv, History, NEW c \in 1..Len(main), Tagged(c)
  PROVE  Tagged(c)'
<1>1. main[c].version \in Versions
  BY CommitType DEF TypeInv
<1>2. tags[main[c].version] \in 1..Len(main)
  BY <1>1 DEF TypeInv, Tagged
<1> QED BY <1>1, <1>2 DEF History, Tagged

LEMMA CheckedStays ==
  ASSUME TypeInv, History, NEW v \in Versions, Checked(v)
  PROVE  Checked(v)' /\ tags'[v] = tags[v]
<1>1. tags[v] \in 1..Len(main)
  BY DEF TypeInv, Checked
<1> QED BY <1>1 DEF History, Checked

\* A step that starts releases at most, and publishes nothing.
LEMMA ReleasesStay ==
  ASSUME TypeInv, ReleaseInv, History, UNCHANGED index,
         \A r \in releases' : r \in releases \/ r.phase = "build"
  PROVE  ReleaseInv'
<1>1. ASSUME NEW r \in releases', r.phase = "publish"
      PROVE  r.dist \in Dists /\ CheckDist(r.dist) /\ Checked(r.tag)'
  <2>1. r \in releases /\ r.tag \in Versions
    BY <1>1 DEF TypeInv, Releases
  <2> QED BY <1>1, <2>1, CheckedStays DEF ReleaseInv
<1>2. ASSUME NEW v \in Versions, index'[v] # NotPublished
      PROVE  index'[v].commit = tags'[v] /\ Checked(v)' /\ CheckDist(index'[v].dist)
  BY <1>2, CheckedStays DEF ReleaseInv
<1> QED BY <1>1, <1>2 DEF ReleaseInv

\* A step that neither passes a run nor comes to the dispatch of one.
LEMMA RunsStay ==
  ASSUME TypeInv, RunInv, History, green' \subseteq green,
         step' = "dispatch" => step = "dispatch" /\ running' = running
  PROVE  RunInv'
<1>1. running \in 0..Len(main) /\ (step = "dispatch" => running \in 1..Len(main))
  BY DEF TypeInv
<1>2. ASSUME step' = "dispatch" PROVE Tagged(running)'
  <2>1. Tagged(running) /\ running \in 1..Len(main) /\ running' = running
    BY <1>1, <1>2 DEF RunInv
  <2>2. Tagged(running)' <=> /\ tags'[main'[running].version] # 0
                             /\ main'[tags'[main'[running].version]].files = main'[running].files
    BY <2>1 DEF Tagged
  <2>3. main[running].version \in Versions /\ tags[main[running].version] \in 1..Len(main)
    BY <2>1, CommitType DEF TypeInv, Tagged
  <2> QED BY <2>1, <2>2, <2>3 DEF History, Tagged
<1>3. ASSUME NEW c \in green' PROVE Tagged(c)'
  BY <1>3, TaggedStays DEF TypeInv, RunInv
<1> QED BY <1>2, <1>3 DEF RunInv

-----------------------------------------------------------------------------
\* The steps.

LEMMA PushInv == IInv /\ Push => IInv'
<1> SUFFICES ASSUME IInv, Push PROVE IInv'
  OBVIOUS
<1>1. PICK v \in Versions, l \in {"agrees", "differs", "no_literal"}, n \in 1..(Len(main) + 1) :
         main' = Append(main, [version |-> v, literal |-> l, files |-> n])
  <2>1. PICK v \in Versions, l \in {"agrees", "differs", "no_literal"} :
           \E n : /\ main' = Append(main, [version |-> v, literal |-> l, files |-> n])
                 /\ \/ main # << >> /\ n = main[Len(main)].files
                    \/ n = Len(main) + 1
    <3>1. PICK v \in Versions, l \in {"agrees", "differs", "no_literal"}, f \in BOOLEAN :
             main' = Append(main,
                       [version |-> v, literal |-> l,
                        files |-> IF /\ ~f /\ main # << >>
                                     /\ main[Len(main)].version = v
                                     /\ main[Len(main)].literal = l
                                  THEN main[Len(main)].files ELSE Len(main) + 1])
      BY Zenon DEF Push
    <3> QED BY <3>1, Zenon
  <2>2. PICK n : /\ main' = Append(main, [version |-> v, literal |-> l, files |-> n])
                 /\ \/ main # << >> /\ n = main[Len(main)].files
                    \/ n = Len(main) + 1
    BY <2>1
  <2>3. Len(main) \in Nat /\ (main # << >> => Len(main) \in 1..Len(main))
    BY DEF IInv, TypeInv
  <2>4. n \in 1..(Len(main) + 1)
    BY <2>2, <2>3 DEF IInv, TypeInv
  <2> QED BY <2>2, <2>4, Zenon
<1> DEFINE new == [version |-> v, literal |-> l, files |-> n]
<1>2. main \in Seq(Commit) /\ new \in Commit /\ Len(main) \in Nat
  BY DEF IInv, TypeInv, Commit
<1>3. new.files = n
  OBVIOUS
<1> HIDE DEF new
<1>4. /\ main' \in Seq(Commit) /\ Len(main') = Len(main) + 1
      /\ \A c \in 1..Len(main) : main'[c] = main[c]
      /\ main'[Len(main) + 1] = new
  BY <1>1, <1>2 DEF new
<1>5. pending' = Len(main) + 1 /\ UNCHANGED <<tags, running, step, green, releases, index, manual>>
  BY <1>4 DEF Push
<1>6. History
  BY <1>2, <1>4, <1>5 DEF History
<1>7. TypeInv'
  <2>1. \A c \in 1..Len(main') : main'[c].files \in 1..c
    <3> SUFFICES ASSUME NEW c \in 1..(Len(main) + 1) PROVE main'[c].files \in 1..c
      BY <1>4
    <3>1. CASE c = Len(main) + 1
      BY <1>3, <1>4, <3>1
    <3>2. CASE c \in 1..Len(main)
      BY <1>4, <3>2 DEF IInv, TypeInv
    <3> QED BY <1>2, <3>1, <3>2
  <2>2. /\ tags' \in [Versions -> 0..Len(main')] /\ green' \subseteq 1..Len(main')
        /\ pending' \in 0..Len(main') /\ running' \in 0..Len(main') /\ pending' # running'
    BY <1>2, <1>4, <1>5 DEF IInv, TypeInv
  <2> QED BY <1>4, <1>5, <2>1, <2>2 DEF IInv, TypeInv
<1>8. ReleaseInv'
  BY <1>5, <1>6, ReleasesStay DEF IInv
<1>9. RunInv'
  BY <1>5, <1>6, RunsStay DEF IInv
<1> QED BY <1>7, <1>8, <1>9 DEF IInv

\* People: reruns, tags, dispatches.
LEMMA PeopleInv ==
  ASSUME IInv, NEW c \in Commits, NEW v \in Versions,
         Rerun(c) \/ PushTag(v, c) \/ DispatchAgain(v)
  PROVE  IInv'
<1>0. /\ UNCHANGED <<main, running, step, green, index>> /\ manual' \in 0..MaxManual
      /\ c \in 1..Len(main)
  <2>1. UNCHANGED <<main, running, step, green, index>>
    BY DEF Rerun, PushTag, DispatchAgain, group
  <2>2. manual < MaxManual /\ manual' = manual + 1
    BY DEF Rerun, PushTag, DispatchAgain, Manual
  <2> QED BY <2>1, <2>2, ReleaseAssumption DEF IInv, TypeInv, Commits
<1>1. /\ releases' \subseteq releases \cup {ReleaseRun(v)}
      /\ releases' # releases => tags'[v] # 0
      /\ \A w \in Versions : tags[w] # 0 => tags'[w] = tags[w]
      /\ tags' \in [Versions -> 0..Len(main)]
  <2>0. tags \in [Versions -> 0..Len(main)]
    BY DEF IInv, TypeInv
  <2>1. CASE Rerun(c)
    BY <2>0, <2>1 DEF Rerun
  <2>2. CASE PushTag(v, c)
    <3>1. /\ tags[v] = 0 /\ tags' = [tags EXCEPT ![v] = c]
          /\ releases' = releases \cup {ReleaseRun(v)}
      BY <2>2 DEF PushTag
    <3>2. c # 0
      BY <1>0
    <3>3. tags'[v] = c /\ \A w \in Versions \ {v} : tags'[w] = tags[w]
      BY <2>0, <3>1
    <3>4. tags' \in [Versions -> 0..Len(main)]
      BY <1>0, <2>0, <3>1
    <3> QED BY <3>1, <3>2, <3>3, <3>4
  <2>3. CASE DispatchAgain(v)
    BY <2>0, <2>3 DEF DispatchAgain
  <2> QED BY <2>1, <2>2, <2>3
<1>2. ReleaseRun(v) \in Releases /\ ReleaseRun(v).phase = "build" /\ ReleaseRun(v).tag = v
  BY DEF ReleaseRun, Releases
<1>3. History
  BY <1>0, <1>1 DEF History
<1>4. pending' \in 0..Len(main) /\ (running # 0 => pending' # running)
  BY <1>0 DEF IInv, TypeInv, Rerun, PushTag, DispatchAgain, group
<1>5. \A r \in releases' : r \in Releases /\ tags'[r.tag] # 0
  BY <1>1, <1>2 DEF IInv, TypeInv, Releases
<1>6. TypeInv'
  BY <1>0, <1>1, <1>4, <1>5 DEF IInv, TypeInv
<1>7. ReleaseInv'
  BY <1>0, <1>1, <1>2, <1>3, ReleasesStay DEF IInv
<1>8. RunInv'
  BY <1>0, <1>3, RunsStay DEF IInv
<1> QED BY <1>6, <1>7, <1>8 DEF IInv

\* A run that comes to its dispatch or passes has seen the tag.
LEMMA RunKnows ==
  ASSUME TypeInv, RunInv, History,
         \A c \in green' : c \in green \/ Tagged(c)',
         step' = "dispatch" => Tagged(running)'
  PROVE  RunInv'
<1>1. ASSUME NEW c \in green' PROVE Tagged(c)'
  <2>1. CASE c \in green
    BY <2>1, TaggedStays DEF TypeInv, RunInv
  <2> QED BY <1>1, <2>1
<1> QED BY <1>1 DEF RunInv

LEMMA StartRunInv == IInv /\ StartRun => IInv'
<1> SUFFICES ASSUME IInv, StartRun PROVE IInv'
  OBVIOUS
<1>1. /\ running' = pending /\ pending # 0 /\ pending' = 0 /\ step' = "find"
      /\ UNCHANGED <<main, tags, green, releases, index, manual>>
  BY DEF StartRun, TakePending
<1>2. TypeInv' /\ History
  BY <1>1 DEF IInv, TypeInv, History
<1> QED BY <1>1, <1>2, ReleasesStay, RunsStay DEF IInv

\* auto-release.yml decides, tags and dispatches.
LEMMA AutoReleaseInv == IInv /\ (FindVersion \/ CreateTag \/ Dispatch) => IInv'
<1> SUFFICES ASSUME IInv, FindVersion \/ CreateTag \/ Dispatch PROVE IInv'
  OBVIOUS
<1>0. /\ running \in 1..Len(main) /\ main[running].version \in Versions
      /\ main \in Seq(Commit) /\ tags \in [Versions -> 0..Len(main)]
      /\ green \subseteq 1..Len(main) /\ pending \in 0..Len(main)
  <2>1. running \in 1..Len(main)
    <3>1. step \in {"find", "tag", "dispatch"}
      BY Zenon DEF FindVersion, CreateTag, Dispatch
    <3>2. Len(main) \in Nat /\ running \in 0..Len(main) /\ running # 0
      BY <3>1 DEF IInv, TypeInv
    <3> QED BY <3>2
  <2> QED BY <2>1, CommitType DEF IInv, TypeInv
<1> DEFINE v == main[running].version
<1>1. CASE FindVersion
  <2>1. /\ UNCHANGED <<main, tags, pending, releases, index, manual>>
        /\ \/ step' = "tag" /\ running' = running /\ green' = green
           \/ /\ running' = 0 /\ step' = "none"
              /\ green' \subseteq green \cup {running}
              /\ running \in green' => Tagged(running)
    BY <1>0, <1>1 DEF FindVersion, Ends, Unchanged, Version, Tagged
  <2>2. History
    BY <2>1 DEF History
  <2>4. TypeInv'
    <3>1. green' \subseteq 1..Len(main)
      BY <1>0, <2>1
    <3>2. /\ running' \in 0..Len(main) /\ (running' # 0 => pending # running')
          /\ step' \in {"none", "tag"} /\ (step' = "none" <=> running' = 0)
      BY <1>0, <2>1 DEF IInv, TypeInv
    <3> QED BY <2>1, <3>1, <3>2 DEF IInv, TypeInv
  <2>3. \A c \in green' : c \in green \/ Tagged(c)'
    BY <2>1 DEF Tagged
  <2> QED BY <2>1, <2>2, <2>3, <2>4, ReleasesStay, RunKnows DEF IInv
<1>2. CASE CreateTag
  <2>1. /\ UNCHANGED <<main, pending, releases, index, manual>>
        /\ \/ tags' = tags
           \/ tags[v] = 0 /\ tags' = [tags EXCEPT ![v] = running]
        /\ \/ /\ step' = "dispatch" /\ running' = running /\ green' = green
              /\ tags' = [tags EXCEPT ![v] = running]
           \/ step' = "none" /\ running' = 0 /\ green' \subseteq green
    <3>1. UNCHANGED <<main, pending, releases, index, manual>>
      BY <1>2 DEF CreateTag
    <3>2. \/ /\ tags[v] = 0 /\ tags' = [tags EXCEPT ![v] = running]
             /\ \/ step' = "dispatch" /\ running' = running /\ green' = green
                \/ Ends(FALSE)
          \/ Ends(FALSE) /\ tags' = tags
      BY <1>2 DEF CreateTag, Version
    <3>3. Ends(FALSE) => step' = "none" /\ running' = 0 /\ green' \subseteq green
      BY DEF Ends
    <3>4. \/ tags' = tags
          \/ tags[v] = 0 /\ tags' = [tags EXCEPT ![v] = running]
      BY <3>2
    <3>5. \/ /\ step' = "dispatch" /\ running' = running /\ green' = green
             /\ tags' = [tags EXCEPT ![v] = running]
          \/ step' = "none" /\ running' = 0 /\ green' \subseteq green
      BY <3>3, <3>2
    <3> HIDE DEF v
    <3> QED BY <3>1, <3>4, <3>5
  <2>2. History
    BY <1>0, <2>1 DEF History
  <2>3. tags' \in [Versions -> 0..Len(main)] /\ \A w \in Versions : tags[w] # 0 => tags'[w] # 0
    BY <1>0, <2>1
  <2>4. \A r \in releases : r.tag \in Versions
    BY DEF IInv, TypeInv, Releases
  <2>5. TypeInv'
    <3>1. green' \subseteq 1..Len(main)
      BY <1>0, <2>1
    <3>2. /\ running' \in 0..Len(main) /\ (running' # 0 => pending # running')
          /\ step' \in {"none", "dispatch"} /\ (step' = "none" <=> running' = 0)
      BY <1>0, <2>1 DEF IInv, TypeInv
    <3>3. \A r \in releases : tags'[r.tag] # 0
      BY <2>3, <2>4 DEF IInv, TypeInv
    <3> QED BY <2>1, <2>3, <3>1, <3>2, <3>3 DEF IInv, TypeInv
  <2>6. ASSUME step' = "dispatch" PROVE Tagged(running)'
    <3>1. tags'[v] = running /\ main' = main /\ running' = running
      BY <1>0, <2>1, <2>6
    <3> QED BY <1>0, <3>1 DEF Tagged
  <2>7. ReleaseInv'
    BY <2>1, <2>2, ReleasesStay DEF IInv
  <2>8. RunInv'
    BY <2>1, <2>2, <2>6, RunKnows DEF IInv
  <2> QED BY <2>5, <2>7, <2>8 DEF IInv
<1>3. CASE Dispatch
  <2>1. /\ UNCHANGED <<main, tags, pending, index, manual>>
        /\ releases' \in {releases, releases \cup {ReleaseRun(v)}}
        /\ step' = "none" /\ running' = 0 /\ green' \subseteq green \cup {running}
        /\ step = "dispatch"
    BY <1>3 DEF Dispatch, Ends, Version
  <2>2. ReleaseRun(v) \in Releases /\ ReleaseRun(v).phase = "build" /\ ReleaseRun(v).tag = v
    BY <1>0 DEF ReleaseRun, Releases
  <2>3. Tagged(running) /\ tags[v] # 0
    BY <2>1 DEF IInv, RunInv, Tagged
  <2>4. History
    BY <2>1 DEF History
  <2>5. releases' \subseteq Releases /\ \A r \in releases' : tags[r.tag] # 0
    BY <2>1, <2>2, <2>3 DEF IInv, TypeInv
  <2>6. TypeInv'
    BY <1>0, <2>1, <2>5 DEF IInv, TypeInv
  <2>7. ReleaseInv'
    BY <2>1, <2>2, <2>4, ReleasesStay DEF IInv
  <2>8. \A c \in green' : c \in green \/ Tagged(c)'
    BY <2>1, <2>3 DEF Tagged
  <2>9. RunInv'
    BY <2>1, <2>4, <2>8, RunKnows DEF IInv
  <2> QED BY <2>6, <2>7, <2>9 DEF IInv
<1> QED BY <1>1, <1>2, <1>3

\* release.yml checks and publishes.
LEMMA ReleaseStepInv ==
  ASSUME IInv, NEW r \in releases, Build(r) \/ Publish(r)
  PROVE  IInv'
<1>0. /\ UNCHANGED <<main, tags, pending, running, step, green, manual>>
      /\ r.tag \in Versions /\ tags[r.tag] \in 1..Len(main) /\ r \in Releases
  <2>1. UNCHANGED <<main, tags, pending, running, step, green, manual>>
    BY Zenon DEF Build, Publish, group
  <2>2. r \in Releases /\ r.tag \in Versions
    BY DEF IInv, TypeInv, Releases
  <2>3. tags[r.tag] \in 1..Len(main)
    BY <2>2 DEF IInv, TypeInv
  <2> QED BY <2>1, <2>2, <2>3
<1>1. History
  BY <1>0 DEF History
<1>2. RunInv'
  BY <1>0, <1>1, RunsStay DEF IInv
<1>3. CASE Build(r)
  <2>1. \/ releases' = releases \ {r}
        \/ \E d \in Dists :
              /\ CheckVersion(tags[r.tag], r.tag) /\ CheckDist(d)
              /\ releases' = (releases \ {r})
                                \cup {[r EXCEPT !.dist = d, !.phase = "publish"]}
    <3>1. (releases \ {r}) \cup {} = releases \ {r}
      OBVIOUS
    <3> QED BY <1>3, <3>1, Zenon DEF Build, Becomes
  <2>2. index' = index
    BY <1>3, Zenon DEF Build
  <2>3. CASE releases' = releases \ {r}
    <3>1. TypeInv'
      BY <1>0, <2>2, <2>3 DEF IInv, TypeInv
    <3>2. ReleaseInv'
      BY <1>1, <2>2, <2>3, ReleasesStay DEF IInv
    <3> QED BY <1>2, <3>1, <3>2 DEF IInv
  <2>4. ASSUME NEW d \in Dists, CheckVersion(tags[r.tag], r.tag), CheckDist(d),
               releases' = (releases \ {r})
                             \cup {[r EXCEPT !.dist = d, !.phase = "publish"]}
        PROVE  IInv'
    <3> DEFINE built == [r EXCEPT !.dist = d, !.phase = "publish"]
    <3>1. built \in Releases /\ built.tag = r.tag /\ built.dist = d
      BY <1>0 DEF Releases
    <3>2. Checked(r.tag)
      <4>1. r.tag # NoTag
        BY <1>0, ReleaseAssumption DEF NoTag
      <4> QED BY <1>0, <2>4, <4>1 DEF Checked, CheckVersion, Version
    <3> HIDE DEF built
    <3>3. releases' \subseteq releases \cup {built}
      BY <2>4 DEF built
    <3>4. TypeInv'
      <4>1. releases' \subseteq Releases /\ \A q \in releases' : tags[q.tag] # 0
        BY <1>0, <3>1, <3>3 DEF IInv, TypeInv
      <4> QED BY <1>0, <2>2, <4>1 DEF IInv, TypeInv
    <3>5. ReleaseInv'
      BY <1>0, <2>2, <2>4, <3>1, <3>2, <3>3 DEF IInv, ReleaseInv, Checked
    <3> QED BY <1>2, <3>4, <3>5 DEF IInv
  <2> QED BY <2>1, <2>3, <2>4, Zenon
<1>4. CASE Publish(r)
  <2>1. /\ r.dist \in Dists /\ CheckDist(r.dist) /\ Checked(r.tag)
        /\ releases' = releases \ {r} /\ Version(tags[r.tag]) = r.tag
    BY <1>0, <1>4 DEF IInv, ReleaseInv, Publish, Becomes, Checked, Version
  <2> DEFINE new == [commit |-> tags[r.tag], dist |-> r.dist]
  <2>2. index' = index \/ index' = [index EXCEPT ![r.tag] = new]
    BY <1>4, <2>1 DEF Publish
  <2>3. new \in Published /\ new.commit = tags[r.tag] /\ new.dist = r.dist
    BY <1>0, <2>1 DEF Published
  <2> HIDE DEF new
  <2>4. index' \in [Versions -> Published \cup {NotPublished}]
    BY <1>0, <2>2, <2>3 DEF IInv, TypeInv
  <2>5. TypeInv'
    BY <1>0, <2>1, <2>4 DEF IInv, TypeInv
  <2>6. ASSUME NEW w \in Versions, index'[w] # NotPublished
        PROVE  index'[w].commit = tags[w] /\ Checked(w) /\ CheckDist(index'[w].dist)
    <3>1. CASE index'[w] = index[w]
      BY <2>6, <3>1 DEF IInv, ReleaseInv
    <3>2. CASE w = r.tag /\ index'[w] = new
      BY <2>1, <2>3, <3>2
    <3> QED BY <1>0, <2>2, <3>1, <3>2 DEF IInv, TypeInv
  <2>7. ReleaseInv'
    BY <1>0, <2>1, <2>6 DEF IInv, ReleaseInv, Checked
  <2> QED BY <1>2, <2>5, <2>7 DEF IInv
<1> QED BY <1>3, <1>4

LEMMA Invariant == Spec => []IInv
<1>1. IInv /\ UNCHANGED vars => IInv'
  <2> SUFFICES ASSUME IInv, UNCHANGED vars PROVE IInv'
    OBVIOUS
  <2>1. UNCHANGED <<main, tags, pending, running, step, green, releases, index, manual>>
    BY DEF vars
  <2> QED BY <2>1 DEF IInv, TypeInv, ReleaseInv, RunInv, Checked, Tagged
<1>2. IInv /\ [Next]_vars => IInv'
  <2> SUFFICES ASSUME IInv, Next PROVE IInv'
    BY <1>1
  <2>1. CASE Push \/ StartRun \/ FindVersion \/ CreateTag \/ Dispatch
    BY <2>1, PushInv, StartRunInv, AutoReleaseInv
  <2>2. CASE Idle
    BY <1>1, <2>2 DEF Idle
  <2>3. ASSUME NEW c \in Commits, Rerun(c) PROVE IInv'
    <3>1. main[c].version \in Versions
      BY CommitType DEF IInv, TypeInv, Commits
    <3> QED BY <2>3, <3>1, PeopleInv
  <2>4. ASSUME NEW c \in Commits, NEW v \in Versions, PushTag(v, c) PROVE IInv'
    BY <2>4, PeopleInv
  <2>5. ASSUME NEW v \in Versions, DispatchAgain(v) PROVE IInv'
    <3>1. tags[v] \in Commits
      BY <2>5 DEF IInv, TypeInv, Commits, DispatchAgain
    <3> QED BY <2>5, <3>1, PeopleInv
  <2>6. ASSUME NEW r \in releases, Build(r) \/ Publish(r) PROVE IInv'
    BY <2>6, ReleaseStepInv
  <2> QED BY <2>1, <2>2, <2>3, <2>4, <2>5, <2>6, Zenon DEF Next
<1> QED BY <1>2, Initial, PTL DEF Spec

\* The types, and that a run waits or runs (auto-release.yml, concurrency).
THEOREM TypeCorrect == Spec => []TypeOK
<1>1. IInv => TypeOK
  BY CommitType DEF IInv, TypeInv, TypeOK, Commits, Version, Releases
<1> QED BY <1>1, Invariant, PTL

\* Whoever tags, dispatches or reruns, what is published under a version is the
\* checked build of the commit tagged with it (release.yml 27-31).
THEOREM PublishedIsTagged == Spec => []PublishedMatchesTag
<1>1. IInv => PublishedMatchesTag
  BY DEF IInv, ReleaseInv, Checked, PublishedMatchesTag, Version
<1> QED BY <1>1, Invariant, PTL

\* A run that passes leaves no version of its commit untagged, and none whose
\* tag has other files (auto-release.yml 40-50).
THEOREM GreenIsTagged == Spec => []GreenMeansTagged
<1>1. IInv => GreenMeansTagged
  BY DEF IInv, RunInv, Tagged, GreenMeansTagged, Version
<1> QED BY <1>1, Invariant, PTL
=============================================================================
