------------------------------ MODULE Profiler ------------------------------
(***************************************************************************)
(* The profiler (system/sys_profiler.cc): a tree of timers, found by their *)
(* tags in small hash tables of children.  START_TIMER starts a timer and  *)
(* leaves a frame in the block, whose end stops it; END_TIMER stops one by *)
(* its tag before.  Allocations are counted in the actual timer.           *)
(*                                                                         *)
(* Timers are numbered from 1, the root.                                   *)
(***************************************************************************)
EXTENDS Integers, Sequences, FiniteSets, FiniteSetsExt

CONSTANTS PrTags,        \* tags of timers
          hash_idx(_),   \* place of a tag: its hash modulo the size of the tables
          max_n_childs,  \* size of the tables
          PrSizes,       \* sizes of allocated blocks
          PrWord,        \* 2^w, size_t holds w bits
          PrStarts, PrTicks, PrMallocs   \* bounds: timers started, time, allocations

RootTag == "Whole Program"
timer_no_child == 0

\* No other timer has the tag of the root; all blocks have a size.
ASSUME ProfilerInputsAssumption ==
  /\ RootTag \notin PrTags
  /\ max_n_childs \in Nat \ {0} /\ \A tag \in PrTags : hash_idx(tag) \in 0 .. max_n_childs - 1
  /\ PrSizes \subseteq Nat \ {0} /\ PrWord \in Nat \ {0}

VARIABLES timers,        \* sequence of the timers
          actual_node,
          pr_frames,     \* stack of the frames of open blocks: the timer each one started
          pr_clock, pr_started, pr_malloced,   \* time; numbers of starts and of allocations
          malloc_map,    \* number of an allocated block -> size
          pr_state       \* "runs", "output" or "failed" (an assertion)

pr_vars == <<timers, actual_node, pr_frames, pr_clock, pr_started, pr_malloced, malloc_map, pr_state>>

\* Timer::Timer
new_timer(tag, parent) ==
  [tag |-> tag, parent_timer |-> parent, start_count |-> 0, start_time |-> 0, cumul_time |-> 0,
   child_timers |-> [i \in 0..max_n_childs - 1 |-> timer_no_child],
   total_allocated |-> 0, current_allocated |-> 0, max_allocated |-> 0]

start(t) == [t EXCEPT !.start_time = IF t.start_count = 0 THEN pr_clock ELSE @, !.start_count = @ + 1]

stop(t, forced) ==
  LET count == IF forced THEN 1 ELSE t.start_count
  IN  [t EXCEPT !.cumul_time = IF count = 1 THEN @ + pr_clock - t.start_time ELSE @,
                !.start_count = count - 1]

running(t) == t.start_count > 0

PrInit ==
  /\ timers = <<[new_timer(RootTag, 1) EXCEPT !.start_count = 1]>>
  /\ actual_node = 1 /\ pr_frames = <<>> /\ pr_clock = 0 /\ pr_started = 0 /\ pr_malloced = 0
  /\ malloc_map = <<>> /\ pr_state = "runs"

---------------------------------------------------------------------------

probed(tag, n) == (hash_idx(tag) + n) % max_n_childs

\* find_child: the distance from the place of the hash at which the child is found, as a set
find_child(tag) ==
  LET child(n) == timers[actual_node].child_timers[probed(tag, n)]
  IN  {n \in 0..max_n_childs - 1 :
         /\ \A k \in 0..n : child(k) # timer_no_child
         /\ timers[child(n)].tag = tag
         /\ \A k \in 0..n - 1 : timers[child(k)].tag # tag}

\* add_child: the free places, by distance.  The place behind the end of the table, which the
\* loop of add_child reads, never looks free.
free_places(tag) ==
  {n \in 0..max_n_childs - 1 : timers[actual_node].child_timers[probed(tag, n)] = timer_no_child}

\* START_TIMER: start_timer in the constructor of the frame
PrStart(tag) ==
  LET found == find_child(tag)
      old == timers[actual_node].child_timers[probed(tag, Min(found))]
      place == probed(tag, Min(free_places(tag)))
      n == Len(timers) + 1
  IN  /\ pr_state = "runs" /\ pr_started < PrStarts
      /\ pr_started' = pr_started + 1
      /\ IF found # {}
         THEN /\ timers' = [timers EXCEPT ![old] = start(@)]
              /\ actual_node' = old
         ELSE IF free_places(tag) # {}
         THEN /\ timers' = Append([timers EXCEPT ![actual_node].child_timers[place] = n],
                                  start(new_timer(tag, actual_node)))
              /\ actual_node' = n
         ELSE UNCHANGED <<timers, actual_node>>
      /\ IF found = {} /\ free_places(tag) = {}
         THEN pr_state' = "failed" /\ UNCHANGED pr_frames
         ELSE pr_frames' = Append(pr_frames, actual_node') /\ UNCHANGED pr_state
      /\ UNCHANGED <<pr_clock, pr_malloced, malloc_map>>

\* The timers from a to the root: every set has them that has a and the parents of its own.
path_of(a) == {n \in DOMAIN timers :
                 \A S \in SUBSET DOMAIN timers :
                   a \in S /\ (\A m \in S : timers[m].parent_timer \in S) => n \in S}

path == path_of(actual_node)

\* Mutant: the timers below the stopped one keep running.
stop_on_path_only(n) ==
  /\ timers' = [timers EXCEPT ![n] = stop(@, FALSE)]
  /\ actual_node' = timers[n].parent_timer

\* stop_timer of timer n on the path: those below it are closed by force.
stop_on_path(n) ==
  /\ timers' = [m \in DOMAIN timers |->
                  IF m > n /\ m \in path THEN stop(timers[m], TRUE)
                  ELSE IF m = n THEN stop(timers[m], FALSE) ELSE timers[m]]
  /\ actual_node' = timers[n].parent_timer

\* END_TIMER: stop_timer by the tag, of the lowest timer that has it; the root is never found
\* unless it is the actual timer.
PrEnd(tag) ==
  LET named == {n \in path : timers[n].tag = tag}
  IN  /\ pr_state = "runs"
      /\ IF named # {} THEN stop_on_path(Max(named)) ELSE UNCHANGED <<timers, actual_node>>
      /\ UNCHANGED <<pr_frames, pr_clock, pr_started, pr_malloced, malloc_map, pr_state>>

\* stop_timer by the index
frame_stops(n) == running(timers[n])

\* The end of a block, or an exception that leaves it: stop_timer in the destructor of the frame
PrBlockEnd ==
  LET n == pr_frames[Len(pr_frames)]
  IN  /\ pr_state = "runs" /\ pr_frames # <<>>
      /\ pr_frames' = SubSeq(pr_frames, 1, Len(pr_frames) - 1)
      /\ IF ~ frame_stops(n) THEN UNCHANGED <<timers, actual_node, pr_state>>
         ELSE IF n = actual_node THEN stop_on_path(n) /\ UNCHANGED pr_state
         ELSE pr_state' = "failed" /\ UNCHANGED <<timers, actual_node>>
      /\ UNCHANGED <<pr_clock, pr_started, pr_malloced, malloc_map>>

PrTick == /\ pr_state = "runs" /\ pr_clock < PrTicks
          /\ pr_clock' = pr_clock + 1
          /\ UNCHANGED <<timers, actual_node, pr_frames, pr_started, pr_malloced, malloc_map, pr_state>>

\* notify_malloc
PrMalloc(size) ==
  LET t == timers[actual_node]
      current == (t.current_allocated + size) % PrWord
  IN  /\ pr_state = "runs" /\ pr_malloced < PrMallocs
      /\ pr_malloced' = pr_malloced + 1
      /\ malloc_map' = [b \in DOMAIN malloc_map \cup {pr_malloced'} |->
                          IF b = pr_malloced' THEN size ELSE malloc_map[b]]
      /\ timers' = [timers EXCEPT ![actual_node] =
                      [t EXCEPT !.total_allocated = @ + size, !.current_allocated = current,
                                !.max_allocated = IF current > @ THEN current ELSE @]]
      /\ UNCHANGED <<actual_node, pr_frames, pr_clock, pr_started, pr_state>>

freed(current, size) == (current - size) % PrWord

\* notify_free of a block that was counted, in whichever timer is the actual one
PrFree(block) ==
  /\ pr_state = "runs"
  /\ malloc_map' = [b \in DOMAIN malloc_map \ {block} |-> malloc_map[b]]
  /\ timers' = [timers EXCEPT ![actual_node].current_allocated = freed(@, malloc_map[block])]
  /\ UNCHANGED <<actual_node, pr_frames, pr_clock, pr_started, pr_malloced, pr_state>>

sum_of(values) == MapThenSumSet(LAMBDA x : values[x], DOMAIN values)

\* What propagate_timers() and accept_from_child() visit below a timer, and the timer
subtree(n) == {m \in DOMAIN timers : n \in path_of(m)}

\* Mutant: what is allocated now is not taken from the children.
propagated_without_current ==
  [n \in DOMAIN timers |->
     [timers[n] EXCEPT !.total_allocated = sum_of([m \in subtree(n) |-> timers[m].total_allocated]),
                       !.max_allocated = Max({timers[m].max_allocated : m \in subtree(n)})]]

\* accept_from_child for all timers, from the leaves to the root: the counters become those of
\* whole subtrees, that of the memory allocated now as well (PETSc memory is monitored), and
\* the peak is the highest one.
propagated ==
  [n \in DOMAIN timers |->
     [timers[n] EXCEPT
        !.total_allocated = sum_of([m \in subtree(n) |-> timers[m].total_allocated]),
        !.current_allocated = sum_of([m \in subtree(n) |-> timers[m].current_allocated]) % PrWord,
        !.max_allocated = Max({timers[m].max_allocated : m \in subtree(n)})]]

\* output: the root is stopped; it must be the actual timer.
PrOutput ==
  /\ pr_state = "runs" /\ pr_frames = <<>>
  /\ pr_state' = IF running(timers[1]) /\ actual_node # 1 THEN "failed" ELSE "output"
  /\ timers' = IF pr_state' = "failed" THEN timers
               ELSE [propagated EXCEPT ![1] = IF running(@) THEN stop(@, FALSE) ELSE @]
  /\ UNCHANGED <<actual_node, pr_frames, pr_clock, pr_started, pr_malloced, malloc_map>>

PrAtEnd == pr_state # "runs" /\ UNCHANGED pr_vars

PrNext == \/ \E tag \in PrTags : PrStart(tag)
          \/ \E tag \in PrTags : PrEnd(tag)
          \/ PrBlockEnd \/ PrTick \/ PrOutput \/ PrAtEnd
          \/ \E size \in PrSizes : PrMalloc(size)
          \/ \E block \in DOMAIN malloc_map : PrFree(block)

PrSpec == PrInit /\ [][PrNext]_pr_vars

---------------------------------------------------------------------------
(* Properties. *)

\* The children of a timer come after it.
children(n) == {m \in DOMAIN timers : m > n /\ timers[m].parent_timer = n}

time_of(t) == t.cumul_time + (IF running(t) THEN pr_clock - t.start_time ELSE 0)

\* Whatever the order of ends of blocks and END_TIMERs of tags that were or were not started,
\* the timers that run are those from the actual one to the root: a frame that ends finds its
\* timer actual or stopped (the assertion of stop_timer), and the output finds the root.
RunningOnPath ==
  /\ pr_state = "runs" => {n \in DOMAIN timers : running(timers[n])} = path
  /\ pr_state = "failed" => pr_started > max_n_childs

\* A tag has one timer under each parent, also when tags share a place in the table.
OneTimerPerTag ==
  \A n \in DOMAIN timers : \A a, b \in children(n) : timers[a].tag = timers[b].tag => a = b

\* The time of a timer covers the times of its children (the report shows shares of it).
ChildrenWithinParent ==
  \A n \in DOMAIN timers :
    sum_of([c \in children(n) |-> time_of(timers[c])]) <= time_of(timers[n])

\* Memory is freed in whichever timer is the actual one, so the counter of one timer may fall
\* below zero (it is unsigned): still all of them together are what is allocated.  The output
\* adds the counters of the children to those of their parents, in place: from then on it is
\* the counter of the root that is what is allocated, and all together count it repeatedly.
MemoryCounted ==
  LET counted == IF pr_state = "output" THEN timers[1].current_allocated
                 ELSE sum_of([n \in DOMAIN timers |-> timers[n].current_allocated])
  IN  (counted - sum_of(malloc_map)) % PrWord = 0

\* The tree of timers is the nesting of the program: timers run along one path, a tag is counted
\* in one place, children are within their parents, and memory is counted once, in the timers
\* while the program runs and in the root after the output.
TimersExact == RunningOnPath /\ OneTimerPerTag /\ ChildrenWithinParent /\ MemoryCounted
=============================================================================
