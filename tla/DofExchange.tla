----------------------------- MODULE DofExchange -----------------------------
(* Numbering of degrees of freedom over the ranks of a parallel run           *)
(* (src/src/fem/dofhandler.cc): every rank numbers the dofs of its elements,  *)
(* the numbers are shifted by the sizes of the lower ranks and the dofs of    *)
(* ghost elements are asked for by messages, first from lower ranks, then     *)
(* from higher ones. A handler of one component is then derived in the same   *)
(* way. Elements carry one dof per node (the component of the sub-handler)    *)
(* and one of their own; dofs of edges are treated by the code like those of  *)
(* nodes.                                                                     *)
EXTENDS Integers, Sequences, FiniteSets, SequencesExt, Functions

CONSTANTS DfRanks,     \* number of processes
          DfMesh,      \* sequence of elements, each a sequence of nodes
          DfOwners     \* partitionings: functions from elements to ranks

Ranks == 0 .. DfRanks - 1
Elements == 1 .. Len(DfMesh)
ElementSeq == [e \in Elements |-> e]
InvalidDof == -1

VARIABLES df_owner,    \* rank of every element
          df_local,    \* rank: its elements, its ghosts, its part of the exchange
          df_eager,    \* MPI_Send returns before the message is received
          df_stage,    \* "number", "exchange", "sub", "sequential": the collective parts
          df_dofs,     \* rank: dofs in the order of their local numbers
          df_global,   \* rank: local_to_global_dof_idx_
          df_sub_dofs, df_sub_global,   \* the same of the sub-handler
          df_op,       \* rank: number of exchanges done in the stage
          df_asked,    \* rank: it waits for an answer
          df_channel,  \* <<from, to>>: messages on the way
          df_seq       \* [starts, dofs] of the sequential handler

df_vars == <<df_owner, df_local, df_eager, df_stage, df_dofs, df_global, df_sub_dofs,
             df_sub_global, df_op, df_asked, df_channel, df_seq>>

\* Dofs of an element: those of its nodes, then its own.
cell_dofs(e) == [i \in 1 .. Len(DfMesh[e]) |-> <<"node", DfMesh[e][i]>>] \o << <<"cell", e>> >>

\* Positions of s that hold a value not met before.
new_positions(s) ==
    SelectSeq([i \in DOMAIN s |-> i], LAMBDA i : \A j \in 1 .. i - 1 : s[j] # s[i])

dofs_of(elems) == FlattenSeq([i \in 1 .. Len(elems) |-> cell_dofs(elems[i])])

\* make_elem_partitioning: own elements, ghost elements sharing a node with them.
own_elements(owner, p) == SelectSeq(ElementSeq, LAMBDA e : owner[e] = p)

own_nodes(owner, p) == UNION {ToSet(DfMesh[e]) : e \in ToSet(own_elements(owner, p))}

ghost_elements(owner, p) ==
    SelectSeq(ElementSeq,
              LAMBDA e : owner[e] # p /\ ToSet(DfMesh[e]) \cap own_nodes(owner, p) # {})

\* Mutant: a dof is owned by whoever has it on an own cell.
valid_on_own_cells(owner, p, d) == TRUE

\* init_status: a dof on a ghost element of a lower rank is numbered there.
valid_nface(owner, p, d) ==
    \A e \in ToSet(ghost_elements(owner, p)) :
       owner[e] < p => ~Contains(cell_dofs(e), d)

numbered_dofs(owner, p) ==
    LET ds == SelectSeq(dofs_of(own_elements(owner, p)),
                        LAMBDA d : valid_nface(owner, p, d))
        new == new_positions(ds)
    IN [i \in DOMAIN new |-> ds[new[i]]]

\* The two passes over ghost_proc: answers are received from lower ranks in the
\* first pass and from higher ranks in the second.
passes(p, procs) ==
    FlattenSeq([h \in 1 .. 2 |-> [i \in 1 .. Len(procs) |->
       [proc |-> procs[i], receives |-> (procs[i] > p) = (h = 2)]]])

\* What every rank derives from the partitioning before it sends anything.
make_elem_partitioning(owner) ==
    [p \in Ranks |->
       LET others == ghost_elements(owner, p)
       IN [own |-> own_elements(owner, p), ghosts |-> others,
           numbered |-> numbered_dofs(owner, p),
           exchanges |-> passes(p, SetToSortSeq({owner[e] : e \in ToSet(others)}, <))]]

own(p) == df_local[p].own
ghosts(p) == df_local[p].ghosts
numbered(p) == df_local[p].numbered
exchanges(p) == df_local[p].exchanges
ghost_proc_el(p, q) == SelectSeq(ghosts(p), LAMBDA e : df_owner[e] = q)

\* Distribution: first index of rank p when rank q has sizes[q] dofs.
loffset(p, sizes) == SumFunctionOnSet(sizes, 0 .. p - 1)

shifted(dofs) ==
    [p \in Ranks |-> [i \in 1 .. Len(dofs[p]) |->
                        i - 1 + loffset(p, [q \in Ranks |-> Len(dofs[q])])]]

global_of(dofs, glob, d) ==
    LET i == SelectInSeq(dofs, LAMBDA x : x = d) IN IF i = 0 THEN InvalidDof ELSE glob[i]

finished(p) == df_op[p] = Len(exchanges(p))

df_current(p) == exchanges(p)[df_op[p] + 1]

------------------------------------------------------------------------------
DfInit == /\ df_owner \in DfOwners
          /\ df_local = make_elem_partitioning(df_owner)
          /\ df_eager \in BOOLEAN
          /\ df_stage = "number"
          /\ df_dofs = [p \in Ranks |-> <<>>]
          /\ df_global = [p \in Ranks |-> <<>>]
          /\ df_sub_dofs = [p \in Ranks |-> <<>>]
          /\ df_sub_global = [p \in Ranks |-> <<>>]
          /\ df_op = [p \in Ranks |-> 0]
          /\ df_asked = [p \in Ranks |-> FALSE]
          /\ df_channel = [c \in Ranks \X Ranks |-> <<>>]
          /\ df_seq = [starts |-> <<>>, dofs |-> <<>>]

\* distribute_dofs up to the collective Distribution.
DfNumber == /\ df_stage = "number"
            /\ df_stage' = "exchange"
            /\ df_dofs' = [p \in Ranks |-> numbered(p)]
            /\ df_global' = shifted(df_dofs')
            /\ UNCHANGED <<df_owner, df_local, df_eager, df_sub_dofs, df_sub_global, df_op,
                           df_asked, df_channel, df_seq>>

\* Owner of a dof, by its global number, in the distribution of the handler.
get_proc(d) == CHOOSE p \in Ranks : Contains(numbered(p), d)

sub_dofs(p) == SelectSeq(df_dofs[p], LAMBDA d : d[1] = "node")

sub_owned(p) == SelectSeq(numbered(p), LAMBDA d : d[1] = "node")

\* The sub-handler numbers its owned dofs and keeps the parent's numbers for the
\* others until they are replaced; collective again.
DfSub == /\ df_stage = "exchange"
         /\ \A p \in Ranks : finished(p)
         /\ df_stage' = "sub"
         /\ df_op' = [p \in Ranks |-> 0]
         /\ df_sub_dofs' = [p \in Ranks |-> sub_dofs(p)]
         /\ LET first == shifted([p \in Ranks |-> sub_owned(p)])
            IN df_sub_global' = [p \in Ranks |-> [i \in 1 .. Len(sub_dofs(p)) |->
                 IF i <= Len(sub_owned(p)) THEN first[p][i]
                 ELSE global_of(df_dofs[p], df_global[p], sub_dofs(p)[i])]]
         /\ UNCHANGED <<df_owner, df_local, df_eager, df_dofs, df_global, df_asked, df_channel, df_seq>>

\* What rank p asks of rank q: elements, or dofs by their numbers in the parent.
wanted(p, q) ==
    IF df_stage = "exchange" THEN ghost_proc_el(p, q)
    ELSE SelectSeq(df_sub_dofs[p],
                   LAMBDA d : ~Contains(sub_owned(p), d) /\ get_proc(d) = q)

answer(q, what) ==
    IF df_stage = "exchange"
    THEN LET ds == dofs_of(what)
         IN [i \in 1 .. Len(ds) |-> global_of(df_dofs[q], df_global[q], ds[i])]
    ELSE [i \in 1 .. Len(what) |-> global_of(df_sub_dofs[q], df_sub_global[q], what[i])]

exchanging(p) == df_stage \in {"exchange", "sub"} /\ ~finished(p)

\* A send that is not buffered waits until the other rank receives.
can_ask(p) ==
    /\ exchanging(p) /\ ~df_asked[p] /\ df_current(p).receives
    /\ \/ df_eager
       \/ LET q == df_current(p).proc
          IN ~finished(q) /\ df_current(q) = [proc |-> p, receives |-> FALSE]

can_answer(q) ==
    exchanging(q) /\ ~df_current(q).receives /\ df_channel[<<df_current(q).proc, q>>] # <<>>

can_take(p) ==
    exchanging(p) /\ df_asked[p] /\ df_channel[<<df_current(p).proc, p>>] # <<>>

\* First half of receive_ghost_dofs and receive_sub_ghost_dofs.
DfAsk(p) ==
    /\ can_ask(p)
    /\ LET q == df_current(p).proc
       IN df_channel' = [df_channel EXCEPT ![<<p, q>>] = Append(@, wanted(p, q))]
    /\ df_asked' = [df_asked EXCEPT ![p] = TRUE]
    /\ UNCHANGED <<df_owner, df_local, df_eager, df_stage, df_dofs, df_global, df_sub_dofs,
                   df_sub_global, df_op, df_seq>>

\* send_ghost_dofs and send_sub_ghost_dofs; the rank asking waits already.
DfAnswer(q) ==
    /\ can_answer(q)
    /\ LET p == df_current(q).proc
       IN df_channel' = [df_channel EXCEPT
             ![<<p, q>>] = Tail(@),
             ![<<q, p>>] = Append(@, answer(q, Head(df_channel[<<p, q>>])))]
    /\ df_op' = [df_op EXCEPT ![q] = @ + 1]
    /\ UNCHANGED <<df_owner, df_local, df_eager, df_stage, df_dofs, df_global, df_sub_dofs,
                   df_sub_global, df_asked, df_seq>>

\* update_local_dofs: dofs not known yet are appended with the number received.
update_local_dofs(p, q, numbers) ==
    LET ds == dofs_of(ghost_proc_el(p, q))
        new == SelectSeq(new_positions(ds), LAMBDA i : ~Contains(df_dofs[p], ds[i]))
    IN /\ df_dofs' = [df_dofs EXCEPT ![p] = @ \o [k \in 1 .. Len(new) |-> ds[new[k]]]]
       /\ df_global' = [df_global EXCEPT ![p] = @ \o [k \in 1 .. Len(new) |-> numbers[new[k]]]]
       /\ UNCHANGED <<df_sub_dofs, df_sub_global>>

update_sub_dofs(p, q, numbers) ==
    /\ df_sub_global' = [df_sub_global EXCEPT ![p] =
         [i \in DOMAIN df_sub_dofs[p] |->
            LET k == SelectInSeq(wanted(p, q), LAMBDA d : d = df_sub_dofs[p][i])
            IN IF k = 0 THEN df_sub_global[p][i] ELSE numbers[k]]]
    /\ UNCHANGED <<df_dofs, df_global, df_sub_dofs>>

\* Second half of receive_ghost_dofs or receive_sub_ghost_dofs.
DfTake(p) ==
    /\ can_take(p)
    /\ LET q == df_current(p).proc
       IN /\ df_channel' = [df_channel EXCEPT ![<<q, p>>] = Tail(@)]
          /\ IF df_stage = "exchange"
             THEN update_local_dofs(p, q, Head(df_channel[<<q, p>>]))
             ELSE update_sub_dofs(p, q, Head(df_channel[<<q, p>>]))
    /\ df_asked' = [df_asked EXCEPT ![p] = FALSE]
    /\ df_op' = [df_op EXCEPT ![p] = @ + 1]
    /\ UNCHANGED <<df_owner, df_local, df_eager, df_stage, df_seq>>

\* Partitioning::id_maps: elements in the order of their rows, rank by rank.
el_4_row == FlattenSeq([r \in 1 .. DfRanks |-> own(r - 1)])

\* create_sequential: the starts of cells are summed over ranks that count their
\* own cells only, the numbers of dofs are gathered in the order of ranks.
cell_starts_loc(p, i) ==
    SumFunctionOnSet([r \in Elements |->
        IF df_owner[el_4_row[r]] = p THEN Len(cell_dofs(el_4_row[r])) ELSE 0], 1 .. i)

dof_indices_loc(p) ==
    LET ds == dofs_of(SelectSeq(el_4_row, LAMBDA e : df_owner[e] = p))
    IN [i \in DOMAIN ds |-> global_of(df_dofs[p], df_global[p], ds[i])]

DfSequential ==
    /\ df_stage = "sub"
    /\ \A p \in Ranks : finished(p)
    /\ df_stage' = "sequential"
    /\ df_seq' = [starts |-> [i \in 0 .. Len(DfMesh) |->
                     SumFunction([p \in Ranks |-> cell_starts_loc(p, i)])],
                  dofs |-> FlattenSeq([r \in 1 .. DfRanks |-> dof_indices_loc(r - 1)])]
    /\ UNCHANGED <<df_owner, df_local, df_eager, df_dofs, df_global, df_sub_dofs,
                   df_sub_global, df_op, df_asked, df_channel>>

DfNext == \/ DfNumber \/ DfSub \/ DfSequential
          \/ \E p \in Ranks : DfAsk(p) \/ DfAnswer(p) \/ DfTake(p)

DfAtEnd == df_stage = "sequential"

DfSpec == /\ DfInit
          /\ [][DfNext \/ (DfAtEnd /\ UNCHANGED df_vars)]_df_vars

------------------------------------------------------------------------------
all_dofs == UNION {ToSet(cell_dofs(e)) : e \in Elements}

\* When the exchange is over, every rank knows a number for each dof of its own
\* and ghost elements, all ranks know the same number for the same dof, and the
\* numbers of different dofs differ (distribute_dofs of dofhandler.cc).
NumberingAgrees ==
    DfAtEnd =>
      \A p, q \in Ranks :
        \A d \in ToSet(dofs_of(own(p) \o ghosts(p))), f \in ToSet(dofs_of(own(q) \o ghosts(q))) :
          LET m == global_of(df_dofs[p], df_global[p], d)
              n == global_of(df_dofs[q], df_global[q], f)
          IN m \in 0 .. Cardinality(all_dofs) - 1 /\ (m = n <=> d = f)

\* The same of the sub-handler, for the dofs of elements in the set that the
\* operator elems gives for each rank.
sub_agrees(elems(_)) ==
    DfAtEnd =>
      \A p, q \in Ranks :
        \A d \in ToSet(dofs_of(elems(p))), f \in ToSet(dofs_of(elems(q))) :
          (d[1] = "node" /\ f[1] = "node") =>
             (global_of(df_sub_dofs[p], df_sub_global[p], d)
                = global_of(df_sub_dofs[q], df_sub_global[q], f)) = (d = f)

\* On the elements a rank owns, where systems are assembled, the numbers of the
\* sub-handler agree between all ranks (constructor of SubDOFHandlerMultiDim).
SubNumberingAgrees == sub_agrees(own)

\* They agree on ghost elements too: the number of the parent, kept for a ghost
\* dof at first, is replaced "later from the owning processor".
SubGhostsReplaced == sub_agrees(LAMBDA p : own(p) \o ghosts(p))

\* The handler of the whole mesh gives every element the numbers its own rank
\* gives it (create_sequential: counts summed and numbers gathered by rank have
\* to meet at the rows of the partitioning).
SequentialAgrees ==
    DfAtEnd =>
      \A r \in Elements :
        LET ds == cell_dofs(el_4_row[r])
            p == df_owner[el_4_row[r]]
        IN \A i \in DOMAIN ds :
             df_seq.dofs[df_seq.starts[r - 1] + i] = global_of(df_dofs[p], df_global[p], ds[i])

\* Ranks never all wait for each other, whatever the partitioning and whether or
\* not sends are buffered (the order of the two passes over ghost_proc); as every
\* step finishes a part of the exchange, it ends.
NobodyStuck ==
    \/ \A p \in Ranks : finished(p)
    \/ df_stage = "number"
    \/ \E p \in Ranks : can_ask(p) \/ can_answer(p) \/ can_take(p)

\* The exchange always goes on, and all three handlers give the same dof the same number
\* wherever it is used.
NumbersAgree == NobodyStuck /\ NumberingAgrees /\ SubNumberingAgrees /\ SequentialAgrees
==============================================================================
