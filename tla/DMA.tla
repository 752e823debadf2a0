-------------------------------- MODULE DMA --------------------------------
(***************************************************************************)
(* sys/memory/dma.c with vm_fulfillDMARequest() of vmemory.c, and the      *)
(* IODMARegion of libio that wraps a request.  A driver asks for pages of  *)
(* memory that a device can reach: contiguous ones, or fragments.          *)
(*                                                                         *)
(* The turns of the loop that collects fragments are steps: between them   *)
(* other drivers allocate and free.                                        *)
(***************************************************************************)
EXTENDS Integers, Sequences, SequencesExt, FiniteSetsExt

CONSTANTS
    Frames,        \* the number of physical pages
    Pages,         \* the number of pages of the kernel's address space
    MaxFragments,  \* kDMAMaxPhysicalFragments
    MaxPages,      \* bound: pages of one request
    MaxRequests,   \* bound: requests at a time
    NULL

DMAAssumption ==
    /\ Frames \in Nat /\ Pages \in Nat
    /\ MaxFragments \in Nat \ {0} /\ MaxPages \in Nat \ {0}

VARIABLES
    free,      \* the physical pages that are free
    kernel,    \* what each page of the kernel is mapped to, or NULL
    requests,  \* the requests that were fulfilled
    releasing, \* the requests whose physical pages were given back
    pending,   \* the request whose fragments are collected, or NULL
    overran    \* a request mapped more pages than it has

vars == <<free, kernel, requests, releasing, pending, overran>>

Frame == 1..Frames
Page == 1..Pages
Run(p, n) == p..p + n - 1

Init ==
    /\ free = Frame
    /\ kernel = [p \in Page |-> NULL]
    /\ requests = {}
    /\ releasing = {}
    /\ pending = NULL
    /\ overran = FALSE

(* pm_alloc() and __vm_findFreePages__kernel(): the first run of n that    *)
(* is free, or 0.                                                          *)
FirstRun(S, n) ==
    LET starts == {p \in S : Run(p, n) \subseteq S} IN
    IF starts = {} THEN 0 ELSE Min(starts)

FreePages == {p \in Page : kernel[p] = NULL}

Total(d) == FoldLeft(LAMBDA sum, f : sum + f.pages, 0, d.fragments)
FramesOf(d) == UNION {Run(f.first, f.pages) : f \in ToSet(d.fragments)}

(* The frames of the fragments, one after the other.                       *)
FrameList(d) ==
    FoldLeft(LAMBDA s, f : s \o [i \in 1..f.pages |-> f.first + i - 1], <<>>, d.fragments)

(* A mutant: dma_free() stops before the last fragment. *)
FreedButLast(d) == free \cup FramesOf([d EXCEPT !.fragments = Front(@)])

(* dma_free().                                                             *)
Freed(d) == free \cup FramesOf(d)

(* vm_fulfillDMARequest(): the region is as long as the request, but every *)
(* page of every fragment is mapped from its start.                        *)
Fulfilled(d, after) ==
    LET start == FirstRun(FreePages, d.pages)
        list == FrameList(d)
    IN  IF start = 0
        THEN /\ free' = after \cup FramesOf(d)
             /\ UNCHANGED <<kernel, requests, overran>>
        ELSE /\ free' = after
             /\ kernel' = [p \in Page |-> IF p - start + 1 \in DOMAIN list
                                          THEN list[p - start + 1] ELSE kernel[p]]
             /\ requests' = requests \cup {[d EXCEPT !.vaddress = start]}
             /\ overran' = (overran \/ Total(d) > d.pages)

(* dma_request() of contiguous pages, or of one.                           *)
RequestContiguous ==
    \E n \in 1..MaxPages :
      LET p == FirstRun(free, n)
          d == [pages |-> n, fragments |-> <<[first |-> p, pages |-> n]>>, vaddress |-> 0]
      IN
      /\ Cardinality(requests \cup releasing) < MaxRequests
      /\ IF p = 0 THEN UNCHANGED <<free, kernel, requests, overran>>
         ELSE Fulfilled(d, free \ Run(p, n))
      /\ UNCHANGED <<releasing, pending>>

(* dma_request() of fragments, up to its loop.                             *)
RequestFragments ==
    \E n \in 2..MaxPages :
      /\ pending = NULL
      /\ Cardinality(requests \cup releasing) < MaxRequests
      /\ pending' = [pages |-> n, fragments |-> <<>>, vaddress |-> 0]
      /\ UNCHANGED <<free, kernel, requests, releasing, overran>>

(* A turn of the loop, which never lowers the number of pages left: it     *)
(* collects fragments of the whole length up to MaxFragments.  If there is *)
(* no such fragment it tries the same again.                               *)
CollectFragment ==
    /\ pending # NULL
    /\ Len(pending.fragments) < MaxFragments
    /\ LET p == FirstRun(free, pending.pages) IN
       /\ p # 0
       /\ free' = free \ Run(p, pending.pages)
       /\ pending' = [pending EXCEPT !.fragments =
                        Append(@, [first |-> p, pages |-> pending.pages])]
    /\ UNCHANGED <<kernel, requests, releasing, overran>>

CollectedFragments ==
    /\ pending # NULL
    /\ Len(pending.fragments) = MaxFragments
    /\ pending' = NULL
    /\ Fulfilled(pending, free)
    /\ UNCHANGED releasing

(* IODMARegion::free() and dma_free(): pm_free() of the fragments, and     *)
(* vm_free() of the region.                                                *)
Release ==
    \E d \in requests :
      /\ free' = Freed(d)
      /\ requests' = requests \ {d}
      /\ releasing' = releasing \cup {d}
      /\ UNCHANGED <<kernel, pending, overran>>

ReleaseRegion ==
    \E d \in releasing :
      /\ kernel' = [p \in Page |-> IF p \in Run(d.vaddress, d.pages) THEN NULL ELSE kernel[p]]
      /\ releasing' = releasing \ {d}
      /\ UNCHANGED <<free, requests, pending, overran>>

Next ==
    \/ RequestContiguous \/ RequestFragments \/ CollectFragment \/ CollectedFragments
    \/ Release \/ ReleaseRegion

Spec == Init /\ [][Next]_vars

-----------------------------------------------------------------------------
(* A physical page is free or belongs to one fragment of one request, also *)
(* while fragments are collected and when a request fails half way; and a  *)
(* request's pages of the kernel are mapped to its fragments in order,     *)
(* unless a request of fragments was fulfilled, which maps more pages than *)
(* it has.                                                                 *)
RequestsSound ==
    LET all == requests \cup (IF pending = NULL THEN {} ELSE {pending}) IN
    /\ free \cup UNION {FramesOf(d) : d \in all} = Frame
    /\ \A d \in all : /\ FramesOf(d) \cap free = {}
                      /\ Cardinality(FramesOf(d)) = Total(d)
    /\ \A d, e \in all : d # e => FramesOf(d) \cap FramesOf(e) = {}
    /\ overran \/ \A d \in requests : \A i \in 1..d.pages :
                     kernel[d.vaddress + i - 1] = FrameList(d)[i]

=============================================================================
