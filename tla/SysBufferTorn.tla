--------------------------- MODULE SysBufferTorn ---------------------------
(* SysBuffer as an unoptimised build runs it: "iTail += n; iTail %= iSize" *)
(* (mbuffer.c:137-138, 167-168) and the same for iHead (159-160) are two   *)
(* stores, and the other thread can read the index between them, when it   *)
(* may lie beyond the end of the buffer.                                   *)
EXTENDS SysBuffer

ExtendAdd ==
    /\ ppc = "store"
    /\ tail' = tail + Publishing
    /\ nIn' = nIn + Publishing
    /\ ppc' = "wrap"
    /\ UNCHANGED <<head, buf, nOut, eof, pop, pnow, pthen, consumer>>

ExtendWrap ==
    /\ ppc = "wrap"
    /\ tail' = Wrap(tail)
    /\ AfterPublish
    /\ UNCHANGED <<head, buf, nIn, nOut, eof, consumer>>

AdvanceAdd ==
    /\ cpc = "advance"
    /\ AdvanceSucceeds
    /\ head' = head + Releasing
    /\ nOut' = nOut + Releasing
    /\ cpc' = "wrap"
    /\ UNCHANGED <<tail, buf, nIn, eof, producer, cop, coff, cnow, cthen, taken>>

AdvanceFails ==
    /\ cpc = "advance"
    /\ ~AdvanceSucceeds
    /\ AfterRelease
    /\ UNCHANGED <<head, tail, buf, nIn, nOut, eof, producer>>

AdvanceWrap ==
    /\ cpc = "wrap"
    /\ head' = Wrap(head)
    /\ AfterRelease
    /\ UNCHANGED <<tail, buf, nIn, nOut, eof, producer>>

TornNext ==
    \/ PutStep \/ ExtendAdd \/ ExtendWrap
    \/ TakeStep \/ AdvanceAdd \/ AdvanceFails \/ AdvanceWrap
    \/ Reset

TornSpec == Init /\ [][TornNext]_vars
============================================================================
