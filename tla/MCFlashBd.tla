------------------------------ MODULE MCFlashBd ------------------------------
(* Small cards for TLC, and the properties of FlashBd.                     *)
EXTENDS FlashBd, TLC

CONSTANTS v1, v2

MCValues   == {v1, v2}
OneValue   == {v1}
BlankCard  == {[q \in Phy |-> ErasedBlock]}

\* One sector, a run across two blocks, two whole blocks, past the end.
SmallRequests == {<<0, 1>>, <<1, 2>>, <<0, 2>>, <<3, 2>>}
\* With four sectors in a block and two to a page: a whole block, a run across
\* two zones that is not aligned to pages, the last page and past the end.
ZoneRequests == {<<0, 4>>, <<3, 2>>, <<6, 3>>}

NoFaults      == {}
AllFaults     == Handlers \X Errors
\* All but the failure after which h_flash_bd_erase_src() takes a block for
\* clean that is not.
HandledFaults == AllFaults \ {<<"erase_src", "EIO">>}
=============================================================================
