------------------------------ MODULE MCMetaSync ------------------------------
(* The instance of MetaSync that TLC checks. *)
EXTENDS MetaSync

\* One ad that starts delivering meanwhile, one that may be deleted.
MCLateAds == {<<2, 1>>}
MCDeletableAds == {<<2, 2>>}
=============================================================================
