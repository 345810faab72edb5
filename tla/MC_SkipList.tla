---------------------------- MODULE MC_SkipList ----------------------------
EXTENDS SkipList

(* The level-0 list refines the abstract ordered set: Insert's linearisation *)
(* point is its release store on level 0.                                    *)
Abstract == INSTANCE OrderedSet WITH keys <- Level0Keys

(* Across every interleaving of the writer's stores, the keys reachable on   *)
(* level 0 change only by gaining one new key, never by losing one.          *)
RefinesOrderedSet == Abstract!Spec

=============================================================================
