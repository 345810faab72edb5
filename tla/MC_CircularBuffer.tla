------------------------- MODULE MC_CircularBuffer -------------------------
EXTENDS CircularBuffer

(* The buffer as its accessors present it, operator[] 0 .. Size()-1,     *)
(* refines the bounded FIFO, with capacity_ as its bound.                *)
Abstract == INSTANCE BoundedQueue WITH items <- Contents, cap <- capacity

(* Every PushBack, PopFront and Clear, on an empty, partly filled, full  *)
(* or wrapped buffer, changes what the accessors return exactly as the   *)
(* FIFO that drops its oldest element when full.                        *)
RefinesBoundedQueue == Abstract!Spec

=============================================================================
