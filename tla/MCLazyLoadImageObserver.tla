--------------------- MODULE MCLazyLoadImageObserver ---------------------
(***************************************************************************)
(* One image element and one element of another kind; each observed at   *)
(* most twice, and at most three entries waiting for the callback: room   *)
(* for the image to be reported visible, hidden and visible again, or for *)
(* both elements' entries to wait together.                               *)
(***************************************************************************)
EXTENDS LazyLoadImageObserver

CONSTANTS img, div

MCElements == {img, div}
MCImages == {img}
====
