---------------------------- MODULE MCController ----------------------------
(* Controller on a small set of wallets and programs. *)
EXTENDS Controller
=============================================================================
