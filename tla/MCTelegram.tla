------------------------------ MODULE MCTelegram ------------------------------
(* Telegram on a small instance: one poll or file write may fail, two deaths. *)
EXTENDS Telegram

CONSTANTS c1, c2
MCChats == {c1, c2}

=============================================================================
