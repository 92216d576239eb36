-------------------------- MODULE MCAccountGateway --------------------------
(* One position, one regular order and one stop.  A balance is a row like a  *)
(* position without a stop: only AccountMirror.cfg has one, to let messages  *)
(* carry one row or both.                                                    *)
EXTENDS AccountGateway, TLC

CONSTANTS btc, o1, stop1, usdt

MCPositions == {btc}
MCAssets == {usdt}
MCOrders == {o1}
MCAlgos == {stop1}
MCStopFor == stop1 :> btc
=============================================================================
