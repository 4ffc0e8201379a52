------------------------------ MODULE MCSearch ------------------------------
EXTENDS Search

Hour(y, month, day, h) == 24 * (Ordinal(y, month) + day - 1) + h

(* The clocks of New York, which go forward on 10 March 2024, and those of *)
(* Sydney, which go back on 7 April.                                       *)
MCZones == {
    <<[from |-> 0, ahead |-> -5], [from |-> Hour(2024, 3, 10, 7), ahead |-> -4]>>,
    <<[from |-> 0, ahead |-> 11], [from |-> Hour(2024, 4, 6, 16), ahead |-> 10]>>}

MCFirstHour == Hour(2023, 12, 27, 0)
MCLastHour  == Hour(2024, 4, 9, 0)
MCSearchHours == {MCLastHour}

(* As distance does, the other way round, and the nearest row last.        *)
MCOrders == {<<1, 2, 3>>, <<3, 2, 1>>, <<3, 1, 2>>}

Mine(ago, seen, matches, tags) ==
    [mine |-> TRUE, ago |-> ago, seen |-> seen, matches |-> matches, tags |-> tags]

MCKinds == {
    Mine(0, TRUE, TRUE, {"pdf"}), Mine(720, TRUE, TRUE, {"pdf"}), Mine(720, FALSE, TRUE, {"pdf"}),
    Mine(-24, TRUE, FALSE, {"pdf"}), Mine(None, TRUE, FALSE, {"pdf"}),
    Mine(0, FALSE, TRUE, {"png", "image/"}), Mine(720, TRUE, TRUE, {"png", "image/"}),
    [mine |-> FALSE, ago |-> 0, seen |-> TRUE, matches |-> TRUE, tags |-> {"pdf"}]}
=============================================================================
