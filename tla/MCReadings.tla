---------------------------- MODULE MCReadings ----------------------------
EXTENDS Readings, TLC

McScQam == <<1, 2>>
McOfdm == <<11>>
McUp == {1, 2}
McFrequency == (1 :> 60 @@ 2 :> 65 @@ 11 :> 70)
McStart ==
    [c \in Down |-> [power |-> 5, snr |-> 40, mod |-> IF c = 11 THEN 0 ELSE 256]]
McUpStart == (1 :> [power |-> 44, mod |-> 64, mux |-> 0] @@ 2 :> [power |-> 44, mod |-> 0, mux |-> 64])
McErrorSteps == {[corr |-> 1, lost |-> 1], [corr |-> 0, lost |-> 2]}

(* The thresholds of voo.json, but for the volumes of errors and the window. *)
Bands(good, warning) == [good |-> good, warning |-> warning]
Floors(good, warning) == [goodMin |-> good, warningMin |-> warning]
McProfile ==
    [downPower |-> (256 :> Bands(<<-8, 8>>, <<-10, 10>>) @@ 0 :> Bands(<<-8, 8>>, <<-10, 10>>)),
     downDefault |-> 256,
     upPower |-> (0 :> Bands(<<35, 49>>, <<33, 51>>) @@ 64 :> Bands(<<35, 49>>, <<33, 51>>)),
     upDefault |-> 64,
     snr |-> (256 :> Floors(33, 31) @@ 0 :> Floors(33, 31)), snrDefault |-> 256,
     upModulation |-> [critical |-> 4, warning |-> 16, tolerated |-> 0, usual |-> 0],
     ofdma |-> [critical |-> 32, warning |-> 64, tolerated |-> 128, usual |-> 0],
     errors |-> [warning |-> 1, critical |-> 3, minVolume |-> 2, spike |-> 2, window |-> 2],
     gap |-> 10, shiftDown |-> 2, shiftUp |-> 3]
===========================================================================
