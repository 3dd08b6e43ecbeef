----------------------------- MODULE MCOplMusic -----------------------------
(* OplMusic on small instances.                                            *)
EXTENDS OplMusic

At(delta, type) == [delta |-> delta, type |-> type]
Tempo(delta, tempo) == [delta |-> delta, type |-> "SET_TEMPO", tempo |-> tempo]
End(delta) == At(delta, "END_OF_TRACK")

\* Two tracks, the first of which speeds the song up and slows it down again; one of
\* notes that are each played late; four tracks, for a queue where either child sinks;
\* and a short one.
MCTempoSong == <<<<Tempo(0, 2), Tempo(1, 3), End(1)>>, <<At(3, "NOTE"), End(1)>>>>
MCNotes == <<<<At(3, "NOTE"), At(3, "NOTE"), End(1)>>, <<End(8)>>>>
MCFourTracks == <<<<End(2)>>, <<End(2)>>, <<End(1)>>, <<End(2)>>>>
MCShortSong == <<<<End(0)>>>>

MCSongs == {MCTempoSong, MCNotes, MCFourTracks}
MCShort == {MCShortSong}
MCSongsDivision == [s \in MCSongs |-> IF s = MCTempoSong THEN 2 ELSE 6]
MCSongsFastest == [s \in MCSongs |-> IF s = MCTempoSong THEN 2 ELSE 6]
MCShortUnit == [s \in MCShort |-> 1]
=============================================================================
