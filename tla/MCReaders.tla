------------------------------ MODULE MCReaders ------------------------------
EXTENDS Readers

\* Every test, and those that drop the sizes, or the result of the parse.
AllReaders == DOMAIN Tests
SizeDroppers == {"zigpak_read"}
ParseDroppers == {"rapidjson_dom", "rapidjson_sax"}

\* Words small enough for TLC, each as wide as its name is beside the others.
MCValues ==
    [width \in {8, 16, 32, 64} |->
        CASE width = 8 -> 4 [] width = 16 -> 8 [] width = 32 -> 16 [] width = 64 -> 256]

\* The bounds of every type, and one beyond each.
MCNumbers ==
    {-128, -127, -9, -8, -5, -4, -3, -2, -1, 0, 1, 2, 3, 4, 7, 8, 15, 16, 127}

\* No text, one, and a key that is longer than the other.
MCTexts == {<<>>, <<48>>, <<97, 255>>}
MCKeys == {<<97, 98>>, <<97, 98, 99>>}

\* As long as nothing is wrong a step adds to mixed no more than to due: once
\* they differ they always will, and states that agree in all else and in
\* whether they differ have the same future.  Afterwards no property asks.
View ==
    <<reader, pc, stack, fault # "none" \/ mixed = due, fault, error, returned>>
=============================================================================
