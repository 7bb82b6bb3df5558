--------------------------- MODULE MCFrozenInputs ---------------------------
EXTENDS FrozenInputs, TLC

MCFrozen == <<"b", "f">> :> "x" @@ <<"b", "g">> :> "y" @@ <<"c", "f">> :> "z" @@ <<"c", "g">> :> "y"
E(dir, n) == [name |-> n, dir |-> dir, declared |-> 1, verified |-> 1]
MCHashed == {<<"b", "f">>, <<"c", "f">>}
MCManifests == {<<E("b", "f"), E("b", "g")>>}
OddManifests == MCManifests \cup {<<E("b", "f")>>, <<E("flat", "f"), E("flat", "g")>>, <<E("b", "f"), E("b", "f")>>}

Put(f) == [k \in Keys |-> IF k \in DOMAIN f THEN f[k] ELSE None]
Where(f, g, other) == Put(f @@ g @@ other)

\* The first file in every place a run, the old moves and a torn copy can have
\* left it; the second in raw/ or processed/; a file of the same name, or of the
\* same bytes, in another batch.
FirstFile == {Raw("f") :> "x", Raw("f") :> Torn, Processed("f") :> "x",
              FlatProcessed("f") :> "x",
              Processed("f") :> "x" @@ FlatRaw("f") :> "z",
              FlatRaw("f") :> "z" @@ FlatProcessed("f") :> "x",
              FlatRaw("f") :> Torn @@ FlatProcessed("f") :> "x"}
SecondFile == {Raw("g") :> "y", Processed("g") :> "y"}
OtherFile == {Key("processed", "c", "f") :> "z", Key("raw", "c", "g") :> "y"}
\* processed/<file> of another upload, or short: what a reprocess request brings back unseen.
Unseen == {FlatProcessed("f") :> "z", Processed("f") :> "x" @@ FlatProcessed("f") :> Torn}
MCStores == {Where(f, g, o) : f \in FirstFile, g \in SecondFile, o \in OtherFile}
            \cup {Where(f, Raw("g") :> "y", Key("raw", "c", "g") :> "y") : f \in Unseen}

MCStatuses == {[u \in Uploads |-> "verified"],
               [u \in Uploads |-> CASE u = <<"b", "f">> -> "removed"
                                    [] u = <<"c", "f">> -> None
                                    [] OTHER -> "verified"]}
=============================================================================
