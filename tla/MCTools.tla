---- MODULE MCTools ----
EXTENDS Tools

MCTemplate == [family |-> 2, payload |-> <<[lit |-> 1], [ref |-> "limb"]>>,
               parameters |-> [limb |-> [min |-> 1, max |-> 2, default |-> 1]]]
MCRow == [status |-> "decoded", provenance |-> "decompile", family |-> 2,
          payload |-> MCTemplate.payload, parameters |-> MCTemplate.parameters,
          derivation |-> "text", observations |-> <<>>]
MCFirstRows == [id \in Ids |-> IF id = "pose" THEN MCRow ELSE
  [MCRow EXCEPT !.status = "unlocated", !.provenance = "vendor-marketing", !.family = NoFamily,
                !.payload = <<>>, !.parameters = <<>>, !.derivation = "none"]]
MCTemplates == {MCTemplate}
MCOverrides == {<<>>, [limb |-> 1]}
MCRawFrames == {<<2, <<1, 1>>>>}

MCCodes == <<[family |-> "pose", code |-> 2], [family |-> "gesture", code |-> 15]>>
MCVariations == <<"baseline", "raise_first", "repeat">>

Total(s) == FoldSeq(LAMBDA x, y: x + y, 0, s)
MCBodies ==
  UNION {{[chunked |-> TRUE, sizes |-> s, sent |-> t, bad |-> b] :
            t \in {0, 1, Total(s) - 1, Total(s)}, b \in {0, Len(s)}} :
         s \in UNION {[1..n -> 1..3] : n \in 1..3}}
    \cup {[chunked |-> FALSE, sizes |-> <<n>>, sent |-> t, bad |-> 0] : n \in 0..7, t \in 0..7}
====
