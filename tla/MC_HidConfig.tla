---------------------------- MODULE MC_HidConfig ----------------------------
(* Files with one or two keys, of 3, 5 and 6 bits, at the edges of each.    *)
EXTENDS HidConfig

Texts == {Number(n) : n \in {-64, -63, -56, -48, -32, -1, 0, 1, 7, 8, 15, 16, 31, 32, 63, 64}}
         \cup {Suffixed(5), Word("bluetooth"), Word("yes"), Word("usb")}
Raws == {Plain(t) : t \in Texts} \cup {Token(t) : t \in {Number(4), Word("yes"), Word("")}}
SmallEnvironments == {Unset, Number(6), Number(0), Word("no"), Word("bluetooth"), Word("")}

Empty == [k \in Name |-> Absent]
SmallFiles ==
  {Unreadable}
  \cup {[Empty EXCEPT ![k] = raw] : k \in Name, raw \in Raws}
  \cup {[Empty EXCEPT !["port"] = r1, !["mouse_step_limit"] = r2] : r1, r2 \in Raws}

SmallFallback ==
  [k \in Name |->
     CASE k = "mode"               -> Word("bluetooth")
       [] k \in Flags              -> TRUE
       [] k \in Shorts             -> 3
       [] k \in Ints               -> 12
       [] OTHER                    -> Word("JadeAI")]
=============================================================================
