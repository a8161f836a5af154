----------------------------- MODULE MCMerging -----------------------------
(***************************************************************************)
(* Two providers that list some of the same shows, for TLC.                *)
(***************************************************************************)
EXTENDS Merging

TwoProviders == <<"jambase", "other">>
JamBaseOnly == <<"jambase">>
AllWindows == {"today", "weekend", "week", "month", "all"}

\* Case and punctuation fold away; a text without Latin letters folds to "".
MCFolded == [t \in {"", "Austin", "AUSTIN", "Beyonce", "Beyonce!", "Tool",
                    "zz top"} |->
                CASE t \in {"Austin", "AUSTIN"} -> "austin"
                  [] t \in {"Beyonce", "Beyonce!"} -> "beyonce"
                  [] t = "Tool" -> "tool"
                  [] t = "zz top" -> "zz top"
                  [] OTHER -> ""]

A(name, head) ==
    [name |-> name, head |-> head,
     genres |-> IF name = "Tool" THEN {"metal"}
                ELSE IF name = "" THEN {} ELSE {"pop", "soul"}]

\* The usual record: JamBase, on Friday at eight, in a place of 300 seats.
Gig == [provider |-> "jambase", id |-> "g1", day |-> 4, form |-> "seconds",
        time |-> 20, name |-> "", acts |-> <<A("Beyonce", TRUE)>>,
        city |-> "Austin", place |-> 3, seats |-> 300, tickets |-> TRUE,
        image |-> FALSE, status |-> "scheduled"]

\* The other provider writes names its own way and knows no capacity.
Other == [Gig EXCEPT !.provider = "other", !.id = "o1", !.city = "AUSTIN",
                     !.acts = <<A("Beyonce!", FALSE)>>, !.seats = 0,
                     !.image = TRUE]

Records == {Gig,
            [Gig EXCEPT !.id = "g2", !.day = 6, !.seats = 60000, !.place = 0,
                        !.acts = <<A("Tool", FALSE), A("Beyonce", TRUE)>>],
            [Gig EXCEPT !.id = "g3", !.day = 7, !.name = "zz top",
                        !.acts = <<>>, !.place = NullIsland, !.seats = 0],
            [Gig EXCEPT !.id = "g4", !.day = 36, !.form = "date",
                        !.status = "postponed", !.place = NoPlace],
            [Gig EXCEPT !.id = "g5", !.day = NoDay],
            [Gig EXCEPT !.id = "g6", !.day = 5, !.seats = Overflow],
            Other,
            [Other EXCEPT !.id = "o2", !.day = 4, !.time = 18, !.place = 5,
                          !.acts = <<A("Tool", TRUE)>>, !.seats = 1200],
            [Other EXCEPT !.id = "o3", !.day = 6, !.tickets = FALSE]}

WithZone == Records \cup {[Gig EXCEPT !.id = "g7", !.form = "minutesZ",
                                      !.acts = <<A("Tool", TRUE)>>]}

AtInfinity(raw) == [raw EXCEPT !.id = "inf", !.day = 7, !.place = Unmeasurable]

WithTrouble == WithZone \cup {AtInfinity(Other)}

JamBaseZoned == {raw \in WithZone : raw.provider = "jambase"}
JamBaseAtInfinity == {raw \in Records : raw.provider = "jambase"}
                        \cup {AtInfinity(Gig)}

\* g7 and o2 list one show, and the later record is the richer one.
ASSUME LaterIsRicher == \E d, e \in WithZone :
    /\ SameShow(MapEvent(d), MapEvent(e))
    /\ d.provider = "jambase" /\ e.provider = "other"
    /\ Completeness(MapEvent(d)) < Completeness(MapEvent(e))
=============================================================================
