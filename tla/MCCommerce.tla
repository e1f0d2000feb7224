----------------------------- MODULE MCCommerce -----------------------------
(***************************************************************************)
(* Commerce on two sessions and a window of five days: one whose draws are *)
(* spread over what the generator allows, and one that always pays.        *)
(* Discounts of 5 and 25 per cent on 1.10 and 1.30 end on half cents.      *)
(***************************************************************************)
EXTENDS Commerce

MCSessions == 1..2
MCPrice == <<110, 130, 9001>>
MCEnd == 240

Wide == [start |-> {0, 210}, level |-> 0..4, channel |-> {"direct", "search"},
         discount |-> {0, 5, 25}, approved |-> BOOLEAN, orderDelay |-> {0},
         basket |-> {<< <<1, 1>>, <<1, 1>>, <<1, 1>>, <<2, 1>> >>,
                     << <<3, 2>>, <<1, 1>> >>},
         handling |-> {6, 56}, transit |-> {30}, promise |-> {80},
         pack |-> {7}, depart |-> {1}, out |-> {4, 40}, lag |-> {1},
         returnAfter |-> {2, 48}, receiveAfter |-> {96},
         refundAfter |-> {1}, settleAfter |-> {4, 144}]

Narrow == [start |-> {1}, level |-> {4}, channel |-> {"direct"},
           discount |-> {0}, approved |-> BOOLEAN, orderDelay |-> {1},
           basket |-> {<< <<1, 2>> >>},
           handling |-> {6}, transit |-> {30, 240}, promise |-> {40},
           pack |-> {3}, depart |-> {2}, out |-> {16}, lag |-> {1},
           returnAfter |-> {48}, receiveAfter |-> {96},
           refundAfter |-> {1}, settleAfter |-> {4}]

MCDraw == <<Wide, Narrow>>
=============================================================================
