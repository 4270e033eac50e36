----------------------------- MODULE OtaUpdate ------------------------------
(***************************************************************************)
(* The firmware update of main/update.c.                                   *)
(*                                                                         *)
(* An order carries a url.  The sender puts it in MqttToUpdate and posts a *)
(* trigger to the loop "update", whose handler copies the url into         *)
(* update->url and gives a binary semaphore.  UpdateAdvancedOtaTask takes  *)
(* the semaphore, downloads from update->url as it then is, and restarts   *)
(* the program when an image has been installed.  While it downloads, the  *)
(* handler goes on and orders overwrite one another.                       *)
(*                                                                         *)
(* esp_https_ota and the server that offers images are external.           *)
(***************************************************************************)
EXTENDS Naturals, Sequences

CONSTANTS
    Urls,
    Versions,    (* of images                                              *)
    UpdateLen,   (* length of MqttToUpdate: 1024                           *)
    UpdateLoop,  (* length of the queue of the loop: 32                    *)
    Empty, Torn  (* update->url before any order, and while it is written  *)

ASSUME OtaAssumption ==
    /\ UpdateLen \in Nat \ {0} /\ UpdateLoop \in Nat \ {0}
    /\ Urls # {} /\ Versions # {} /\ Empty \notin Urls /\ Torn \notin Urls

VARIABLES
    mqttToUpdate, (* the orders sent                                       *)
    triggers,     (* how many triggers the loop has queued                 *)
    posting,      (* the sender has yet to post the trigger of its order   *)
    copying,      (* the order that the handler copies, at most one        *)
    url,          (* update->url                                           *)
    sem,          (* update->binarySemHandle                               *)
    ota,          (* where UpdateAdvancedOtaTask is                        *)
    image,        (* version of the image it has begun with                *)
    version,      (* version of the program that runs                      *)
    owed,         (* history: the newest order, until the task begins with *)
                  (* it, or Empty,                                         *)
    untold        (* and whether a trigger was refused                     *)

senderVars  == <<mqttToUpdate, posting, owed, untold>>
handlerVars == <<copying, url, sem>>
taskVars    == <<ota, image, version>>
otaVars     == <<senderVars, triggers, handlerVars, taskVars>>

(* What UpdateInit leaves.                                                 *)
OtaInit ==
    /\ mqttToUpdate = <<>> /\ triggers = 0 /\ posting = FALSE
    /\ copying = {} /\ url = Empty /\ sem = FALSE
    /\ ota = "take" /\ owed = Empty /\ untold = FALSE
    /\ version \in Versions /\ image = version

---------------------------------------------------------------------------
(* The sender: appMsgSend puts the order in the queue, if there is room,   *)
(* and then posts a trigger without waiting.                               *)

SendUpdate(u) ==
    /\ IF Len(mqttToUpdate) < UpdateLen
         THEN /\ mqttToUpdate' = Append(mqttToUpdate, u)
              /\ posting' = TRUE /\ owed' = u
         ELSE UNCHANGED <<mqttToUpdate, posting, owed>>
    /\ UNCHANGED <<untold, triggers, handlerVars, taskVars>>

UpdateTriggerRecv ==
    /\ posting /\ posting' = FALSE
    /\ IF triggers < UpdateLoop THEN triggers' = triggers + 1 /\ UNCHANGED untold
                                ELSE untold' = TRUE /\ UNCHANGED triggers
    /\ UNCHANGED <<mqttToUpdate, owed, handlerVars, taskVars>>

---------------------------------------------------------------------------
(* The loop: one message for every trigger.                                *)

UpdateEventRecvHandler ==
    /\ triggers > 0 /\ copying = {}
    /\ triggers' = triggers - 1
    /\ IF mqttToUpdate = <<>>
         THEN UNCHANGED <<mqttToUpdate, copying, url>>
         ELSE /\ copying' = {Head(mqttToUpdate)} /\ url' = Torn
              /\ mqttToUpdate' = Tail(mqttToUpdate)
    /\ UNCHANGED <<sem, posting, owed, untold, taskVars>>

(* fault: no signal is given while a download runs *)
CopiedWhenIdle ==
    /\ \E u \in copying : url' = u
    /\ copying' = {} /\ sem' = (sem \/ ota = "take")
    /\ UNCHANGED <<senderVars, triggers, taskVars>>

(* The url is complete; giving a semaphore that is given has no effect.    *)
Copied ==
    /\ \E u \in copying : url' = u
    /\ copying' = {} /\ sem' = TRUE
    /\ UNCHANGED <<senderVars, triggers, taskVars>>

---------------------------------------------------------------------------
(* UpdateAdvancedOtaTask                                                   *)

TakeSem ==
    /\ ota = "take" /\ sem
    /\ sem' = FALSE /\ ota' = "begin"
    /\ UNCHANGED <<senderVars, triggers, copying, url, image, version>>

(* esp_https_ota_begin and esp_https_ota_get_img_desc use the url as it    *)
(* is, which may be the one half written, and learn the image's version or *)
(* fail.                                                                   *)
Begin ==
    /\ ota = "begin"
    /\ owed' = IF owed = url THEN Empty ELSE owed
    /\ \/ ota' = "take" /\ UNCHANGED image
       \/ url \in Urls /\ ota' = "compare" /\ image' \in Versions
    /\ UNCHANGED <<mqttToUpdate, posting, untold, triggers, handlerVars, version>>

(* memcmp of the versions: the update goes on when they are equal.         *)
Compare ==
    /\ ota = "compare"
    /\ ota' = IF image = version THEN "perform" ELSE "take"
    /\ UNCHANGED <<senderVars, triggers, handlerVars, image, version>>

(* The loop of esp_https_ota_perform ends, all data received or not, and   *)
(* esp_https_ota_finish accepts the image or not.                          *)
Perform ==
    /\ ota = "perform" /\ ota' \in {"restart", "take"}
    /\ UNCHANGED <<senderVars, triggers, handlerVars, image, version>>

(* After a second, esp_restart: the new program starts with nothing.       *)
Restart ==
    /\ ota = "restart"
    /\ version' = image /\ image' = image
    /\ mqttToUpdate' = <<>> /\ triggers' = 0 /\ posting' = FALSE
    /\ copying' = {} /\ url' = Empty /\ sem' = FALSE
    /\ ota' = "take" /\ owed' = Empty /\ untold' = FALSE

OtaTask == TakeSem \/ Begin \/ Compare \/ Perform

OtaStep == UpdateTriggerRecv \/ UpdateEventRecvHandler \/ Copied \/ OtaTask

OtaNext == (\E u \in Urls : ~posting /\ SendUpdate(u)) \/ OtaStep \/ Restart

OtaSpec == OtaInit /\ [][OtaNext]_otaVars

---------------------------------------------------------------------------
(* The types of the variables and the capacity of the queues.              *)
OtaTypeOK ==
    /\ mqttToUpdate \in Seq(Urls) /\ Len(mqttToUpdate) <= UpdateLen
    /\ triggers \in 0..UpdateLoop /\ posting \in BOOLEAN
    /\ \A u, v \in copying : u = v
    /\ copying \in SUBSET Urls /\ url \in Urls \cup {Empty, Torn}
    /\ sem \in BOOLEAN /\ ota \in {"take", "begin", "compare", "perform", "restart"}
    /\ image \in Versions /\ version \in Versions
    /\ owed \in Urls \cup {Empty} /\ untold \in BOOLEAN

(* The newest order is not forgotten, whenever it comes: until the task    *)
(* has begun with it, it waits with a trigger, or is being copied, or it   *)
(* is the url and the task will look at that again.  (Older orders may be  *)
(* overwritten, and a restart forgets all.)                                *)
NoOrderForgotten ==
    (owed # Empty /\ ~untold) =>
        \/ /\ mqttToUpdate # <<>> /\ mqttToUpdate[Len(mqttToUpdate)] = owed
           /\ triggers + (IF posting THEN 1 ELSE 0) >= Len(mqttToUpdate)
        \/ mqttToUpdate = <<>> /\ owed \in copying
        \/ /\ mqttToUpdate = <<>> /\ copying = {} /\ url = owed
           /\ sem \/ ota = "begin"

(* What is installed is of another version than what runs, as the message  *)
(* of the check says: "Current running version is the same as a new. We    *)
(* will not continue the update."                                          *)
SameVersionRefused == ota = "restart" => image # version
============================================================================
