\* Two students of one class, the teacher of another, every fault once.
SPECIFICATION JetsonSpec
CONSTANTS
    ann = ann
    ben = ben
    tina = tina
    udo = udo
    Nobody = Nobody
    Students = {ann, ben}
    Teachers = {tina, udo}
    Class <- OneClass
    RetryLimit = 1
    Faults = {"docker", "kill"}
    MaxRestarts = 1
INVARIANTS CleanHandover
 
CHECK_DEADLOCK FALSE
