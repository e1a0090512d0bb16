\* One student and one group, two trainings, two requests of two teachers that may repeat.
SPECIFICATION Spec
CONSTANTS
    Teachers = {t1, t2}
    Students = {s1}
    Groups = {g1}
    Trainings = {j1, j2}
    Requests = {r1,r2}
    None = None
    MaxHours = 1
    Amounts = {2}
    Limits = {1}
    MaxCreated = 2
SYMMETRY Alike
 
PROPERTIES HoursGoHome MemberLimit ImplementsReservation
CHECK_DEADLOCK FALSE
